--------------------------- MODULE RaisingProofs ---------------------------
(***************************************************************************)
(* Proofs about Raising, for any players, monsters, graph and numbers that *)
(* satisfy its assumptions: Quality Time is what the rules grant, a        *)
(* monster on offer stays as it was offered, no evolution that leaves no   *)
(* choice is missed, and the notices tell each owner the whole story of    *)
(* its monsters.  The lemmas about sequences are those of MovementProofs.  *)
(***************************************************************************)
EXTENDS Raising, MovementProofs

Row == [owner : Players, inParty : BOOLEAN, species : Species, level : 1..MaxLevel,
        essence : 0..MaxCount, fav : 0..MaxCount, unfav : 0..MaxCount,
        favDay : Days, anchor : 0..MaxNow, window : 0..DailyCap,
        accum : 0..(TickLen - 1), ticks : 0..MaxCount]

(* What the histories hold; each time the clock is set back is an event.    *)
HistoryTypes ==
  /\ rewinds <= events /\ DOMAIN notices = Players
  /\ given \in [Monsters -> [Days -> Nat]] /\ since \in [Monsters -> 0..MaxNow]

(* What a day has credited so far is at most the cap for each time it has   *)
(* been lived through, and in the life under way what the window holds.     *)
CreditOf(m) ==
  /\ \A d \in Days : given[m][d] <= DailyCap * (1 + rewinds)
  /\ \A d \in Days : now < mon[m].anchor \/ DayOf(mon[m].anchor) < d =>
       given[m][d] <= DailyCap * rewinds
  /\ mon[m].anchor <= now =>
       given[m][DayOf(mon[m].anchor)] <= DailyCap * rewinds + mon[m].window

(* Time on record, as long as the clock only goes forward: it lies between  *)
(* the trade and the anchor, and there is none before the anchor is set.    *)
OnRecord(r) == r.ticks * TickLen + r.accum
TimeOf(m) ==
  /\ mon[m].anchor <= now /\ since[m] <= now
  /\ mon[m].window = given[m][DayOf(mon[m].anchor)]
  /\ \/ since[m] <= mon[m].anchor /\ OnRecord(mon[m]) <= mon[m].anchor - since[m]
     \/ mon[m].anchor = 0 /\ OnRecord(mon[m]) = 0

CreditInv == \A m \in Monsters : CreditOf(m) /\ (rewinds = 0 => TimeOf(m))

(* Whoever fights is its owner's and on no offer.                           *)
LocksInv ==
  /\ \A p \in Players : \A m \in battle[p] : mon[m].owner = p /\ ~Escrowed(m)
  /\ \A o \in offers : o.from # o.to

(* The images of a sequence's elements; what is left after its first k.     *)
Mapped(f, s) == [i \in DOMAIN s |-> f[s[i]]]
After(s, k) == SubSeq(s, k + 1, Len(s))

(* A path through the graph, as the reveals along it.                       *)
Path(s, a, b) ==
  /\ \A i \in 1..Len(s) : \E e \in Edges : e.from = s[i].from /\ e.to = s[i].to
  /\ \A i \in 1..Len(s) : s[i].from = IF i = 1 THEN a ELSE s[i - 1].to
  /\ b = IF Len(s) = 0 THEN a ELSE s[Len(s)].to

(* The log: entries, the reveals in them, and the entry of a new reveal.    *)
LogRows == [owner : Players, reveal : Reveals(Monsters)]
RevealOf == [u \in LogRows |-> u.reveal]
Entered == [u \in Reveals(Monsters) |-> [owner |-> mon[u.mon].owner, reveal |-> u]]

(* A monster's reveals are a path to its species, an owner's queue is what  *)
(* it has not dismissed, and one without a row was never told anything.     *)
StoryInv ==
  /\ log \in Seq(LogRows) /\ acked \in [Players -> Nat] /\ DOMAIN notices = Players
  /\ \A m \in Monsters : Path(Mapped(RevealOf, OfMonster(m)), First, mon[m].species)
  /\ \A p \in Players :
       /\ acked[p] <= Len(OfOwner(p))
       /\ notices[p] = After(Mapped(RevealOf, OfOwner(p)), acked[p])
       /\ p \notin rows => acked[p] = 0 /\ OfOwner(p) = <<>>

Inv == TypeOK /\ HistoryTypes /\ CreditInv /\ LocksInv /\ StoryInv

(* To select among the images is to take the images of the selected.        *)
Images(f, U) == {f[u] : u \in U}

LEMMA MappedTyped ==
  ASSUME NEW U, NEW s \in Seq(U), NEW f
  PROVE  /\ Mapped(f, s) \in Seq(Images(f, U)) /\ Len(Mapped(f, s)) = Len(s)
         /\ \A i \in 1..Len(s) : Mapped(f, s)[i] = f[s[i]]
  <1>1. DOMAIN s = 1..Len(s) /\ Len(s) \in Nat /\ \A i \in 1..Len(s) : f[s[i]] \in Images(f, U)
    BY DEF Images
  <1> QED BY <1>1 DEF Mapped

LEMMA MappedAppend ==
  ASSUME NEW U, NEW s \in Seq(U), NEW e \in U, NEW f
  PROVE  Mapped(f, Append(s, e)) = Append(Mapped(f, s), f[e])
  <1> DEFINE t == Append(s, e)
             a == Mapped(f, t)
             b == Append(Mapped(f, s), f[e])
  <1>1. t \in Seq(U) /\ Len(t) = Len(s) + 1 /\ t[Len(s) + 1] = e
        /\ \A i \in 1..Len(s) : t[i] = s[i]
    OBVIOUS
  <1>2. Mapped(f, s) \in Seq(Images(f, U)) /\ Len(Mapped(f, s)) = Len(s)
         /\ \A i \in 1..Len(s) : Mapped(f, s)[i] = f[s[i]]
    BY MappedTyped
  <1>3. f[e] \in Images(f, U) /\ Len(s) \in Nat
    BY DEF Images
  <1> HIDE DEF t
  <1>4. a \in Seq(Images(f, U)) /\ Len(a) = Len(t) /\ \A i \in 1..Len(t) : a[i] = f[t[i]]
    <2>1. t \in Seq(U)
      BY <1>1
    <2> QED BY <2>1, MappedTyped
  <1> HIDE DEF a
  <1>5. b \in Seq(Images(f, U)) /\ Len(b) = Len(s) + 1 /\ b[Len(s) + 1] = f[e]
        /\ \A i \in 1..Len(s) : b[i] = f[s[i]]
    BY <1>2, <1>3
  <1> HIDE DEF b
  <1>6. \A i \in 1..Len(a) : a[i] = b[i]
    <2>1. \A i \in 1..Len(a) : i \in 1..Len(s) \/ i = Len(s) + 1
      BY <1>1, <1>3, <1>4
    <2> QED BY <1>1, <1>3, <1>4, <1>5, <2>1
  <1>7. a = b
    BY <1>1, <1>4, <1>5, <1>6, SeqEqual
  <1> QED BY <1>7 DEF a, b, t

LEMMA MappedJoined ==
  ASSUME NEW U, NEW s \in Seq(U), NEW t \in Seq(U), NEW f
  PROVE  Mapped(f, Joined(s, t)) = Joined(Mapped(f, s), Mapped(f, t))
  <1> DEFINE Good == {r \in Seq(U) : Mapped(f, Joined(s, r)) = Joined(Mapped(f, s), Mapped(f, r))}
  <1>1. Mapped(f, s) \in Seq(Images(f, U))
    BY MappedTyped
  <1>2. <<>> \in Good
    <2>1. Joined(s, <<>>) = s /\ Joined(Mapped(f, s), <<>>) = Mapped(f, s) /\ <<>> \in Seq(U)
      BY <1>1, JoinedEmpty
    <2>2. Mapped(f, <<>>) = <<>>
      BY DEF Mapped
    <2> QED BY <2>1, <2>2
  <1>3. ASSUME NEW r \in Seq(U), NEW e \in U, r \in Good PROVE Append(r, e) \in Good
    <2>1. Append(r, e) \in Seq(U) /\ Joined(s, r) \in Seq(U)
      BY JoinedSeq
    <2>2. Mapped(f, r) \in Seq(Images(f, U)) /\ f[e] \in Images(f, U)
      BY MappedTyped DEF Images
    <2>3. Joined(s, Append(r, e)) = Append(Joined(s, r), e)
      BY JoinedAppend
    <2>4. Joined(Mapped(f, s), Append(Mapped(f, r), f[e])) = Append(Joined(Mapped(f, s), Mapped(f, r)), f[e])
      <3>1. \A W : \A a, b \in Seq(W), x \in W : Append(Joined(a, b), x) = Joined(a, Append(b, x))
        BY JoinedAppend
      <3>2. PICK x \in Images(f, U) : x = f[e]
        BY <2>2
      <3>3. Append(Joined(Mapped(f, s), Mapped(f, r)), x) = Joined(Mapped(f, s), Append(Mapped(f, r), x))
        BY <1>1, <2>2, <3>1
      <3> QED BY <3>2, <3>3
    <2>5. Mapped(f, Append(Joined(s, r), e)) = Append(Mapped(f, Joined(s, r)), f[e])
      BY <2>1, MappedAppend
    <2>6. Mapped(f, Append(r, e)) = Append(Mapped(f, r), f[e])
      BY MappedAppend
    <2>7. Mapped(f, Joined(s, r)) = Joined(Mapped(f, s), Mapped(f, r))
      BY <1>3
    <2> QED BY <2>1, <2>3, <2>4, <2>5, <2>6, <2>7
  <1> HIDE DEF Good
  <1>4. t \in Good
    BY <1>2, <1>3, SeqInduction
  <1> QED BY <1>4 DEF Good

LEMMA SelectedMapped ==
  ASSUME NEW U, NEW s \in Seq(U), NEW f, NEW S, NEW T,
         \A u \in U : f[u] \in T <=> u \in S
  PROVE  Selected(Mapped(f, s), T) = Mapped(f, Selected(s, S))
  <1> DEFINE Good == {r \in Seq(U) : Selected(Mapped(f, r), T) = Mapped(f, Selected(r, S))}
  <1>1. <<>> \in Good
    <2>1. Mapped(f, <<>>) = <<>>
      BY DEF Mapped
    <2> QED BY <2>1, SelectedNone
  <1>2. ASSUME NEW r \in Seq(U), NEW e \in U, r \in Good PROVE Append(r, e) \in Good
    <2>1. Mapped(f, r) \in Seq(Images(f, U)) /\ f[e] \in Images(f, U) /\ Append(r, e) \in Seq(U)
      BY MappedTyped DEF Images
    <2>2. Selected(r, S) \in Seq(U)
      <3>1. Selected(r, S) \in Seq(U \cap S)
        BY SelectedTyped
      <3> QED BY <3>1, SeqMonotonic
    <2>3. Selected(Mapped(f, Append(r, e)), T) =
            IF e \in S THEN Append(Selected(Mapped(f, r), T), f[e]) ELSE Selected(Mapped(f, r), T)
      <3>1. Mapped(f, Append(r, e)) = Append(Mapped(f, r), f[e])
        BY MappedAppend
      <3>2. f[e] \in T <=> e \in S
        OBVIOUS
      <3>3. Selected(Append(Mapped(f, r), f[e]), T) =
              IF f[e] \in T THEN Append(Selected(Mapped(f, r), T), f[e]) ELSE Selected(Mapped(f, r), T)
        <4>1. \A W : \A a \in Seq(W), x \in W :
                Selected(Append(a, x), T) = IF x \in T THEN Append(Selected(a, T), x) ELSE Selected(a, T)
          BY SelectedAppend
        <4> QED BY <2>1, <4>1
      <3> QED BY <3>1, <3>2, <3>3
    <2>4. Mapped(f, Selected(Append(r, e), S)) =
            IF e \in S THEN Append(Mapped(f, Selected(r, S)), f[e]) ELSE Mapped(f, Selected(r, S))
      <3>1. Mapped(f, Append(Selected(r, S), e)) = Append(Mapped(f, Selected(r, S)), f[e])
        BY <2>2, MappedAppend
      <3>2. Selected(Append(r, e), S) = IF e \in S THEN Append(Selected(r, S), e) ELSE Selected(r, S)
        BY SelectedAppend
      <3> QED BY <3>1, <3>2
    <2>5. Selected(Mapped(f, r), T) = Mapped(f, Selected(r, S))
      BY <1>2
    <2>6. Selected(Mapped(f, Append(r, e)), T) = Mapped(f, Selected(Append(r, e), S))
      BY <2>3, <2>4, <2>5
    <2> QED BY <2>1, <2>6
  <1> HIDE DEF Good
  <1>3. s \in Good
    BY <1>1, <1>2, SeqInduction
  <1> QED BY <1>3 DEF Good

LEMMA MappedTwice ==
  ASSUME NEW U, NEW s \in Seq(U), NEW f, NEW g, NEW h, \A u \in U : g[f[u]] = h[u]
  PROVE  Mapped(g, Mapped(f, s)) = Mapped(h, s)
  <1>1. Len(s) \in Nat /\ DOMAIN s = 1..Len(s) /\ \A i \in 1..Len(s) : s[i] \in U
    OBVIOUS
  <1> QED BY <1>1 DEF Mapped

LEMMA MappedSame ==
  ASSUME NEW U, NEW s \in Seq(U), NEW f, \A u \in U : f[u] = u
  PROVE  Mapped(f, s) = s
  <1>1. Len(s) \in Nat /\ DOMAIN s = 1..Len(s) /\ \A i \in 1..Len(s) : s[i] \in U
    OBVIOUS
  <1>2. s = [i \in 1..Len(s) |-> s[i]]
    OBVIOUS
  <1> QED BY <1>1, <1>2 DEF Mapped

LEMMA AfterSeq ==
  ASSUME NEW U, NEW s \in Seq(U), NEW k \in 0..Len(s)
  PROVE  /\ After(s, k) \in Seq(U) /\ Len(After(s, k)) = Len(s) - k
         /\ \A i \in 1..(Len(s) - k) : After(s, k)[i] = s[k + i]
  BY DEF After

LEMMA JoinedFacts ==
  ASSUME NEW U, NEW s \in Seq(U), NEW t \in Seq(U)
  PROVE  /\ Joined(s, t) \in Seq(U) /\ Len(Joined(s, t)) = Len(s) + Len(t)
         /\ \A i \in 1..Len(s) : Joined(s, t)[i] = s[i]
  BY DEF Joined

LEMMA AfterJoined ==
  ASSUME NEW U, NEW s \in Seq(U), NEW t \in Seq(U), NEW k \in 0..Len(s)
  PROVE  After(Joined(s, t), k) = Joined(After(s, k), t)
  <1> DEFINE u == Joined(s, t)
             r == After(s, k)
             a == After(u, k)
             b == Joined(r, t)
  <1>1. u \in Seq(U) /\ Len(u) = Len(s) + Len(t) /\ Len(s) \in Nat /\ Len(t) \in Nat
        /\ \A i \in 1..Len(s) : u[i] = s[i]
    BY DEF Joined
  <1>2. \A i \in 1..Len(t) : u[Len(s) + i] = t[i]
    BY DEF Joined
  <1>3. r \in Seq(U) /\ Len(r) = Len(s) - k /\ \A i \in 1..(Len(s) - k) : r[i] = s[k + i]
    BY AfterSeq
  <1> HIDE DEF u, r
  <1>4. k \in 0..Len(u) /\ k \in Nat
    BY <1>1
  <1>5. a \in Seq(U) /\ Len(a) = Len(u) - k /\ \A i \in 1..(Len(u) - k) : a[i] = u[k + i]
    BY <1>1, <1>4, AfterSeq
  <1>6. b \in Seq(U) /\ Len(b) = Len(r) + Len(t) /\ \A i \in 1..Len(r) : b[i] = r[i]
    <2>1. t \in Seq(U) /\ r \in Seq(U)
      BY <1>3
    <2>2. Joined(r, t) \in Seq(U) /\ Len(Joined(r, t)) = Len(r) + Len(t)
      BY ONLY <2>1, JoinedFacts
    <2>3. \A i \in 1..Len(r) : Joined(r, t)[i] = r[i]
      BY ONLY <2>1, JoinedFacts, Zenon
    <2> QED BY ONLY <2>2, <2>3, Zenon DEF b
  <1>7. \A i \in 1..Len(t) : b[Len(r) + i] = t[i]
    BY <1>3 DEF Joined
  <1> HIDE DEF a, b
  <1>8. ASSUME NEW i \in 1..Len(a) PROVE a[i] = b[i]
    <2>1. a[i] = u[k + i]
      BY <1>5
    <2>2. CASE i \in 1..Len(r)
      <3>1. k + i \in 1..Len(s)
        BY <1>1, <1>3, <1>4, <2>2
      <3>2. u[k + i] = s[k + i] /\ b[i] = s[k + i]
        BY <1>1, <1>3, <1>6, <2>2, <3>1
      <3> QED BY <2>1, <3>2
    <2>3. CASE i \notin 1..Len(r)
      <3> DEFINE j == i - Len(r)
      <3>1. j \in 1..Len(t) /\ i = Len(r) + j /\ k + i = Len(s) + j
        BY <1>1, <1>3, <1>4, <1>5, <2>3
      <3> HIDE DEF j
      <3>2. u[Len(s) + j] = t[j] /\ b[Len(r) + j] = t[j]
        BY <1>2, <1>7, <3>1
      <3> QED BY <2>1, <3>1, <3>2
    <2> QED BY <2>2, <2>3
  <1>9. Len(a) = Len(b)
    BY <1>1, <1>3, <1>4, <1>5, <1>6
  <1>10. a = b
    BY <1>5, <1>6, <1>8, <1>9, SeqEqual
  <1> QED BY <1>10 DEF a, b, u, r

LEMMA AfterAfter ==
  ASSUME NEW U, NEW s \in Seq(U), NEW k \in 0..Len(s), NEW n \in 0..(Len(s) - k)
  PROVE  After(After(s, k), n) = After(s, k + n)
  <1> DEFINE a == After(After(s, k), n)
             b == After(s, k + n)
             r == After(s, k)
  <1>1. r \in Seq(U) /\ Len(r) = Len(s) - k /\ \A i \in 1..(Len(s) - k) : r[i] = s[k + i]
    BY AfterSeq
  <1>2. n \in 0..Len(r) /\ k + n \in 0..Len(s) /\ Len(s) \in Nat
    BY <1>1
  <1> HIDE DEF r
  <1> DEFINE c == After(r, n)
  <1>3. c \in Seq(U) /\ Len(c) = Len(r) - n /\ \A i \in 1..(Len(r) - n) : c[i] = r[n + i]
    BY <1>1, <1>2, AfterSeq, ZenonT(40)
  <1>4. b \in Seq(U) /\ Len(b) = Len(s) - (k + n) /\ \A i \in 1..(Len(s) - (k + n)) : b[i] = s[(k + n) + i]
    BY <1>2, AfterSeq
  <1> HIDE DEF b, c
  <1>5. Len(c) = Len(b)
    BY <1>1, <1>2, <1>3, <1>4
  <1>6. \A i \in 1..Len(c) : c[i] = b[i]
    <2> SUFFICES ASSUME NEW i \in 1..Len(c) PROVE c[i] = b[i]
      OBVIOUS
    <2>1. c[i] = r[n + i]
      BY <1>3
    <2>2. n + i \in 1..(Len(s) - k) /\ i \in 1..(Len(s) - (k + n)) /\ k + (n + i) = (k + n) + i
      BY <1>1, <1>2, <1>3
    <2>3. r[n + i] = s[k + (n + i)] /\ b[i] = s[(k + n) + i]
      BY <1>1, <1>4, <2>2
    <2> QED BY <2>1, <2>2, <2>3
  <1>7. c = b
    BY <1>3, <1>4, <1>5, <1>6, SeqEqual
  <1> QED BY <1>7 DEF b, c, r

LEMMA StageByStage ==
  ASSUME NEW n \in Nat, NEW S, NEW f, f[0] \in S[0],
         \A i \in 1..n : f[i - 1] \in S[i - 1] => f[i] \in S[i]
  PROVE  f[n] \in S[n]
  <1> DEFINE Bad == {i \in 0..n : f[i] \notin S[i]}
  <1>1. SUFFICES ASSUME Bad # {} PROVE FALSE
    <2>1. n \in 0..n
      OBVIOUS
    <2> QED BY <2>1
  <1>2. PICK k \in Bad : \A l \in Bad : <<l, k>> \notin OpToRel(<, Nat)
    <2>1. Bad \subseteq Nat
      OBVIOUS
    <2> HIDE DEF Bad
    <2> QED BY <1>1, <2>1, NatLessThanWellFounded, WFMin
  <1>3. k \in Nat /\ \A l \in Bad : ~(l < k)
    <2>1. Bad \subseteq Nat
      OBVIOUS
    <2> HIDE DEF Bad
    <2> QED BY <1>2, <2>1 DEF OpToRel
  <1>4. k \in 1..n /\ k - 1 \in 0..n
    <2>1. k \in 0..n /\ k # 0
      BY <1>2
    <2> QED BY <2>1
  <1>5. f[k - 1] \in S[k - 1]
    BY <1>3, <1>4
  <1> QED BY <1>2, <1>4, <1>5

(* check_and_evolve ends where its steps lead.                              *)
LEMMA CheckedStays ==
  ASSUME NEW m, NEW U, \A y \in U : CheckedOnce(m, y) \in U, NEW x \in U,
         NEW S, x \in S[0],
         \A i \in 1..MaxChainSteps : \A y \in U \cap S[i - 1] : CheckedOnce(m, y) \in S[i]
  PROVE  Checked(m, x) \in U /\ Checked(m, x) \in S[MaxChainSteps]
  <1> DEFINE step == [i \in 1..MaxChainSteps |-> [y \in U |-> CheckedOnce(m, y)]]
             N == MaxChainSteps
             Walks(f) == f = [i \in 0..N |-> IF i = 0 THEN x ELSE CheckedOnce(m, f[i - 1])]
  <1>1. N \in Nat
    BY RaisingTimes
  <1>2. step \in [1..N -> [U -> U]] /\ \A i \in 1..N : \A y \in U : step[i][y] = CheckedOnce(m, y)
    OBVIOUS
  <1>3. PICK f \in [0..N -> U] : Runs(f, N, x, step)
    <2> HIDE DEF step, N
    <2> QED BY <1>1, <1>2, Iterates
  <1>4. Walks(f)
    <2>1. \A i \in 0..N : f[i] = IF i = 0 THEN x ELSE CheckedOnce(m, f[i - 1])
      <3> HIDE DEF step
      <3> QED BY <1>1, <1>2, <1>3 DEF Runs
    <2> QED BY <1>3, <2>1
  <1> DEFINE after == CHOOSE g : Walks(g)
  <1>5. Walks(after)
    BY <1>4
  <1>6. Checked(m, x) = after[N]
    BY DEF Checked
  <1>7. \A i \in 0..N : after[i] = IF i = 0 THEN x ELSE CheckedOnce(m, after[i - 1])
    <2> HIDE DEF after
    <2> QED BY <1>5
  <1> HIDE DEF after
  <1> DEFINE T == [i \in 0..N |-> U \cap S[i]]
  <1>8. after[0] \in T[0]
    BY <1>1, <1>7
  <1>9. \A i \in 1..N : after[i - 1] \in T[i - 1] => after[i] \in T[i]
    BY <1>1, <1>7
  <1>10. after[N] \in T[N]
    <2> HIDE DEF T, N
    <2> QED BY ONLY <1>1, <1>8, <1>9, StageByStage
  <1> QED BY <1>1, <1>6, <1>10

-----------------------------------------------------------------------------
(* The story: how it is told.                                               *)
LEMMA PathEmpty == \A a : Path(<<>>, a, a)
  BY DEF Path

LEMMA PathAppend ==
  ASSUME NEW U, NEW s \in Seq(U), NEW a, NEW b, Path(s, a, b), NEW r \in U,
         NEW e \in Edges, e.from = b, r.from = e.from, r.to = e.to
  PROVE  Path(Append(s, r), a, e.to)
  <1> DEFINE t == Append(s, r)
  <1>1. Len(s) \in Nat /\ Len(t) = Len(s) + 1 /\ t[Len(s) + 1] = r /\ \A i \in 1..Len(s) : t[i] = s[i]
    OBVIOUS
  <1> HIDE DEF t
  <1>2. \A i \in 1..Len(t) : i \in 1..Len(s) \/ i = Len(s) + 1
    BY <1>1
  <1>3. \A i \in 1..Len(t) : \E d \in Edges : d.from = t[i].from /\ d.to = t[i].to
    BY <1>1, <1>2 DEF Path
  <1>4. \A i \in 1..Len(t) : t[i].from = IF i = 1 THEN a ELSE t[i - 1].to
    BY <1>1, <1>2, SMTT(30) DEF Path
  <1>5. e.to = IF Len(t) = 0 THEN a ELSE t[Len(t)].to
    BY <1>1
  <1> QED BY <1>3, <1>4, <1>5 DEF Path, t

LEMMA PathJoined ==
  ASSUME NEW U, NEW s \in Seq(U), NEW t \in Seq(U), NEW a, NEW b, NEW c,
         Path(s, a, b), Path(t, b, c)
  PROVE  Path(Joined(s, t), a, c)
  <1> DEFINE u == Joined(s, t)
             m == Len(s)
             n == Len(t)
  <1>1. m \in Nat /\ n \in Nat /\ Len(u) = m + n
        /\ \A i \in 1..m : u[i] = s[i]
    BY DEF Joined
  <1>2. \A i \in 1..n : u[m + i] = t[i]
    BY DEF Joined
  <1> HIDE DEF u
  <1>3. \A i \in 1..Len(u) : i \in 1..m \/ (i - m \in 1..n /\ i = m + (i - m))
    BY <1>1
  <1>4. ASSUME NEW i \in 1..Len(u)
        PROVE  /\ \E d \in Edges : d.from = u[i].from /\ d.to = u[i].to
               /\ u[i].from = IF i = 1 THEN a ELSE u[i - 1].to
    <2>1. CASE i \in 1..m
      <3>1. u[i] = s[i] /\ (i # 1 => u[i - 1] = s[i - 1])
        BY <1>1, <2>1
      <3>2. s[i].from = IF i = 1 THEN a ELSE s[i - 1].to
        BY <2>1 DEF Path
      <3>3. \E d \in Edges : d.from = s[i].from /\ d.to = s[i].to
        BY <2>1 DEF Path
      <3> QED BY <3>1, <3>2, <3>3
    <2>2. CASE i - m \in 1..n
      <3> DEFINE j == i - m
      <3>1. u[i] = t[j] /\ j \in 1..n
        BY <1>1, <1>2, <2>2
      <3>2. \E d \in Edges : d.from = u[i].from /\ d.to = u[i].to
        BY <3>1 DEF Path
      <3>3. t[j].from = IF j = 1 THEN b ELSE t[j - 1].to
        BY <3>1 DEF Path
      <3>4. CASE j = 1
        <4>1. b = IF m = 0 THEN a ELSE u[m].to
          BY <1>1, SMTT(30) DEF Path
        <4>2. i = m + 1 /\ (m = 0 <=> i = 1) /\ i - 1 = m
          BY <1>1, <3>4
        <4> QED BY <3>1, <3>2, <3>3, <3>4, <4>1, <4>2
      <3>5. CASE j # 1
        <4>1. j - 1 \in 1..n /\ i - 1 = m + (j - 1) /\ i # 1
          BY <1>1, <3>1, <3>5
        <4>2. u[i - 1] = t[j - 1]
          BY <1>2, <4>1
        <4> QED BY <3>1, <3>2, <3>3, <3>5, <4>1, <4>2
      <3> QED BY <3>4, <3>5
    <2> QED BY <1>3, <2>1, <2>2
  <1>5. c = IF Len(u) = 0 THEN a ELSE u[Len(u)].to
    <2>1. b = IF m = 0 THEN a ELSE s[m].to
      BY DEF Path
    <2>2. c = IF n = 0 THEN b ELSE t[n].to
      BY DEF Path
    <2>3. CASE n = 0
      BY <1>1, <2>1, <2>2, <2>3
    <2>4. CASE n # 0
      BY <1>1, <1>2, <2>2, <2>4
    <2> QED BY <2>3, <2>4
  <1> QED BY <1>4, <1>5 DEF Path, u

-----------------------------------------------------------------------------
(* What several monsters tell, one after the other.                         *)
LEMMA FlattenWalks ==
  ASSUME NEW U, NEW z \in Seq(Seq(U))
  PROVE  \E g \in [0..Len(z) -> Seq(U)] :
           /\ g[0] = <<>> /\ \A i \in 1..Len(z) : g[i] = Joined(g[i - 1], z[i])
           /\ FlattenSeq(z) = g[Len(z)]
  <1> DEFINE n == Len(z)
             step == [i \in 1..n |-> [y \in Seq(U) |-> Joined(y, z[i])]]
             Walks(f) == f = [i \in 1..n |-> IF i = 1 THEN z[i] ELSE f[i - 1] \o z[i]]
  <1>1. n \in Nat /\ <<>> \in Seq(U) /\ \A i \in 1..n : z[i] \in Seq(U)
    OBVIOUS
  <1>2. step \in [1..n -> [Seq(U) -> Seq(U)]]
        /\ \A i \in 1..n : \A y \in Seq(U) : step[i][y] = Joined(y, z[i])
    BY <1>1, JoinedSeq
  <1>3. PICK f \in [0..n -> Seq(U)] : Runs(f, n, <<>>, step)
    <2> HIDE DEF step, n
    <2> QED BY <1>1, <1>2, Iterates
  <1>4. f[0] = <<>> /\ \A i \in 1..n : f[i - 1] \in Seq(U) /\ f[i] = Joined(f[i - 1], z[i])
    <2> HIDE DEF step, n
    <2>1. \A i \in 1..n : f[i - 1] \in Seq(U)
      BY <1>1, <1>3
    <2> QED BY <1>1, <1>2, <1>3, <2>1 DEF Runs
  <1>5. CASE n = 0
    <2>1. z = <<>> /\ FlattenSeq(z) = z
      BY <1>5 DEF FlattenSeq
    <2> QED BY <1>1, <1>4, <1>5, <2>1
  <1>6. CASE n # 0
    <2> DEFINE h == [i \in 1..n |-> f[i]]
    <2>1. ASSUME NEW i \in 1..n PROVE h[i] = IF i = 1 THEN z[i] ELSE h[i - 1] \o z[i]
      <3>1. CASE i = 1
        <4>1. z[1] \in Seq(U) /\ f[1] = Joined(f[0], z[1])
          BY <1>1, <1>4, <3>1
        <4>2. Joined(<<>>, z[1]) = z[1]
          BY <4>1, JoinedEmpty
        <4> QED BY <1>4, <3>1, <4>1, <4>2
      <3>2. CASE i # 1
        <4>1. i - 1 \in 1..n
          BY <1>1, <3>2
        <4> QED BY <1>4, <3>2, <4>1 DEF Joined
      <3> QED BY <3>1, <3>2
    <2>2. Walks(h)
      <3>1. h = [i \in 1..n |-> h[i]]
        OBVIOUS
      <3> HIDE DEF h
      <3> QED BY <2>1, <3>1
    <2> DEFINE flatten == CHOOSE g : Walks(g)
    <2>3. Walks(flatten)
      BY <2>2
    <2>4. FlattenSeq(z) = flatten[n]
      BY <1>6 DEF FlattenSeq
    <2>5. \A i \in 1..n : flatten[i] = IF i = 1 THEN z[i] ELSE flatten[i - 1] \o z[i]
      <3> HIDE DEF flatten
      <3> QED BY <2>3
    <2> HIDE DEF flatten
    <2> DEFINE Good == {i \in 0..n : i = 0 \/ flatten[i] = f[i]}
    <2>6. ASSUME NEW i \in 1..n, i - 1 \in Good PROVE i \in Good
      <3>1. flatten[i] = h[i]
        <4>1. CASE i = 1
          BY <2>1, <2>5, <4>1
        <4>2. CASE i # 1
          <5>1. i - 1 \in 1..n /\ flatten[i - 1] = f[i - 1] /\ h[i - 1] = f[i - 1]
            BY <1>1, <2>6, <4>2
          <5>2. h[i] = h[i - 1] \o z[i]
            BY <2>1, <4>2
          <5> HIDE DEF h
          <5>3. flatten[i] = flatten[i - 1] \o z[i]
            BY <2>5, <4>2
          <5> QED BY <5>1, <5>2, <5>3
        <4> QED BY <4>1, <4>2
      <3> QED BY <1>1, <3>1
    <2>7. \A i \in 0..n : i \in Good
      <3>1. 0 \in Good
        BY <1>1
      <3> HIDE DEF Good, n
      <3> QED BY <1>1, <2>6, <3>1, UpTo
    <2>8. flatten[n] = f[n]
      BY <1>1, <1>6, <2>7
    <2> QED BY <1>4, <2>4, <2>8
  <1> QED BY <1>5, <1>6

LEMMA EachOnce ==
  ASSUME NEW M, IsFiniteSet(M), NEW order \in SetToSeqs(M)
  PROVE  /\ order \in Seq(M) /\ \A m \in M : \E i \in 1..Len(order) : order[i] = m
         /\ \A i, j \in 1..Len(order) : i # j => order[i] # order[j]
  <1> DEFINE n == Cardinality(M)
             T == {order[i] : i \in 1..n}
  <1>1. n \in Nat /\ order \in [1..n -> M] /\ \A i, j \in 1..n : i # j => order[i] # order[j]
    BY FS_CardinalityType DEF SetToSeqs
  <1>2. order \in Seq(M) /\ Len(order) = n
    BY <1>1
  <1>3. order \in Injection(1..n, M)
    BY <1>1 DEF Injection, IsInjective
  <1>4. IsFiniteSet(1..n) /\ Cardinality(1..n) = n
    BY <1>1, FS_Interval
  <1>5. order \in Surjection(1..n, M)
    <2> HIDE DEF n
    <2>1. Cardinality(1..n) = Cardinality(M)
      BY <1>4 DEF n
    <2> QED BY <1>3, <2>1, FS_Injection
  <1> QED BY <1>1, <1>2, <1>5 DEF Surjection

OfItself(M, x) == \A m \in M : x[m].told \in Seq(Reveals({m}))

LEMMA ToldByEach ==
  ASSUME NEW M, IsFiniteSet(M), NEW order \in SetToSeqs(M), NEW x, OfItself(M, x),
         NEW z, z \in Seq(Seq(Reveals(M))), Len(z) = Len(order),
         \A i \in 1..Len(order) : z[i] = x[order[i]].told
  PROVE  /\ FlattenSeq(z) \in Seq(Reveals(M))
         /\ \A m : Selected(FlattenSeq(z), Reveals({m})) = IF m \in M THEN x[m].told ELSE <<>>
  <1> DEFINE n == Len(order)
             U == Reveals(M)
  <1>1. /\ order \in Seq(M) /\ \A m \in M : \E i \in 1..n : order[i] = m
        /\ \A i, j \in 1..n : i # j => order[i] # order[j]
    BY EachOnce
  <1>2. n \in Nat /\ DOMAIN order = 1..n /\ \A i \in 1..n : order[i] \in M
    BY <1>1
  <1>4. z \in Seq(Seq(U)) /\ Len(z) = n /\ \A i \in 1..n : z[i] = x[order[i]].told
    OBVIOUS
  <1> HIDE DEF U
  <1>5. PICK g \in [0..n -> Seq(U)] :
           /\ g[0] = <<>> /\ \A i \in 1..n : g[i] = Joined(g[i - 1], z[i])
           /\ FlattenSeq(z) = g[n]
    <2>1. z \in Seq(Seq(U))
      BY <1>4
    <2>2. \E g \in [0..Len(z) -> Seq(U)] :
           /\ g[0] = <<>> /\ \A i \in 1..Len(z) : g[i] = Joined(g[i - 1], z[i])
           /\ FlattenSeq(z) = g[Len(z)]
      BY ONLY <2>1, FlattenWalks
    <2> HIDE DEF n
    <2> QED BY ONLY <1>4, <2>2
  <1>6. ASSUME NEW m
        PROVE  Selected(g[n], Reveals({m})) = IF m \in M THEN x[m].told ELSE <<>>
    <2> DEFINE S == Reveals({m})
               Sofar(i) == IF \E j \in 1..i : order[j] = m THEN x[m].told ELSE <<>>
               Good == {i \in 0..n : Selected(g[i], S) = Sofar(i)}
    <2>1. 0 \in Good
      <3>1. ~\E j \in 1..0 : order[j] = m
        OBVIOUS
      <3> QED BY <1>2, <1>5, <3>1, SelectedNone
    <2>2. ASSUME NEW i \in 1..n, i - 1 \in Good PROVE i \in Good
      <3>1. g[i - 1] \in Seq(U) /\ z[i] \in Seq(U) /\ g[i] = Joined(g[i - 1], z[i])
        <4>1. i \in 0..n /\ i - 1 \in 0..n
          BY <1>2
        <4>2. g[i - 1] \in Seq(U) /\ g[i] = Joined(g[i - 1], z[i])
          BY <1>5, <4>1
        <4>3. z[i] \in Seq(U)
          BY <1>2, <1>4
        <4> QED BY <4>2, <4>3
      <3>2. Selected(g[i], S) = Joined(Selected(g[i - 1], S), Selected(z[i], S))
        BY <3>1, SelectedJoined
      <3>3. Selected(g[i - 1], S) = Sofar(i - 1)
        BY <2>2
      <3>4. CASE order[i] = m
        <4>1. m \in M /\ z[i] = x[m].told /\ x[m].told \in Seq(S)
          BY <1>2, <1>4, <3>4 DEF OfItself
        <4>2. Selected(z[i], S) = z[i]
          BY <4>1, SelectedAll
        <4>3. Sofar(i - 1) = <<>>
          <5>1. ~\E j \in 1..(i - 1) : order[j] = m
            BY <1>1, <1>2, <3>4
          <5> QED BY <5>1
        <4>4. Sofar(i) = z[i]
          BY <1>2, <3>4, <4>1
        <4>5. Selected(g[i], S) = z[i]
          BY <3>1, <3>2, <3>3, <4>2, <4>3, JoinedEmpty
        <4> QED BY <1>2, <4>4, <4>5
      <3>5. CASE order[i] # m
        <4>1. z[i] \in Seq(Reveals({order[i]}))
          BY <1>2, <1>4 DEF OfItself
        <4>2. Reveals({order[i]}) \cap S = {}
          BY <3>5 DEF Reveals
        <4>3. Selected(z[i], S) = <<>>
          BY <4>1, <4>2, SelectedOther
        <4>4. Sofar(i) = Sofar(i - 1)
          <5>1. (\E j \in 1..i : order[j] = m) <=> (\E j \in 1..(i - 1) : order[j] = m)
            BY <1>2, <3>5
          <5> QED BY <5>1
        <4>5. Selected(g[i - 1], S) \in Seq(U)
          BY <3>1, SelectedSeq
        <4>6. Selected(g[i], S) = Selected(g[i - 1], S)
          BY <3>2, <4>3, <4>5, JoinedEmpty
        <4> HIDE DEF Sofar
        <4> QED BY <1>2, <3>3, <4>4, <4>6
      <3> QED BY <3>4, <3>5
    <2> HIDE DEF Good
    <2>3. n \in Good
      <3>1. \A i \in 0..n : i \in Good
        <4> HIDE DEF n
        <4> QED BY <1>2, <2>1, <2>2, UpTo
      <3> QED BY <1>2, <3>1
    <2>4. (\E j \in 1..n : order[j] = m) <=> m \in M
      BY <1>1, <1>2
    <2> QED BY <2>3, <2>4 DEF Good
  <1>7. FlattenSeq(z) \in Seq(U)
    BY <1>2, <1>5
  <1>8. \A m : Selected(FlattenSeq(z), Reveals({m})) = IF m \in M THEN x[m].told ELSE <<>>
    BY <1>5, <1>6
  <1> QED BY <1>7, <1>8 DEF U

-----------------------------------------------------------------------------
LEMMA LogSelected ==
  ASSUME NEW U, log \in Seq(U)
  PROVE  /\ \A m : OfMonster(m) \in Seq(U)
         /\ \A p : OfOwner(p) \in Seq(U)
  BY SelectedSeq DEF OfMonster, OfOwner

LEMMA StoryTold ==
  StoryInv => RevealsTellTheStory
  <1> SUFFICES ASSUME StoryInv PROVE RevealsTellTheStory
    OBVIOUS
  <1>1. /\ \A m : OfMonster(m) \in Seq(LogRows)
        /\ \A p : OfOwner(p) \in Seq(LogRows)
    BY LogSelected DEF StoryInv
  <1>2. ASSUME NEW s \in Seq(LogRows)
        PROVE  /\ Mapped(RevealOf, s) = [i \in 1..Len(s) |-> s[i].reveal]
               /\ Len(Mapped(RevealOf, s)) = Len(s) /\ Len(s) \in Nat
               /\ \A i \in 1..Len(s) : Mapped(RevealOf, s)[i] = s[i].reveal
    <2>1. Len(s) \in Nat /\ DOMAIN s = 1..Len(s) /\ \A i \in 1..Len(s) : s[i] \in LogRows
      OBVIOUS
    <2>2. Mapped(RevealOf, s) = [i \in 1..Len(s) |-> s[i].reveal]
      BY <2>1 DEF Mapped, RevealOf
    <2> QED BY <2>1, <2>2
  <1>3. ASSUME NEW m \in Monsters
        PROVE  LET s == OfMonster(m) IN
         /\ \A i \in DOMAIN s : \E e \in Edges :
              <<e.from, e.to>> = <<s[i].reveal.from, s[i].reveal.to>>
         /\ \A i \in DOMAIN s :
              s[i].reveal.from = IF i = 1 THEN First ELSE s[i - 1].reveal.to
         /\ mon[m].species = IF s = <<>> THEN First ELSE s[Len(s)].reveal.to
    <2> DEFINE s == OfMonster(m)
               t == Mapped(RevealOf, s)
    <2>1. s \in Seq(LogRows) /\ Path(t, First, mon[m].species)
      BY <1>1 DEF StoryInv
    <2> HIDE DEF s
    <2>2. Len(t) = Len(s) /\ Len(s) \in Nat /\ DOMAIN s = 1..Len(s)
          /\ \A i \in 1..Len(s) : t[i] = s[i].reveal
      BY <1>2, <2>1
    <2> HIDE DEF t
    <2>3. /\ \A i \in 1..Len(s) : \E e \in Edges : e.from = t[i].from /\ e.to = t[i].to
          /\ \A i \in 1..Len(s) : t[i].from = IF i = 1 THEN First ELSE t[i - 1].to
          /\ mon[m].species = IF Len(s) = 0 THEN First ELSE t[Len(s)].to
      BY <2>1, <2>2 DEF Path
    <2>4. \A i \in 1..Len(s) : i # 1 => i - 1 \in 1..Len(s)
      BY <2>2
    <2>5. s = <<>> <=> Len(s) = 0
      BY <2>1
    <2>6. Len(s) # 0 => Len(s) \in 1..Len(s)
      BY <2>2
    <2>7. \A i \in DOMAIN s : s[i].reveal.from = IF i = 1 THEN First ELSE s[i - 1].reveal.to
      BY <2>2, <2>3, <2>4
    <2>8. mon[m].species = IF s = <<>> THEN First ELSE s[Len(s)].reveal.to
      BY <2>2, <2>3, <2>5, <2>6
    <2>9. \A i \in DOMAIN s : \E e \in Edges :
              <<e.from, e.to>> = <<s[i].reveal.from, s[i].reveal.to>>
      BY <2>2, <2>3
    <2> QED BY <2>7, <2>8, <2>9 DEF s
  <1>4. ASSUME NEW p \in Players
        PROVE  LET own == OfOwner(p)
               IN notices[p] = [i \in 1..(Len(own) - acked[p]) |-> own[acked[p] + i].reveal]
    <2> DEFINE own == OfOwner(p)
               t == Mapped(RevealOf, own)
               k == acked[p]
    <2>1. own \in Seq(LogRows) /\ k \in Nat /\ k <= Len(own) /\ notices[p] = After(t, k)
      BY <1>1 DEF StoryInv
    <2> HIDE DEF own
    <2>2. t \in Seq(Images(RevealOf, LogRows)) /\ Len(t) = Len(own) /\ Len(own) \in Nat
          /\ \A i \in 1..Len(own) : t[i] = own[i].reveal
      BY <1>2, <2>1, MappedTyped
    <2> HIDE DEF t, k
    <2>3. k \in 0..Len(t)
      BY <2>1, <2>2
    <2> DEFINE r == After(t, k)
    <2>4. r \in Seq(Images(RevealOf, LogRows)) /\ Len(r) = Len(t) - k
          /\ \A i \in 1..(Len(t) - k) : r[i] = t[k + i]
      BY <2>2, <2>3, AfterSeq
    <2> HIDE DEF r
    <2>5. r = [i \in 1..Len(r) |-> r[i]]
      BY <2>4
    <2>6. \A i \in 1..(Len(own) - k) : k + i \in 1..Len(own)
      BY <2>1, <2>2
    <2>7. \A i \in 1..Len(r) : r[i] = own[k + i].reveal
      BY <2>2, <2>4, <2>6
    <2>8. r = [i \in 1..(Len(own) - k) |-> own[k + i].reveal]
      BY <2>2, <2>4, <2>5, <2>7
    <2> QED BY <2>1, <2>8 DEF own, r, k
  <1> QED BY <1>3, <1>4 DEF RevealsTellTheStory

LEMMA StoryUntouched ==
  ASSUME StoryInv, UNCHANGED <<notices, rows, log, acked>>,
         \A m \in Monsters : mon'[m].species = mon[m].species
  PROVE  StoryInv'
  BY DEF StoryInv, OfMonster, OfOwner

(* What a reducer stores is added to the story and to the queues.           *)
LEMMA StoreStory ==
  ASSUME StoryInv, mon \in [Monsters -> Row], NEW M \in SUBSET Monsters, NEW x, NEW credited,
         Store(M, x, credited), UNCHANGED acked,
         \A m \in M : /\ x[m].mon.owner = mon[m].owner /\ x[m].told \in Seq(Reveals({m}))
                      /\ Path(x[m].told, mon[m].species, x[m].mon.species)
  PROVE  StoryInv'
  <1>1. PICK order \in SetToSeqs(M) :
          LET told  == FlattenSeq([i \in DOMAIN order |-> x[order[i]].told])
              By(p) == Selected(told, Reveals(Owned(p)))
          IN /\ mon' = [m \in Monsters |-> IF m \in M THEN x[m].mon ELSE mon[m]]
             /\ notices' = [p \in Players |-> notices[p] \o By(p)]
             /\ rows' = rows \cup {p \in Players : By(p) # <<>>}
             /\ log' = log \o [i \in DOMAIN told |->
                           [owner |-> mon[told[i].mon].owner, reveal |-> told[i]]]
    BY DEF Store
  <1> DEFINE told  == FlattenSeq([i \in DOMAIN order |-> x[order[i]].told])
             By(p) == Selected(told, Reveals(Owned(p)))
             R == Reveals(Monsters)
             new == Mapped(Entered, told)
  <1>2. IsFiniteSet(M)
    BY RaisingPlayers, FS_Subset
  <1>3. told \in Seq(R)
        /\ \A m : Selected(told, Reveals({m})) = IF m \in M THEN x[m].told ELSE <<>>
    <2>1. told \in Seq(Reveals(M))
          /\ \A m : Selected(told, Reveals({m})) = IF m \in M THEN x[m].told ELSE <<>>
      <3>1. \A m \in M : x[m].told \in Seq(Reveals({m}))
        OBVIOUS
      <3> DEFINE z == [i \in DOMAIN order |-> x[order[i]].told]
      <3>2. order \in Seq(M)
        BY <1>2, EachOnce
      <3>3. \A m \in M : x[m].told \in Seq(Reveals(M))
        <4>1. \A m \in M : Reveals({m}) \subseteq Reveals(M)
          BY DEF Reveals
        <4> QED BY <3>1, <4>1, SeqMonotonic
      <3>4. Len(order) \in Nat /\ DOMAIN order = 1..Len(order) /\ \A i \in 1..Len(order) : order[i] \in M
        BY <3>2
      <3>5. \A i \in 1..Len(order) : x[order[i]].told \in Seq(Reveals(M))
        BY <3>3, <3>4
      <3>6. z \in Seq(Seq(Reveals(M))) /\ Len(z) = Len(order)
            /\ \A i \in 1..Len(order) : z[i] = x[order[i]].told
        BY <3>4, <3>5
      <3>7. told = FlattenSeq(z)
        OBVIOUS
      <3> HIDE DEF z, told
      <3> QED
       <4>1. /\ FlattenSeq(z) \in Seq(Reveals(M))
            /\ \A m : Selected(FlattenSeq(z), Reveals({m})) = IF m \in M THEN x[m].told ELSE <<>>
         <5>1. OfItself(M, x) /\ order \in SetToSeqs(M)
           BY <1>1, <3>1 DEF OfItself
         <5> QED BY ONLY <1>2, <3>6, <5>1, ToldByEach
       <4> QED BY <3>7, <4>1

    <2>2. Reveals(M) \subseteq R
      BY DEF Reveals
    <2> HIDE DEF told, R
    <2> QED BY <2>1, <2>2, SeqMonotonic
  <1>4. /\ mon' = [m \in Monsters |-> IF m \in M THEN x[m].mon ELSE mon[m]]
        /\ notices' = [p \in Players |-> notices[p] \o By(p)]
        /\ rows' = rows \cup {p \in Players : By(p) # <<>>}
        /\ log' = log \o [i \in DOMAIN told |->
                           [owner |-> mon[told[i].mon].owner, reveal |-> told[i]]]
    BY <1>1
  <1> HIDE DEF told, By
  <1>5. \A u \in R : u.mon \in Monsters /\ Entered[u] = [owner |-> mon[u.mon].owner, reveal |-> u]
                     /\ Entered[u] \in LogRows /\ RevealOf[Entered[u]] = u
    <2> SUFFICES ASSUME NEW u \in R
                 PROVE  u.mon \in Monsters /\ Entered[u] = [owner |-> mon[u.mon].owner, reveal |-> u]
                        /\ Entered[u] \in LogRows /\ RevealOf[Entered[u]] = u
      OBVIOUS
    <2>1. u.mon \in Monsters
      BY DEF Reveals
    <2>2. mon[u.mon].owner \in Players
      BY <2>1 DEF Row
    <2>3. Entered[u] = [owner |-> mon[u.mon].owner, reveal |-> u]
      BY DEF Entered
    <2>4. Entered[u] \in LogRows
      BY <2>2, <2>3 DEF LogRows
    <2>5. Entered[u].reveal = u
      BY <2>3
    <2>6. RevealOf[Entered[u]] = u
      BY <2>4, <2>5 DEF RevealOf
    <2> QED BY <2>1, <2>3, <2>4, <2>6
  <1>6. log' = Joined(log, new)
    <2>1. DOMAIN told = 1..Len(told) /\ \A i \in DOMAIN told : told[i] \in R
      BY <1>3
    <2>2. [i \in DOMAIN told |-> [owner |-> mon[told[i].mon].owner, reveal |-> told[i]]] = new
      BY <1>5, <2>1 DEF Mapped
    <2> HIDE DEF new
    <2> QED BY <1>4, <2>2 DEF Joined
  <1>7. new \in Seq(LogRows) /\ log \in Seq(LogRows)
    <2>1. new \in Seq(Images(Entered, R))
      BY <1>3, MappedTyped
    <2>2. Images(Entered, R) \subseteq LogRows
      BY <1>5 DEF Images
    <2> HIDE DEF new
    <2> QED BY <2>1, <2>2, SeqMonotonic DEF StoryInv
  <1> HIDE DEF R
  <1>8. ASSUME NEW S, NEW T, \A u \in R : Entered[u] \in T <=> u \in S
        PROVE  /\ Selected(log', T) = Joined(Selected(log, T), Selected(new, T))
               /\ Selected(new, T) = Mapped(Entered, Selected(told, S))
               /\ Mapped(RevealOf, Selected(log', T))
                    = Joined(Mapped(RevealOf, Selected(log, T)), Selected(told, S))
    <2>1. Selected(new, T) = Mapped(Entered, Selected(told, S))
      BY <1>3, <1>8, SelectedMapped
    <2> HIDE DEF new
    <2>2. Selected(log', T) = Joined(Selected(log, T), Selected(new, T))
      BY <1>6, <1>7, SelectedJoined
    <2>3. Selected(log, T) \in Seq(LogRows) /\ Selected(new, T) \in Seq(LogRows)
      BY <1>7, SelectedSeq
    <2>4. Mapped(RevealOf, Joined(Selected(log, T), Selected(new, T)))
            = Joined(Mapped(RevealOf, Selected(log, T)), Mapped(RevealOf, Selected(new, T)))
      BY <2>3, MappedJoined
    <2>5. Selected(told, S) \in Seq(R)
      BY <1>3, SelectedSeq
    <2> DEFINE id == [u \in R |-> u]
    <2>6. Mapped(RevealOf, Mapped(Entered, Selected(told, S))) = Mapped(id, Selected(told, S))
      <3>1. \A u \in R : RevealOf[Entered[u]] = id[u]
        BY <1>5 DEF R
      <3> HIDE DEF id
      <3> QED BY <2>5, <3>1, MappedTwice
    <2>7. Mapped(id, Selected(told, S)) = Selected(told, S)
      <3>1. \A u \in R : id[u] = u
        OBVIOUS
      <3> HIDE DEF id
      <3> QED BY <2>5, <3>1, MappedSame
    <2> QED BY <2>1, <2>2, <2>4, <2>6, <2>7
  <1>9. log' \in Seq(LogRows)
    <2> HIDE DEF new
    <2> QED BY <1>6, <1>7, JoinedSeq
  <1>10. ASSUME NEW m \in Monsters
         PROVE  Path(Mapped(RevealOf, OfMonster(m)'), First, mon'[m].species)
    <2> DEFINE T == [owner : Players, reveal : Reveals({m})]
               S == Reveals({m})
               before == Mapped(RevealOf, Selected(log, T))
    <2>1. \A u \in R : Entered[u] \in T <=> u \in S
      <3> SUFFICES ASSUME NEW u \in R PROVE Entered[u] \in T <=> u \in S
        OBVIOUS
      <3>1. Entered[u] = [owner |-> mon[u.mon].owner, reveal |-> u] /\ Entered[u] \in LogRows
        BY <1>5
      <3>2. Entered[u].reveal = u /\ Entered[u].owner \in Players
        BY <3>1 DEF LogRows
      <3> QED BY <3>1, <3>2
    <2>2. OfMonster(m)' = Selected(log', T) /\ OfMonster(m) = Selected(log, T)
      BY DEF OfMonster
    <2>3. Mapped(RevealOf, OfMonster(m)') = Joined(before, Selected(told, S))
      <3> HIDE DEF T, S
      <3> QED BY <1>8, <2>1, <2>2 DEF before
    <2>4. Path(before, First, mon[m].species)
      BY <2>2 DEF StoryInv
    <2>5. before \in Seq(Images(RevealOf, LogRows))
      BY <1>7, SelectedSeq, MappedTyped
    <2>6. CASE m \in M
      <3>1. Selected(told, S) = x[m].told /\ mon'[m] = x[m].mon
            /\ Path(x[m].told, mon[m].species, x[m].mon.species)
        BY <1>3, <1>4, <2>6
      <3> DEFINE V == Images(RevealOf, LogRows) \cup S
      <3>2. before \in Seq(V) /\ x[m].told \in Seq(V)
        <4>1. x[m].told \in Seq(S)
          BY <2>6
        <4> HIDE DEF before, S
        <4> QED BY <2>5, <4>1, SeqMonotonic
      <3> HIDE DEF before, S, V
      <3>3. Path(Joined(before, x[m].told), First, x[m].mon.species)
        BY <2>4, <3>1, <3>2, PathJoined
      <3> QED BY <2>3, <3>1, <3>3
    <2>7. CASE m \notin M
      <3>1. Selected(told, S) = <<>> /\ mon'[m] = mon[m]
        BY <1>3, <1>4, <2>7
      <3> HIDE DEF before, S
      <3>2. Joined(before, <<>>) = before
        BY <2>5, JoinedEmpty
      <3> QED BY <2>3, <2>4, <3>1, <3>2
    <2> QED BY <2>6, <2>7
  <1>11. ASSUME NEW p \in Players
         PROVE  /\ acked'[p] <= Len(OfOwner(p)')
                /\ notices'[p] = After(Mapped(RevealOf, OfOwner(p)'), acked'[p])
                /\ p \notin rows' => acked'[p] = 0 /\ OfOwner(p)' = <<>>
    <2> DEFINE T == [owner : {p}, reveal : Reveals(Monsters)]
               S == Reveals(Owned(p))
               own == Selected(log, T)
               before == Mapped(RevealOf, own)
               k == acked[p]
    <2>1. \A u \in R : Entered[u] \in T <=> u \in S
      <3> SUFFICES ASSUME NEW u \in R PROVE Entered[u] \in T <=> u \in S
        OBVIOUS
      <3>1. Entered[u] = [owner |-> mon[u.mon].owner, reveal |-> u] /\ u \in Reveals(Monsters)
        BY <1>5 DEF R
      <3>2. u \in Reveals(Owned(p)) <=> mon[u.mon].owner = p
        BY <3>1 DEF Reveals, Owned
      <3> QED BY <3>1, <3>2
    <2>2. OfOwner(p)' = Selected(log', T) /\ OfOwner(p) = own
      BY DEF OfOwner
    <2>3. /\ OfOwner(p)' = Joined(own, Mapped(Entered, By(p)))
          /\ Mapped(RevealOf, OfOwner(p)') = Joined(before, By(p))
      <3> HIDE DEF T, S
      <3> QED BY <1>8, <2>1, <2>2 DEF before, By, S
    <2>4. own \in Seq(LogRows) /\ By(p) \in Seq(R)
      BY <1>3, <1>7, SelectedSeq DEF By
    <2>5. k \in 0..Len(own) /\ notices[p] = After(before, k) /\ (p \notin rows => k = 0 /\ own = <<>>)
      BY <2>2, <2>4 DEF StoryInv
    <2>6. acked'[p] = k /\ notices'[p] = Joined(notices[p], By(p))
      BY <1>4 DEF Joined
    <2>7. before \in Seq(Images(RevealOf, LogRows)) /\ Len(before) = Len(own)
      BY <2>4, MappedTyped
    <2>8. Mapped(Entered, By(p)) \in Seq(Images(Entered, R)) /\ Mapped(Entered, <<>>) = <<>>
      <3>1. Mapped(Entered, By(p)) \in Seq(Images(Entered, R))
        BY <2>4, MappedTyped
      <3>2. Mapped(Entered, <<>>) = <<>>
        BY DEF Mapped
      <3> QED BY <3>1, <3>2
    <2> HIDE DEF own, k
    <2>9. acked'[p] <= Len(OfOwner(p)')
      <3> DEFINE more == Mapped(Entered, By(p))
      <3>1. Len(more) \in Nat
        BY <2>8
      <3> HIDE DEF more
      <3>2. more \in Seq(Images(Entered, R))
        BY <2>8 DEF more
      <3>3. Len(Joined(own, more)) = Len(own) + Len(more)
        BY <2>4, <3>2 DEF Joined
      <3>4. Len(own) \in Nat
        BY <2>4
      <3> QED BY <2>3, <2>5, <2>6, <3>1, <3>3, <3>4 DEF more
    <2>10. notices'[p] = After(Mapped(RevealOf, OfOwner(p)'), acked'[p])
      <3> DEFINE V == Images(RevealOf, LogRows) \cup R
      <3>1. before \in Seq(V) /\ By(p) \in Seq(V) /\ k \in 0..Len(before)
        <4> HIDE DEF before, By
        <4> QED BY <2>4, <2>5, <2>7, SeqMonotonic
      <3> HIDE DEF before, V
      <3>2. After(Joined(before, By(p)), k) = Joined(After(before, k), By(p))
        BY <3>1, AfterJoined
      <3> QED BY <2>3, <2>5, <2>6, <3>2
    <2>11. p \notin rows' => acked'[p] = 0 /\ OfOwner(p)' = <<>>
      <3>1. SUFFICES ASSUME p \notin rows' PROVE acked'[p] = 0 /\ OfOwner(p)' = <<>>
        OBVIOUS
      <3>2. p \notin rows /\ By(p) = <<>>
        BY <1>4, <3>1
      <3>3. own = <<>> /\ k = 0
        BY <2>5, <3>2
      <3>4. OfOwner(p)' = Joined(<<>>, <<>>)
        BY <2>3, <2>8, <3>2, <3>3
      <3>5. Joined(<<>>, <<>>) = <<>>
        BY <2>4, <3>3, JoinedEmpty
      <3> QED BY <2>6, <3>3, <3>4, <3>5
    <2> QED BY <2>9, <2>10, <2>11
  <1>12. acked' \in [Players -> Nat] /\ DOMAIN notices' = Players
    BY <1>4 DEF StoryInv
  <1> QED BY <1>9, <1>10, <1>11, <1>12 DEF StoryInv

LEMMA StoryInit ==
  Init => StoryInv
  <1> SUFFICES ASSUME Init PROVE StoryInv
    OBVIOUS
  <1>1. /\ log = <<>> /\ acked = [p \in Players |-> 0] /\ notices = [p \in Players |-> <<>>]
        /\ \A m \in Monsters : mon[m].species = First
    BY DEF Init, Fresh
  <1>2. Mapped(RevealOf, <<>>) = <<>> /\ After(<<>>, 0) = <<>> /\ Len(<<>>) = 0 /\ <<>> \in Seq(LogRows)
    BY DEF Mapped, After
  <1>3. \A S : Selected(log, S) = <<>>
    BY <1>1, SelectedNone
  <1>4. /\ \A m \in Monsters : OfMonster(m) = <<>>
        /\ \A p \in Players : OfOwner(p) = <<>>
    BY <1>3 DEF OfMonster, OfOwner
  <1> QED BY <1>1, <1>2, <1>4, PathEmpty DEF StoryInv

(* An owner dismisses the first of what it has not dismissed.               *)
LEMMA AckStory ==
  ASSUME StoryInv, NEW p \in Players, NEW n \in Nat, AckNotices(p, n)
  PROVE  StoryInv'
  <1>1. /\ p \in rows /\ n \in 1..Len(notices[p])
        /\ notices' = [notices EXCEPT ![p] = SubSeq(@, n + 1, Len(@))]
        /\ acked' = [acked EXCEPT ![p] = @ + n]
        /\ UNCHANGED <<mon, rows, log>>
    BY DEF AckNotices
  <1>2. log' \in Seq(LogRows) /\ DOMAIN notices' = Players
        /\ \A m \in Monsters : Path(Mapped(RevealOf, OfMonster(m)'), First, mon'[m].species)
    BY <1>1 DEF StoryInv, OfMonster
  <1>3. OfOwner(p) \in Seq(LogRows)
    BY LogSelected DEF StoryInv
  <1> DEFINE t == Mapped(RevealOf, OfOwner(p))
             k == acked[p]
  <1>4. /\ t \in Seq(Images(RevealOf, LogRows)) /\ Len(t) = Len(OfOwner(p))
        /\ k \in Nat /\ k <= Len(t) /\ notices[p] = After(t, k)
    BY <1>3, MappedTyped DEF StoryInv
  <1> HIDE DEF t
  <1>5. k \in 0..Len(t) /\ Len(t) \in Nat
    BY <1>4
  <1>6. Len(notices[p]) = Len(t) - k
    BY <1>4, <1>5, AfterSeq
  <1>7. n \in 0..(Len(t) - k)
    BY <1>1, <1>6
  <1>8. notices'[p] = After(t, k + n) /\ acked'[p] = k + n
    <2>1. notices'[p] = After(After(t, k), n)
      BY <1>1, <1>4 DEF After, StoryInv
    <2>2. After(After(t, k), n) = After(t, k + n)
      BY <1>4, <1>5, <1>7, AfterAfter
    <2> QED BY <1>1, <2>1, <2>2 DEF StoryInv
  <1>9. acked' \in [Players -> Nat]
    BY <1>1, <1>4 DEF StoryInv
  <1>10. ASSUME NEW q \in Players
         PROVE  /\ acked'[q] <= Len(OfOwner(q)')
                /\ notices'[q] = After(Mapped(RevealOf, OfOwner(q)'), acked'[q])
                /\ q \notin rows' => acked'[q] = 0 /\ OfOwner(q)' = <<>>
    <2>1. OfOwner(q)' = OfOwner(q)
      BY <1>1 DEF OfOwner
    <2>2. CASE q = p
      <3>1. k + n <= Len(t)
        BY <1>5, <1>7
      <3> QED BY <1>1, <1>4, <1>8, <2>1, <2>2, <3>1 DEF t
    <2>3. CASE q # p
      <3>1. acked'[q] = acked[q] /\ notices'[q] = notices[q]
        BY <1>1, <2>3 DEF StoryInv
      <3> QED BY <1>1, <2>1, <3>1 DEF StoryInv
    <2> QED BY <2>2, <2>3
  <1> QED BY <1>2, <1>9, <1>10 DEF StoryInv

(* What a guest was told, and the rest of it, becomes the account's.        *)
LEMMA ClaimStory ==
  ASSUME StoryInv, mon \in [Monsters -> Row], NEW g \in Players, NEW a \in Players, g # a,
         ClaimGuest(g, a)
  PROVE  StoryInv'
  <1> DEFINE Moved == [u \in LogRows |-> IF u.owner = g THEN [u EXCEPT !.owner = a] ELSE u]
             Of(p) == [owner : {p}, reveal : Reveals(Monsters)]
             Others == {u \in LogRows : u.owner # a}
             Source(p) == IF p = a THEN Of(g) ELSE IF p = g THEN {} ELSE Of(p)
  <1>1. /\ a \notin rows
        /\ mon' = [m \in Monsters |-> IF mon[m].owner = g THEN [mon[m] EXCEPT !.owner = a] ELSE mon[m]]
        /\ notices' = IF g \in rows
                      THEN [notices EXCEPT ![g] = <<>>, ![a] = notices[g]] ELSE notices
        /\ rows' = IF g \in rows THEN (rows \ {g}) \cup {a} ELSE rows
        /\ log' = [i \in DOMAIN log |-> IF log[i].owner = g THEN [log[i] EXCEPT !.owner = a] ELSE log[i]]
        /\ acked' = [acked EXCEPT ![g] = 0, ![a] = @ + acked[g]]
    BY DEF ClaimGuest, HasGameData
  <1>2. log \in Seq(LogRows) /\ \A p : OfOwner(p) = Selected(log, Of(p))
    BY DEF StoryInv, OfOwner
  <1>3. \A u \in LogRows : /\ Moved[u] \in LogRows /\ Moved[u].reveal = u.reveal
                           /\ Moved[u].owner = IF u.owner = g THEN a ELSE u.owner
                           /\ RevealOf[Moved[u]] = RevealOf[u]
    <2> SUFFICES ASSUME NEW u \in LogRows
                 PROVE  /\ Moved[u] \in LogRows /\ Moved[u].reveal = u.reveal
                        /\ Moved[u].owner = IF u.owner = g THEN a ELSE u.owner
                        /\ RevealOf[Moved[u]] = RevealOf[u]
      OBVIOUS
    <2>1. Moved[u] = IF u.owner = g THEN [u EXCEPT !.owner = a] ELSE u
      OBVIOUS
    <2>2. Moved[u] \in LogRows /\ Moved[u].reveal = u.reveal
          /\ Moved[u].owner = IF u.owner = g THEN a ELSE u.owner
      BY <2>1 DEF LogRows
    <2>3. RevealOf[Moved[u]] = RevealOf[u]
      BY <2>2 DEF RevealOf
    <2> QED BY <2>2, <2>3
  <1>4. log' = Mapped(Moved, log)
    <2>1. DOMAIN log = 1..Len(log) /\ \A i \in DOMAIN log : log[i] \in LogRows
      BY <1>2
    <2> QED BY <1>1, <2>1 DEF Mapped
  <1>5. log \in Seq(Others)
    <2>1. Selected(log, Of(a)) = <<>>
      BY <1>1, <1>2 DEF StoryInv
    <2>2. Range(log) \cap Of(a) = {}
      <3>1. Range(Selected(log, Of(a))) = Range(log) \cap Of(a)
        BY <1>2, SelectedRange
      <3>2. Range(<<>>) = {}
        BY DEF Range
      <3> QED BY <2>1, <3>1, <3>2
    <2>3. Len(log) \in Nat /\ DOMAIN log = 1..Len(log) /\ \A i \in 1..Len(log) : log[i] \in LogRows
      BY <1>2
    <2>4. \A i \in 1..Len(log) : log[i] \in Range(log)
      BY <2>3 DEF Range
    <2>5. \A u \in LogRows : u.owner = a => u \in Of(a)
      BY DEF LogRows
    <2>6. \A i \in 1..Len(log) : log[i] \in Others
      BY <2>2, <2>3, <2>4, <2>5
    <2> HIDE DEF Others
    <2> QED BY <1>2, <2>3, <2>6
  <1>6. Mapped(Moved, log) \in Seq(LogRows)
    <2>1. Mapped(Moved, log) \in Seq(Images(Moved, LogRows))
      <3> HIDE DEF Moved
      <3> QED BY <1>2, MappedTyped
    <2>2. Images(Moved, LogRows) \subseteq LogRows
      <3> HIDE DEF Moved
      <3> QED BY <1>3 DEF Images
    <2> HIDE DEF Moved
    <2> QED BY <2>1, <2>2, SeqMonotonic
  <1>7. ASSUME NEW U, U \subseteq LogRows, log \in Seq(U), NEW S, NEW T, \A u \in U : Moved[u] \in T <=> u \in S
        PROVE  /\ Selected(log', T) = Mapped(Moved, Selected(log, S))
               /\ Mapped(RevealOf, Selected(log', T)) = Mapped(RevealOf, Selected(log, S))
    <2> HIDE DEF Moved
    <2>1. Selected(Mapped(Moved, log), T) = Mapped(Moved, Selected(log, S))
      BY <1>7, SelectedMapped
    <2>2. Selected(log, S) \in Seq(LogRows)
      BY <1>2, SelectedSeq
    <2>3. Mapped(RevealOf, Mapped(Moved, Selected(log, S))) = Mapped(RevealOf, Selected(log, S))
      <3>1. \A u \in LogRows : RevealOf[Moved[u]] = RevealOf[u]
        BY <1>3
      <3> QED BY <2>2, <3>1, MappedTwice
    <2> QED BY <1>4, <2>1, <2>3
  <1>8. ASSUME NEW m \in Monsters
        PROVE  Path(Mapped(RevealOf, OfMonster(m)'), First, mon'[m].species)
    <2> DEFINE T == [owner : Players, reveal : Reveals({m})]
    <2>1. \A u \in LogRows : Moved[u] \in T <=> u \in T
      <3> HIDE DEF Moved
      <3> SUFFICES ASSUME NEW u \in LogRows PROVE Moved[u] \in T <=> u \in T
        OBVIOUS
      <3>1. \A v \in LogRows : v \in T <=> v.reveal \in Reveals({m})
        BY DEF LogRows
      <3> QED BY <1>3, <3>1
    <2>2. Mapped(RevealOf, Selected(log', T)) = Mapped(RevealOf, Selected(log, T))
      <3> HIDE DEF T, Moved
      <3> QED BY <1>2, <1>7, <2>1
    <2>3. mon'[m].species = mon[m].species
      BY <1>1 DEF Row
    <2> QED BY <2>2, <2>3 DEF StoryInv, OfMonster
  <1>9. ASSUME NEW p \in Players
        PROVE  /\ OfOwner(p)' = Mapped(Moved, Selected(log, Source(p)))
               /\ Mapped(RevealOf, OfOwner(p)') = Mapped(RevealOf, Selected(log, Source(p)))
    <2>1. OfOwner(p)' = Selected(log', Of(p))
      BY DEF OfOwner
    <2>2. \A v \in LogRows : \A q : v \in Of(q) <=> v.owner = q
      BY DEF LogRows
    <2>3. \A u \in Others : Moved[u] \in Of(p) <=> u \in Source(p)
      <3> SUFFICES ASSUME NEW u \in Others PROVE Moved[u] \in Of(p) <=> u \in Source(p)
        OBVIOUS
      <3>1. u \in LogRows /\ u.owner # a /\ Moved[u] \in LogRows
            /\ Moved[u].owner = IF u.owner = g THEN a ELSE u.owner
        <4> HIDE DEF Moved
        <4> QED BY <1>3
      <3>2. Moved[u] \in Of(p) <=> Moved[u].owner = p
        <4> HIDE DEF Moved, Of
        <4> QED BY <2>2, <3>1
      <3>3. u \in Source(p) <=> IF p = a THEN u.owner = g ELSE IF p = g THEN FALSE ELSE u.owner = p
        <4> HIDE DEF Of
        <4> QED BY <2>2, <3>1
      <3> HIDE DEF Moved, Of, Source
      <3> QED BY <3>1, <3>2, <3>3
    <2>4. Others \subseteq LogRows
      OBVIOUS
    <2> HIDE DEF Moved, Of, Source, Others
    <2> QED BY <1>5, <1>7, <2>1, <2>3, <2>4
  <1>10. ASSUME NEW p \in Players
         PROVE  /\ acked'[p] <= Len(OfOwner(p)')
                /\ notices'[p] = After(Mapped(RevealOf, OfOwner(p)'), acked'[p])
                /\ p \notin rows' => acked'[p] = 0 /\ OfOwner(p)' = <<>>
    <2> DEFINE own == Selected(log, Source(p))
    <2>1. own \in Seq(LogRows)
      <3> HIDE DEF Source
      <3> QED BY <1>2, SelectedSeq
    <2> HIDE DEF Moved
    <2>2. /\ Mapped(RevealOf, OfOwner(p)') = Mapped(RevealOf, own)
          /\ OfOwner(p)' = Mapped(Moved, own) /\ Len(OfOwner(p)') = Len(own)
          /\ Mapped(Moved, <<>>) = <<>>
      <3>1. OfOwner(p)' = Mapped(Moved, own) /\ Mapped(RevealOf, OfOwner(p)') = Mapped(RevealOf, own)
        BY <1>9
      <3> HIDE DEF own
      <3>2. Len(Mapped(Moved, own)) = Len(own)
        BY <2>1, MappedTyped
      <3>3. Mapped(Moved, <<>>) = <<>>
        BY DEF Mapped
      <3> QED BY <3>1, <3>2, <3>3
    <2>3. CASE p # a /\ p # g
      <3>1. own = OfOwner(p)
        BY <1>2, <2>3
      <3>2. acked'[p] = acked[p] /\ notices'[p] = notices[p] /\ (p \in rows' <=> p \in rows)
        BY <1>1, <2>3 DEF StoryInv
      <3> HIDE DEF own
      <3> QED BY <2>2, <3>1, <3>2 DEF StoryInv
    <2>4. CASE p = a
      <3>1. own = OfOwner(g)
        BY <1>2, <2>4
      <3>2. acked[a] = 0 /\ OfOwner(a) = <<>> /\ notices[a] = After(Mapped(RevealOf, <<>>), 0)
        BY <1>1 DEF StoryInv
      <3>3. acked'[a] = acked[g] /\ acked[g] \in Nat
        BY <1>1, <3>2 DEF StoryInv
      <3>4. CASE g \in rows
        <4>1. notices'[a] = notices[g] /\ a \in rows'
          BY <1>1, <3>4 DEF StoryInv
        <4> HIDE DEF own
        <4> QED BY <2>2, <2>4, <3>1, <3>3, <4>1 DEF StoryInv
      <3>5. CASE g \notin rows
        <4>1. notices'[a] = notices[a] /\ OfOwner(g) = <<>> /\ acked[g] = 0 /\ Len(<<>>) = 0
          BY <1>1, <3>5 DEF StoryInv
        <4> HIDE DEF own
        <4> QED BY <2>2, <2>4, <3>1, <3>2, <3>3, <4>1
      <3> QED BY <3>4, <3>5
    <2>5. CASE p = g
      <3>1. own = <<>>
        <4>1. Source(p) = {}
          BY <2>5
        <4>2. Selected(log, {}) = <<>>
          <5>1. LogRows \cap {} = {}
            OBVIOUS
          <5> QED BY <1>2, <5>1, SelectedOther
        <4> QED BY <4>1, <4>2
      <3>2. Mapped(RevealOf, <<>>) = <<>> /\ After(<<>>, 0) = <<>> /\ Len(<<>>) = 0
        BY DEF Mapped, After
      <3>3. acked'[g] = 0
        BY <1>1 DEF StoryInv
      <3>4. notices'[g] = <<>>
        <4>1. CASE g \in rows
          BY <1>1, <4>1 DEF StoryInv
        <4>2. CASE g \notin rows
          BY <1>1, <3>2, <4>2 DEF StoryInv
        <4> QED BY <4>1, <4>2
      <3> HIDE DEF own
      <3> QED BY <2>2, <2>5, <3>1, <3>2, <3>3, <3>4
    <2> QED BY <2>3, <2>4, <2>5
  <1>11. acked' \in [Players -> Nat] /\ DOMAIN notices' = Players
    BY <1>1 DEF StoryInv
  <1>12. log' \in Seq(LogRows)
    <2> HIDE DEF Moved
    <2> QED BY <1>4, <1>6
  <1> QED BY <1>8, <1>10, <1>11, <1>12 DEF StoryInv

-----------------------------------------------------------------------------
(* What an evolution, and a chain of them, does to a row.                   *)
Kept(r, s) == s = [r EXCEPT !.species = s.species, !.essence = s.essence]
Stages(m, r) ==
  {y \in [mon : Row, told : Seq(Reveals({m}))] :
     Kept(r, y.mon) /\ Path(y.told, r.species, y.mon.species)}

(* What a monster tells leads from what it was to what it becomes.          *)
Tale(m, y) ==
  y.told \in Seq(Reveals({m})) /\ Path(y.told, mon[m].species, y.mon.species)

LEMMA EligibleIsThere ==
  ASSUME NEW r, Cardinality(Eligible(r)) = 1
  PROVE  (CHOOSE e \in Eligible(r) : TRUE) \in Eligible(r)
  <1>1. Eligible(r) # {}
    BY FS_EmptySet
  <1> QED BY <1>1

LEMMA EvolvedStays ==
  ASSUME NEW m, NEW r \in Row, NEW y \in Stages(m, r), NEW e \in Eligible(y.mon)
  PROVE  Evolved(m, y, e) \in Stages(m, r) /\ Evolved(m, y, e).mon.species = e.to
  <1>1. e \in Edges /\ e.to \in Species /\ e.from \in Species
    BY RaisingGraph DEF Eligible
  <1>2. 0 \in 0..MaxCount
    BY RaisingTimes
  <1>3. y.mon \in Row /\ y.told \in Seq(Reveals({m})) /\ Kept(r, y.mon)
        /\ Path(y.told, r.species, y.mon.species)
    BY DEF Stages
  <1>4. Transformed(y.mon, e) \in Row
    BY <1>1, <1>2, <1>3 DEF Transformed, Row
  <1>5. Kept(r, Transformed(y.mon, e)) /\ Transformed(y.mon, e).species = e.to
    BY <1>1, <1>2, <1>3 DEF Transformed, Row, Kept
  <1>6. Reveal(m, y.mon, e) \in Reveals({m})
    BY <1>1 DEF Reveal, Reveals
  <1>7. Append(y.told, Reveal(m, y.mon, e)) \in Seq(Reveals({m}))
    BY <1>3, <1>6
  <1>8. Path(Append(y.told, Reveal(m, y.mon, e)), r.species, e.to)
    <2>1. e.from = y.mon.species /\ Reveal(m, y.mon, e).from = e.from /\ Reveal(m, y.mon, e).to = e.to
      BY DEF Eligible, Reveal
    <2> QED BY <1>1, <1>3, <1>6, <2>1, PathAppend
  <1> QED BY <1>4, <1>5, <1>7, <1>8 DEF Evolved, Stages

LEMMA CheckedOnceStays ==
  ASSUME NEW m, NEW r \in Row, NEW y \in Stages(m, r)
  PROVE  CheckedOnce(m, y) \in Stages(m, r)
  BY EligibleIsThere, EvolvedStays DEF CheckedOnce

LEMMA CheckedKeeps ==
  ASSUME NEW m, NEW r \in Row, NEW y \in Stages(m, r)
  PROVE  Checked(m, y) \in Stages(m, r)
  <1> DEFINE S == [i \in 0..MaxChainSteps |-> Stages(m, r)]
  <1>1. \A z \in Stages(m, r) : CheckedOnce(m, z) \in Stages(m, r)
    BY CheckedOnceStays
  <1>2. y \in S[0] /\ \A i \in 1..MaxChainSteps : \A z \in Stages(m, r) \cap S[i - 1] :
          CheckedOnce(m, z) \in S[i]
    BY <1>1, RaisingTimes
  <1> HIDE DEF S
  <1> QED BY ONLY <1>1, <1>2, y \in Stages(m, r), CheckedStays

(* A chain of evolutions ends before it is cut short: each one climbs a     *)
(* tier, and there are fewer tiers than steps.                              *)
Open(r) == Cardinality(Eligible(r)) = 1

LEMMA CheckedIsThrough ==
  ASSUME NEW m, NEW r \in Row, NEW y \in Stages(m, r)
  PROVE  ~Open(Checked(m, y).mon)
  <1> DEFINE U == Stages(m, r)
             S == [i \in 0..MaxChainSteps |->
                     {z \in U : ~Open(z.mon) \/ i <= Tier[z.mon.species]}]
             N == MaxChainSteps
  <1>1. N \in Nat /\ Tier \in [Species -> 0..(N - 1)]
    BY RaisingTimes, RaisingTiers
  <1>2. \A z \in U : z.mon.species \in Species
    BY DEF Stages, Row
  <1>3. \A z \in U : CheckedOnce(m, z) \in U
    BY CheckedOnceStays
  <1>4. y \in S[0]
    BY <1>1, <1>2
  <1>5. ASSUME NEW i \in 1..N, NEW z \in U \cap S[i - 1]
        PROVE  CheckedOnce(m, z) \in S[i]
    <2>1. CASE ~Open(z.mon)
      BY <1>1, <1>3, <2>1 DEF Open, CheckedOnce
    <2>2. CASE Open(z.mon)
      <3>1. PICK e \in Eligible(z.mon) : CheckedOnce(m, z) = Evolved(m, z, e)
        BY <2>2, EligibleIsThere DEF Open, CheckedOnce
      <3>2. CheckedOnce(m, z).mon.species = e.to
        BY <3>1, EvolvedStays
      <3>3. e \in Edges /\ e.from = z.mon.species /\ Tier[e.to] = Tier[e.from] + 1
        BY RaisingTiers DEF Eligible
      <3>4. i - 1 <= Tier[z.mon.species] /\ Tier[z.mon.species] \in Nat
        BY <1>1, <1>2, <2>2
      <3>5. i <= Tier[CheckedOnce(m, z).mon.species]
        BY <3>2, <3>3, <3>4
      <3> QED BY <1>1, <1>3, <3>5
    <2> QED BY <2>1, <2>2
  <1>6. Checked(m, y) \in U /\ Checked(m, y) \in S[N]
    <2> HIDE DEF S, U
    <2>1. y \in U
      BY DEF U
    <2> QED BY ONLY <1>3, <1>4, <1>5, <2>1, CheckedStays DEF N
  <1> QED BY <1>1, <1>2, <1>6

-----------------------------------------------------------------------------
(* Days and the accrual.                                                    *)
LEMMA DaysTyped ==
  /\ \A t \in 0..MaxNow : DayOf(t) \in Days
  /\ Days \subseteq Nat
  /\ \A s, t \in Nat : s <= t => DayOf(s) <= DayOf(t)
  /\ \A t \in Nat : t >= Day => DayOf(t) > DayOf(0)
  BY RaisingTimes DEF DayOf, Days

LEMMA CreditBounds ==
  ASSUME NEW r \in Row, NEW t \in 0..MaxNow
  PROVE  /\ WindowAt(r, t) \in 0..DailyCap
         /\ Creditable(r, t) \in 0..DailyCap
         /\ WindowAt(r, t) + Creditable(r, t) <= DailyCap
         /\ Creditable(r, t) > 0 => /\ r.anchor < t /\ Creditable(r, t) <= t - r.anchor
                                    /\ t - r.anchor <= IdleGap
  <1>1. r.anchor \in Nat /\ r.window \in 0..DailyCap /\ t \in Nat /\ DailyCap \in Nat
    BY RaisingTimes DEF Row
  <1>2. MinGap \in Nat /\ IdleGap \in Nat
    BY RaisingTimes
  <1>3. WindowAt(r, t) \in 0..DailyCap
    BY <1>1 DEF WindowAt
  <1> QED BY <1>1, <1>2, <1>3 DEF Creditable, Least

LEMMA AccruedTyped ==
  ASSUME NEW r \in Row, NEW t \in 0..MaxNow
  PROVE  /\ Accrued(r, t) \in Row
         /\ Accrued(r, t).owner = r.owner /\ Accrued(r, t).species = r.species
         /\ Accrued(r, t).level = r.level /\ Accrued(r, t).essence = r.essence
         /\ Accrued(r, t).fav = r.fav /\ Accrued(r, t).unfav = r.unfav
  <1> DEFINE credit == Creditable(r, t)
             accum == r.accum + credit
  <1>1. WindowAt(r, t) \in 0..DailyCap /\ WindowAt(r, t) + credit \in 0..DailyCap /\ credit \in Nat
    BY CreditBounds
  <1>2. accum \in Nat /\ TickLen \in Nat \ {0} /\ MaxCount \in Nat /\ r.ticks \in 0..MaxCount
    BY <1>1, RaisingTimes DEF Row
  <1>3. accum % TickLen \in 0..(TickLen - 1) /\ accum \div TickLen \in Nat
    BY <1>2
  <1>4. Up(r.ticks, accum \div TickLen) \in 0..MaxCount
    BY <1>2, <1>3 DEF Up, Least
  <1> DEFINE a == accum % TickLen
             u == Up(r.ticks, accum \div TickLen)
             w == WindowAt(r, t)
  <1>5. Accrued(r, t) = IF t < r.anchor THEN [r EXCEPT !.anchor = t]
     ELSE IF t - r.anchor > IdleGap
     THEN [r EXCEPT !.anchor = t, !.window = w]
     ELSE IF credit = 0 THEN r
     ELSE [r EXCEPT !.anchor = t, !.window = w + credit, !.ticks = u, !.accum = a]
    BY DEF Accrued
  <1>6. t \in 0..MaxNow /\ w \in 0..DailyCap /\ w + credit \in 0..DailyCap /\ u \in 0..MaxCount
        /\ a \in 0..(TickLen - 1)
    BY <1>1, <1>3, <1>4
  <1> HIDE DEF a, u, w, credit, accum
  <1> QED BY <1>5, <1>6, ZenonT(40) DEF Row

(* The accrual looks at nothing but its own fields.                         *)
QT(r) == <<r.anchor, r.window, r.accum, r.ticks>>

LEMMA AccruedQT ==
  ASSUME NEW r \in Row, NEW s \in Row, QT(r) = QT(s), NEW t \in 0..MaxNow
  PROVE  QT(Accrued(r, t)) = QT(Accrued(s, t)) /\ Creditable(r, t) = Creditable(s, t)
  <1>1. r.anchor = s.anchor /\ r.window = s.window /\ r.accum = s.accum /\ r.ticks = s.ticks
    BY DEF QT
  <1>2. Creditable(r, t) = Creditable(s, t) /\ WindowAt(r, t) = WindowAt(s, t)
    BY <1>1 DEF Creditable, WindowAt
  <1> QED BY <1>1, <1>2 DEF Accrued, QT, Row

LEMMA Division ==
  ASSUME NEW a \in Nat, NEW T \in Nat \ {0}
  PROVE  a \div T \in Nat /\ a % T \in 0..(T - 1) /\ a = (a \div T) * T + (a % T)
  OBVIOUS

LEMMA Multiplied ==
  ASSUME NEW T \in Nat \ {0}, NEW t \in Nat, NEW k \in Nat, NEW u \in Nat, u <= t + k
  PROVE  u * T <= t * T + k * T
  <1>1. u * T <= (t + k) * T
    OBVIOUS
  <1>2. (t + k) * T = t * T + k * T
    OBVIOUS
  <1> QED BY <1>1, <1>2

(* What an accrual makes of the clock, the window and the time on record.   *)
LEMMA AccruedMoves ==
  ASSUME NEW r \in Row, NEW t \in 0..MaxNow
  PROVE  LET s == Accrued(r, t)
             credit == Creditable(r, t)
         IN \/ s.anchor = t /\ t < r.anchor /\ s.window = r.window
                 /\ OnRecord(s) = OnRecord(r) /\ credit = 0
            \/ s.anchor = t /\ r.anchor + IdleGap < t /\ s.window = WindowAt(r, t)
                 /\ OnRecord(s) = OnRecord(r) /\ credit = 0
            \/ QT(s) = QT(r) /\ credit = 0
            \/ /\ s.anchor = t /\ r.anchor < t /\ t - r.anchor <= IdleGap /\ credit > 0
               /\ credit <= t - r.anchor
               /\ s.window = WindowAt(r, t) + credit
               /\ OnRecord(s) <= OnRecord(r) + credit
  <1> DEFINE credit == Creditable(r, t)
             accum == r.accum + credit
             k == accum \div TickLen
  <1>1. credit \in Nat /\ (credit > 0 => /\ r.anchor < t /\ credit <= t - r.anchor
                                         /\ t - r.anchor <= IdleGap)
    BY CreditBounds DEF Row
  <1>2. accum \in Nat /\ TickLen \in Nat \ {0} /\ MaxCount \in Nat /\ r.ticks \in 0..MaxCount
        /\ r.accum \in Nat /\ IdleGap \in Nat /\ r.anchor \in Nat /\ t \in Nat
    BY <1>1, RaisingTimes DEF Row
  <1> DEFINE later == Up(r.ticks, k)
             rest == accum % TickLen
  <1>3. k \in Nat /\ rest \in Nat /\ accum = k * TickLen + rest
    <2> HIDE DEF accum
    <2>1. accum \div TickLen \in Nat /\ accum % TickLen \in 0..(TickLen - 1)
          /\ accum = (accum \div TickLen) * TickLen + (accum % TickLen)
      BY <1>2, Division
    <2> QED BY <1>2, <2>1
  <1>4. later \in Nat /\ later <= r.ticks + k
    BY <1>2, <1>3 DEF Up, Least
  <1>5. later * TickLen <= r.ticks * TickLen + k * TickLen
    <2> HIDE DEF later, k
    <2> QED BY <1>2, <1>3, <1>4, Multiplied
  <1>6. later * TickLen + rest <= r.ticks * TickLen + r.accum + credit
    <2>1. later * TickLen \in Nat /\ r.ticks * TickLen \in Nat /\ k * TickLen \in Nat
      BY <1>2, <1>3, <1>4
    <2> HIDE DEF later, k, rest
    <2> QED BY <1>1, <1>2, <1>3, <1>5, <2>1
  <1>7. CASE t < r.anchor
    BY <1>1, <1>2, <1>7 DEF Accrued, Row, OnRecord
  <1>8. CASE t >= r.anchor /\ t - r.anchor > IdleGap
    BY <1>1, <1>2, <1>8 DEF Accrued, Row, OnRecord
  <1>9. CASE t >= r.anchor /\ t - r.anchor <= IdleGap /\ credit = 0
    BY <1>1, <1>2, <1>9 DEF Accrued, QT
  <1>10. CASE t >= r.anchor /\ t - r.anchor <= IdleGap /\ credit # 0
    <2> DEFINE s == Accrued(r, t)
    <2>1. s = [r EXCEPT !.anchor = t, !.window = WindowAt(r, t) + credit,
                        !.ticks = later, !.accum = rest]
      BY <1>2, <1>10 DEF Accrued, Row
    <2>2. s.anchor = t /\ s.window = WindowAt(r, t) + credit /\ s.ticks = later
          /\ s.accum = rest
      BY <2>1 DEF Row
    <2>3. OnRecord(s) <= OnRecord(r) + credit
      <3> HIDE DEF s, later, rest, credit
      <3> QED BY <2>2, <1>6 DEF OnRecord
    <2> QED BY <1>1, <1>10, <2>2, <2>3 DEF credit, s
  <1> QED BY <1>2, <1>7, <1>8, <1>9, <1>10

-----------------------------------------------------------------------------
(* One accrual keeps what is said of a monster's credit.                    *)
LEMMA Caps ==
  ASSUME TypeOK
  PROVE  /\ DailyCap \in Nat /\ DailyCap * rewinds \in Nat
         /\ DailyCap * (1 + rewinds) = DailyCap * rewinds + DailyCap
         /\ rewinds = 0 => DailyCap * rewinds = 0
  <1>1. DailyCap \in Nat /\ rewinds \in Nat
    BY RaisingTimes DEF TypeOK
  <1> QED BY <1>1

LEMMA RowTyped ==
  ASSUME TypeOK, NEW m \in Monsters
  PROVE  /\ mon[m] \in Row /\ now \in Day..MaxNow /\ now \in 0..MaxNow /\ now \in Nat
         /\ mon[m].anchor \in 0..MaxNow /\ mon[m].anchor \in Nat
         /\ mon[m].window \in 0..DailyCap
         /\ DayOf(now) \in Days /\ DayOf(mon[m].anchor) \in Days
  <1>1. mon[m] \in Row /\ now \in Day..MaxNow
    BY DEF TypeOK, Row
  <1>2. now \in 0..MaxNow /\ now \in Nat
    BY <1>1, RaisingTimes
  <1>3. mon[m].anchor \in 0..MaxNow /\ mon[m].anchor \in Nat /\ mon[m].window \in 0..DailyCap
    BY <1>1, RaisingTimes DEF Row
  <1> QED BY <1>1, <1>2, <1>3, DaysTyped

LEMMA AccrualKeepsCredit ==
  ASSUME TypeOK, HistoryTypes, NEW m \in Monsters, CreditOf(m), rewinds = 0 => TimeOf(m),
         QT(mon'[m]) = QT(Accrued(mon[m], now)),
         given'[m] = [given[m] EXCEPT ![DayOf(now)] = @ + Granted(mon[m])],
         since'[m] = since[m], UNCHANGED <<now, rewinds>>
  PROVE  CreditOf(m)' /\ (rewinds = 0 => TimeOf(m))'
  <1> DEFINE r == mon[m]
             s == Accrued(r, now)
             credit == Creditable(r, now)
             g == given[m]
             today == DayOf(now)
             then == DayOf(r.anchor)
             R == DailyCap * rewinds
  <1>1. r \in Row /\ now \in 0..MaxNow /\ now \in Nat /\ now >= Day
        /\ r.anchor \in Nat /\ r.window \in 0..DailyCap /\ today \in Days /\ then \in Days
    BY RowTyped, RaisingTimes
  <1>2. credit \in 0..DailyCap /\ WindowAt(r, now) \in 0..DailyCap
        /\ WindowAt(r, now) + credit <= DailyCap
    BY <1>1, CreditBounds
  <1>3. WindowAt(r, now) = IF today # then THEN 0 ELSE r.window
    BY DEF WindowAt
  <1>4. R \in Nat /\ DailyCap \in Nat /\ DailyCap * (1 + rewinds) = R + DailyCap
        /\ (rewinds = 0 => R = 0)
    BY Caps
  <1>5. g \in [Days -> Nat] /\ Days \subseteq Nat
    BY DaysTyped DEF HistoryTypes
  <1>6. given'[m] = [d \in Days |-> IF d = today THEN g[d] + credit ELSE g[d]]
    BY <1>5, <1>1 DEF Granted
  <1>7. mon'[m].anchor = s.anchor /\ mon'[m].window = s.window
        /\ OnRecord(mon'[m]) = OnRecord(s)
    BY DEF QT, OnRecord
  <1>8. \A d \in Days : g[d] <= R + DailyCap
    BY <1>4 DEF CreditOf
  <1>9. \A d \in Days : now < r.anchor \/ then < d => g[d] <= R
    BY DEF CreditOf
  <1>10. r.anchor <= now => g[then] <= R + r.window
    BY DEF CreditOf
  <1>11. r.anchor <= now => then <= today
    BY <1>1, DaysTyped
  <1>12. OnRecord(r) \in Nat /\ IdleGap \in Nat /\ Day \in Nat /\ IdleGap < Day
    <2>1. r.ticks \in Nat /\ r.accum \in Nat /\ TickLen \in Nat
      BY <1>1, RaisingTimes DEF Row
    <2> QED BY <2>1, RaisingTimes DEF OnRecord
  <1>13. \/ s.anchor = now /\ now < r.anchor /\ s.window = r.window
              /\ OnRecord(s) = OnRecord(r) /\ credit = 0
         \/ s.anchor = now /\ r.anchor + IdleGap < now /\ s.window = WindowAt(r, now)
              /\ OnRecord(s) = OnRecord(r) /\ credit = 0
         \/ QT(s) = QT(r) /\ credit = 0
         \/ /\ s.anchor = now /\ r.anchor < now /\ now - r.anchor <= IdleGap /\ credit > 0
            /\ credit <= now - r.anchor
            /\ s.window = WindowAt(r, now) + credit
            /\ OnRecord(s) <= OnRecord(r) + credit
    BY <1>1, AccruedMoves
  <1>14. rewinds = 0 =>
           /\ r.anchor <= now /\ since[m] <= now /\ since[m] \in Nat
           /\ r.window = g[then]
           /\ \/ since[m] <= r.anchor /\ OnRecord(r) <= r.anchor - since[m]
              \/ r.anchor = 0 /\ OnRecord(r) = 0
    BY RaisingTimes DEF TimeOf, HistoryTypes
  <1>15. OnRecord(s) \in Nat
    <2>1. s \in Row
      BY <1>1, AccruedTyped
    <2>2. s.ticks \in Nat /\ s.accum \in Nat /\ TickLen \in Nat
      BY <2>1, RaisingTimes DEF Row
    <2> QED BY <2>2 DEF OnRecord
  <1>16. r.anchor <= now => /\ g[today] <= R + WindowAt(r, now)
                           /\ \A d \in Days : today < d => g[d] <= R
    <2> HIDE DEF R, g, today, then
    <2>1. then \in Nat /\ today \in Nat /\ \A d \in Days : g[d] \in Nat /\ d \in Nat
      BY <1>1, <1>5
    <2>2. r.anchor <= now /\ then < today => g[today] <= R
      BY <1>1, <1>9
    <2>3. r.anchor <= now => then = today \/ then < today
      BY <1>11, <2>1
    <2>4. r.anchor <= now => \A d \in Days : today < d => g[d] <= R
      BY <1>9, <1>11, <2>1
    <2> QED BY <1>2, <1>3, <1>4, <1>10, <2>1, <2>2, <2>3, <2>4
  <1> DEFINE A == mon'[m].anchor
             W == mon'[m].window
             G == given'[m]
             O == OnRecord(mon'[m])
  <1>17. /\ \A d \in Days : G[d] <= R + DailyCap
         /\ \A d \in Days : now < A \/ DayOf(A) < d => G[d] <= R
         /\ A <= now => G[DayOf(A)] <= R + W
    <2> HIDE DEF s, credit, R, g
    <2>1. CASE QT(s) = QT(r) /\ credit = 0
      <3>1. A = r.anchor /\ W = r.window
        BY <1>7, <2>1 DEF QT
      <3>2. \A d \in Days : G[d] = g[d]
        BY <1>5, <1>6, <2>1
      <3> QED BY <1>1, <1>8, <1>9, <1>10, <3>1, <3>2
    <2>2. CASE s.anchor = now /\ credit = 0
               /\ \/ now < r.anchor /\ s.window = r.window
                  \/ r.anchor < now /\ s.window = WindowAt(r, now)
      <3>1. A = now /\ DayOf(A) = today
        BY <1>7, <2>2
      <3>2. \A d \in Days : G[d] = g[d]
        BY <1>5, <1>6, <2>2
      <3>3. W = s.window
        BY <1>7
      <3>4. G[today] <= R + W
        <4> HIDE DEF A, G, W, today, then
        <4> QED BY <1>1, <1>2, <1>4, <1>5, <1>9, <1>16, <2>2, <3>2, <3>3
      <3> HIDE DEF A, G, W, today, then
      <3> QED BY <1>1, <1>8, <1>9, <1>16, <2>2, <3>1, <3>2, <3>4
    <2>3. CASE s.anchor = now /\ r.anchor < now /\ s.window = WindowAt(r, now) + credit
      <3>1. A = now /\ DayOf(A) = today
        BY <1>7, <2>3
      <3>2. \A d \in Days : G[d] = IF d = today THEN g[d] + credit ELSE g[d]
        BY <1>5, <1>6
      <3>3. W = s.window
        BY <1>7
      <3>4. G[today] <= R + W /\ G[today] <= R + DailyCap
        <4> HIDE DEF A, G, W, today, then
        <4> QED BY <1>1, <1>2, <1>4, <1>5, <1>16, <2>3, <3>2, <3>3
      <3>5. \A d \in Days : today < d => G[d] <= R
        <4>1. \A d \in Days : today < d => d # today
          BY <1>1, <1>5
        <4> HIDE DEF A, G, W, today, then
        <4> QED BY <1>1, <1>16, <2>3, <3>2, <4>1
      <3> HIDE DEF A, G, W, today, then
      <3> QED BY <1>1, <1>8, <2>3, <3>1, <3>2, <3>4, <3>5
    <2>4. CASE s.anchor = now /\ r.anchor + IdleGap < now /\ s.window = WindowAt(r, now)
                 /\ OnRecord(s) = OnRecord(r) /\ credit = 0
      <3>1. r.anchor < now
        BY <1>1, <1>12, <2>4
      <3> QED BY <2>2, <2>4, <3>1
    <2> QED BY <1>13, <2>1, <2>2, <2>3, <2>4
  <1>18. ASSUME rewinds = 0
         PROVE  /\ A <= now /\ since[m] <= now /\ W = G[DayOf(A)]
                /\ \/ since[m] <= A /\ O <= A - since[m]
                   \/ A = 0 /\ O = 0
    <2> HIDE DEF s, credit, R, g
    <2>1. CASE QT(s) = QT(r) /\ credit = 0
      <3>1. A = r.anchor /\ W = r.window /\ O = OnRecord(r)
        BY <1>7, <2>1 DEF QT, OnRecord
      <3>2. \A d \in Days : G[d] = g[d]
        BY <1>5, <1>6, <2>1
      <3> QED BY <1>1, <1>14, <1>18, <3>1, <3>2
    <2>2. CASE s.anchor = now /\ r.anchor < now /\ s.window = WindowAt(r, now) + credit
               /\ OnRecord(s) <= OnRecord(r) + credit
               /\ (credit = 0 \/ (credit <= now - r.anchor /\ now - r.anchor <= IdleGap))
      <3>1. A = now /\ DayOf(A) = today /\ O = OnRecord(s)
        BY <1>7, <2>2
      <3>2. \A d \in Days : G[d] = IF d = today THEN g[d] + credit ELSE g[d]
        BY <1>5, <1>6
      <3>3. W = s.window
        BY <1>7
      <3>4. r.anchor # 0 \/ credit = 0
        BY <1>1, <1>12, <2>2
      <3>5. W = G[today]
        <4> HIDE DEF A, G, W, today, then
        <4> QED BY <1>1, <1>2, <1>3, <1>4, <1>5, <1>9, <1>11, <1>14, <1>18, <2>2, <3>2, <3>3
      <3>6. since[m] <= now /\ O <= now - since[m]
        <4> HIDE DEF A, G, W, O, today, then
        <4> QED BY <1>1, <1>2, <1>12, <1>14, <1>15, <1>18, <2>2, <3>1, <3>4
      <3> QED BY <1>1, <3>1, <3>5, <3>6
    <2>3. r.anchor <= now
      BY <1>14, <1>18
    <2>4. CASE s.anchor = now /\ r.anchor + IdleGap < now /\ s.window = WindowAt(r, now)
                 /\ OnRecord(s) = OnRecord(r) /\ credit = 0
      <3>1. r.anchor < now
        BY <1>1, <1>12, <2>4
      <3>2. s.window = WindowAt(r, now) + credit
        BY <1>2, <2>4
      <3>3. OnRecord(s) <= OnRecord(r) + credit
        BY <1>12, <1>15, <2>4
      <3>4. s.anchor = now /\ r.anchor < now /\ s.window = WindowAt(r, now) + credit
               /\ OnRecord(s) <= OnRecord(r) + credit
               /\ (credit = 0 \/ (credit <= now - r.anchor /\ now - r.anchor <= IdleGap))
        BY <2>4, <3>1, <3>2, <3>3
      <3> QED BY <2>2, <3>4
    <2>5. CASE /\ s.anchor = now /\ r.anchor < now /\ now - r.anchor <= IdleGap /\ credit > 0
               /\ credit <= now - r.anchor
               /\ s.window = WindowAt(r, now) + credit
               /\ OnRecord(s) <= OnRecord(r) + credit
      BY <2>2, <2>5
    <2> QED BY <1>1, <1>13, <2>1, <2>3, <2>4, <2>5
  <1> QED BY <1>4, <1>17, <1>18 DEF CreditOf, TimeOf

LEMMA OthersKeepCredit ==
  ASSUME TypeOK, NEW m \in Monsters, CreditOf(m), rewinds = 0 => TimeOf(m),
         QT(mon'[m]) = QT(mon[m]), given'[m] = given[m], since'[m] = since[m],
         UNCHANGED <<now, rewinds>>
  PROVE  CreditOf(m)' /\ (rewinds = 0 => TimeOf(m))'
  BY DEF QT, OnRecord, CreditOf, TimeOf

-----------------------------------------------------------------------------
(* Reducers that end in Store.                                              *)
LEMMA StoreFacts ==
  ASSUME NEW M, NEW x, NEW credited, Store(M, x, credited)
  PROVE  /\ mon' = [m \in Monsters |-> IF m \in M THEN x[m].mon ELSE mon[m]]
         /\ given' = [m \in Monsters |->
              IF m \in credited
              THEN [given[m] EXCEPT ![DayOf(now)] = @ + Granted(mon[m])] ELSE given[m]]
  BY DEF Store

LEMMA StoreQueues ==
  ASSUME NEW M, NEW x, NEW credited, Store(M, x, credited), rows \subseteq Players,
         \A p \in Players : notices[p] # <<>> => p \in rows
  PROVE  /\ DOMAIN notices' = Players /\ rows' \subseteq Players
         /\ \A p \in Players : notices'[p] # <<>> => p \in rows'
  <1>1. PICK order \in SetToSeqs(M) :
          LET told  == FlattenSeq([i \in DOMAIN order |-> x[order[i]].told])
              By(p) == Selected(told, Reveals(Owned(p)))
          IN /\ notices' = [p \in Players |-> notices[p] \o By(p)]
             /\ rows' = rows \cup {p \in Players : By(p) # <<>>}
    BY DEF Store
  <1> DEFINE told  == FlattenSeq([i \in DOMAIN order |-> x[order[i]].told])
             By(p) == Selected(told, Reveals(Owned(p)))
  <1>2. /\ notices' = [p \in Players |-> notices[p] \o By(p)]
        /\ rows' = rows \cup {p \in Players : By(p) # <<>>}
    BY <1>1
  <1> HIDE DEF By
  <1>3. \A p \in Players : By(p) = <<>> /\ notices[p] = <<>> => notices[p] \o By(p) = <<>>
    OBVIOUS
  <1> QED BY <1>2, <1>3

LEMMA StagesRows ==
  ASSUME NEW m, NEW r \in Row, NEW y \in Stages(m, r)
  PROVE  y.mon \in Row /\ y.mon.owner = r.owner /\ QT(y.mon) = QT(r)
  <1>1. y.mon \in Row /\ y.mon = [r EXCEPT !.species = y.mon.species, !.essence = y.mon.essence]
    BY DEF Stages, Kept
  <1>2. y.mon.owner = r.owner /\ y.mon.anchor = r.anchor /\ y.mon.window = r.window
        /\ y.mon.accum = r.accum /\ y.mon.ticks = r.ticks
    BY <1>1 DEF Row
  <1> QED BY <1>1, <1>2 DEF QT

LEMMA StagesFacts ==
  ASSUME NEW m, NEW r \in Row
  PROVE  /\ Told(r) \in Stages(m, r) /\ Told(r).mon = r
         /\ \A y \in Stages(m, r) :
              y.mon \in Row /\ y.mon.owner = r.owner /\ QT(y.mon) = QT(r)
  <1>1. Kept(r, r) /\ <<>> \in Seq(Reveals({m}))
    <2>1. <<>> \in Seq(Reveals({m}))
      OBVIOUS
    <2> QED BY <2>1 DEF Kept, Row
  <1>2. Told(r) \in Stages(m, r) /\ Told(r).mon = r
    BY <1>1, PathEmpty DEF Told, Stages
  <1> QED BY <1>2, StagesRows

LEMMA StagesTell ==
  ASSUME NEW m, NEW r \in Row, NEW y \in Stages(m, r), r.species = mon[m].species
  PROVE  Tale(m, y)
  BY DEF Tale, Stages

LEMMA StoreStep ==
  ASSUME Inv, NEW M \in SUBSET Monsters, NEW x, NEW credited \in SUBSET M, Store(M, x, credited),
         UNCHANGED <<now, offers, since, rewinds, events, acked>>,
         battle' \in [Players -> SUBSET Monsters], \A p \in Players : battle'[p] \subseteq battle[p],
         \A m \in M : /\ x[m].mon \in Row /\ x[m].mon.owner = mon[m].owner /\ Tale(m, x[m])
                      /\ QT(x[m].mon) = IF m \in credited THEN QT(Accrued(mon[m], now))
                                        ELSE QT(mon[m])
  PROVE  Inv'
  <1>1. mon' = [m \in Monsters |-> IF m \in M THEN x[m].mon ELSE mon[m]]
        /\ given' = [m \in Monsters |->
              IF m \in credited
              THEN [given[m] EXCEPT ![DayOf(now)] = @ + Granted(mon[m])] ELSE given[m]]
    BY StoreFacts
  <1>2. mon \in [Monsters -> Row] /\ given \in [Monsters -> [Days -> Nat]]
    BY DEF Inv, TypeOK, HistoryTypes, Row
  <1>3. mon' \in [Monsters -> Row] /\ \A m \in Monsters : mon'[m].owner = mon[m].owner
    BY <1>1, <1>2
  <1>4. TypeOK'
    <2>1. rows' \subseteq Players /\ \A p \in Players : notices'[p] # <<>> => p \in rows'
      BY StoreQueues DEF Inv, TypeOK
    <2> QED BY <1>3, <2>1 DEF Inv, TypeOK, Row
  <1>5. HistoryTypes'
    <2>1. ASSUME NEW m \in credited
          PROVE  [given[m] EXCEPT ![DayOf(now)] = @ + Granted(mon[m])] \in [Days -> Nat]
      <3>1. mon[m] \in Row /\ now \in 0..MaxNow /\ DayOf(now) \in Days
        BY RowTyped DEF Inv
      <3>2. Granted(mon[m]) \in Nat
        BY <3>1, CreditBounds, RaisingTimes DEF Granted
      <3> QED BY <1>2, <3>1, <3>2
    <2>2. given' \in [Monsters -> [Days -> Nat]]
      BY <1>1, <1>2, <2>1
    <2>3. DOMAIN notices' = Players
      BY StoreQueues DEF Inv, TypeOK
    <2> QED BY <2>2, <2>3 DEF Inv, HistoryTypes
  <1>6. CreditInv'
    <2>1. SUFFICES ASSUME NEW m \in Monsters
                   PROVE  CreditOf(m)' /\ (rewinds = 0 => TimeOf(m))'
      BY DEF CreditInv
    <2>2. TypeOK /\ HistoryTypes /\ CreditOf(m) /\ (rewinds = 0 => TimeOf(m))
      BY DEF Inv, CreditInv
    <2>3. CASE m \in credited
      <3>1. QT(mon'[m]) = QT(Accrued(mon[m], now))
        BY <1>1, <2>3
      <3>2. given'[m] = [given[m] EXCEPT ![DayOf(now)] = @ + Granted(mon[m])]
        BY <1>1, <2>3
      <3> QED BY <2>2, <3>1, <3>2, AccrualKeepsCredit
    <2>4. CASE m \notin credited
      <3>1. QT(mon'[m]) = QT(mon[m]) /\ given'[m] = given[m]
        BY <1>1, <2>4
      <3> QED BY <2>2, <3>1, OthersKeepCredit
    <2> QED BY <2>3, <2>4
  <1>7. LocksInv'
    <2>1. \A m \in Monsters : Escrowed(m)' = Escrowed(m)
      BY <1>3 DEF Escrowed
    <2>2. battle \in [Players -> SUBSET Monsters]
      BY DEF Inv, TypeOK
    <2> QED BY <1>3, <2>1, <2>2 DEF Inv, LocksInv
  <1>8. StoryInv'
    BY <1>2, StoreStory DEF Inv, Tale
  <1> QED BY <1>4, <1>5, <1>6, <1>7, <1>8 DEF Inv

(* The rows that care and training make, and a walk.                        *)
LEMMA TailsKeep ==
  ASSUME TypeOK, NEW m \in Monsters, NEW r \in Row, r.owner = mon[m].owner,
         r.species = mon[m].species, QT(r) = QT(mon[m])
  PROVE  LET y == Tails(m, r)
         IN /\ y.mon \in Row /\ y.mon.owner = mon[m].owner /\ Tale(m, y)
            /\ QT(y.mon) = QT(Accrued(mon[m], now)) /\ ~Open(y.mon)
  <1> DEFINE s == Accrued(r, now)
  <1>1. mon[m] \in Row /\ now \in 0..MaxNow
    BY RowTyped
  <1>2. s \in Row /\ s.owner = r.owner /\ s.species = r.species /\ QT(s) = QT(Accrued(mon[m], now))
    BY <1>1, AccruedTyped, AccruedQT
  <1> HIDE DEF s
  <1>3. Told(s) \in Stages(m, s)
    BY <1>2, StagesFacts
  <1>4. Checked(m, Told(s)) \in Stages(m, s) /\ ~Open(Checked(m, Told(s)).mon)
    BY <1>2, <1>3, CheckedKeeps, CheckedIsThrough
  <1>5. Tails(m, r) = Checked(m, Told(s))
    BY DEF Tails, s
  <1>6. Tale(m, Checked(m, Told(s)))
    BY <1>2, <1>4, StagesTell
  <1>7. LET y == Checked(m, Told(s))
        IN y.mon \in Row /\ y.mon.owner = s.owner /\ QT(y.mon) = QT(s)
    BY <1>2, <1>4, StagesFacts
  <1> QED BY <1>2, <1>4, <1>5, <1>6, <1>7 DEF Tale

LEMMA WalkedKeeps ==
  ASSUME TypeOK, NEW m \in Monsters
  PROVE  LET y == Walked(m)
         IN /\ y.mon \in Row /\ y.mon.owner = mon[m].owner /\ Tale(m, y)
            /\ QT(y.mon) = QT(Accrued(mon[m], now))
            /\ \/ ~Open(y.mon)
               \/ y.mon = Accrued(mon[m], now) /\ y.mon.ticks = mon[m].ticks
  <1> DEFINE s == Accrued(mon[m], now)
  <1>1. mon[m] \in Row /\ now \in 0..MaxNow
    BY RowTyped
  <1>2. s \in Row /\ s.owner = mon[m].owner /\ s.species = mon[m].species
    BY <1>1, AccruedTyped
  <1> HIDE DEF s
  <1>3. Told(s) \in Stages(m, s) /\ Told(s).mon = s
    BY <1>2, StagesFacts
  <1>4. Checked(m, Told(s)) \in Stages(m, s) /\ ~Open(Checked(m, Told(s)).mon)
    BY <1>2, <1>3, CheckedKeeps, CheckedIsThrough
  <1>5. Walked(m) = IF s.ticks # mon[m].ticks THEN Checked(m, Told(s)) ELSE Told(s)
    BY DEF Walked, s
  <1>6. CASE s.ticks # mon[m].ticks
    <2>1. Tale(m, Checked(m, Told(s)))
      BY <1>2, <1>4, StagesTell
    <2>2. LET y == Checked(m, Told(s))
          IN y.mon \in Row /\ y.mon.owner = s.owner /\ QT(y.mon) = QT(s)
      BY <1>2, <1>4, StagesFacts
    <2> QED BY <1>2, <1>4, <1>5, <1>6, <2>1, <2>2 DEF s, Tale
  <1>7. CASE s.ticks = mon[m].ticks
    <2>1. Tale(m, Told(s))
      BY <1>2, <1>3, StagesTell
    <2> QED BY <1>2, <1>3, <1>5, <1>7, <2>1 DEF s, Tale
  <1> QED BY <1>6, <1>7

LEMMA UpTyped == \A n \in 0..MaxCount, k \in Nat : Up(n, k) \in 0..MaxCount /\ n <= Up(n, k)
  BY RaisingTimes DEF Up, Least

-----------------------------------------------------------------------------
(* Each reducer keeps the invariant.                                        *)
LEMMA CareStep ==
  ASSUME Inv, NEW m \in Monsters, Care(m)
  PROVE  Inv'
  <1> DEFINE r == [mon[m] EXCEPT !.fav = Up(@, 1)]
             x == [i \in {m} |-> Tails(m, r)]
  <1>1. mon[m] \in Row /\ TypeOK
    BY RowTyped DEF Inv
  <1>2. r \in Row /\ r.owner = mon[m].owner /\ r.species = mon[m].species /\ QT(r) = QT(mon[m])
    <2>1. Up(mon[m].fav, 1) \in 0..MaxCount
      BY <1>1, UpTyped DEF Row
    <2> QED BY <1>1, <2>1 DEF Row, QT
  <1>3. Store({m}, x, {m})
    BY DEF Care
  <1>4. x[m].mon \in Row /\ x[m].mon.owner = mon[m].owner /\ Tale(m, x[m])
        /\ QT(x[m].mon) = QT(Accrued(mon[m], now))
    BY <1>1, <1>2, TailsKeep
  <1>5. /\ UNCHANGED <<now, offers, since, rewinds, events, acked>>
        /\ battle' \in [Players -> SUBSET Monsters] /\ \A p \in Players : battle'[p] \subseteq battle[p]
    BY <1>1 DEF Care, bounds, TypeOK
  <1> HIDE DEF x
  <1> QED BY <1>3, <1>4, <1>5, StoreStep

LEMMA EssenceTrainStep ==
  ASSUME Inv, NEW m \in Monsters, EssenceTrain(m)
  PROVE  Inv'
  <1> DEFINE r == [mon[m] EXCEPT !.essence = Up(@, 1)]
             x == [i \in {m} |-> Tails(m, r)]
  <1>1. mon[m] \in Row /\ TypeOK
    BY RowTyped DEF Inv
  <1>2. r \in Row /\ r.owner = mon[m].owner /\ r.species = mon[m].species /\ QT(r) = QT(mon[m])
    <2>1. Up(mon[m].essence, 1) \in 0..MaxCount
      BY <1>1, UpTyped DEF Row
    <2> QED BY <1>1, <2>1 DEF Row, QT
  <1>3. Store({m}, x, {m})
    BY DEF EssenceTrain
  <1>4. x[m].mon \in Row /\ x[m].mon.owner = mon[m].owner /\ Tale(m, x[m])
        /\ QT(x[m].mon) = QT(Accrued(mon[m], now))
    BY <1>1, <1>2, TailsKeep
  <1>5. /\ UNCHANGED <<now, offers, since, rewinds, events, acked>>
        /\ battle' \in [Players -> SUBSET Monsters] /\ \A p \in Players : battle'[p] \subseteq battle[p]
    BY <1>1 DEF EssenceTrain, bounds, TypeOK
  <1> HIDE DEF x
  <1> QED BY <1>3, <1>4, <1>5, StoreStep

LEMMA WalkStep ==
  ASSUME Inv, NEW p \in Players, Walk(p)
  PROVE  Inv'
  <1> DEFINE x == [m \in Walkers(p) |-> Walked(m)]
  <1>1. Walkers(p) \in SUBSET Monsters /\ TypeOK
    BY DEF Walkers, Party, Owned, Inv
  <1>2. Store(Walkers(p), x, Walkers(p))
    BY DEF Walk
  <1>3. \A m \in Walkers(p) : x[m].mon \in Row /\ x[m].mon.owner = mon[m].owner /\ Tale(m, x[m])
                              /\ QT(x[m].mon) = QT(Accrued(mon[m], now))
    BY <1>1, WalkedKeeps
  <1>4. /\ UNCHANGED <<now, offers, since, rewinds, events, acked>>
        /\ battle' \in [Players -> SUBSET Monsters] /\ \A q \in Players : battle'[q] \subseteq battle[q]
    BY <1>1 DEF Walk, bounds, TypeOK
  <1> HIDE DEF x
  <1> QED BY <1>1, <1>2, <1>3, <1>4, StoreStep

(* The row after the player's own choice, and the cascade after it.         *)
LEMMA EvolvedKeeps ==
  ASSUME TypeOK, NEW m \in Monsters, NEW e \in Eligible(mon[m])
  PROVE  LET y == Checked(m, Evolved(m, Told(mon[m]), e))
         IN /\ y.mon \in Row /\ y.mon.owner = mon[m].owner /\ QT(y.mon) = QT(mon[m])
            /\ ~Open(y.mon) /\ Tale(m, y)
  <1> DEFINE r == mon[m]
  <1>1. r \in Row
    BY RowTyped
  <1>2. Told(r) \in Stages(m, r) /\ Told(r).mon = r
    BY <1>1, StagesFacts
  <1>3. Evolved(m, Told(r), e) \in Stages(m, r)
    BY <1>1, <1>2, EvolvedStays
  <1> HIDE DEF r
  <1>4. Checked(m, Evolved(m, Told(r), e)) \in Stages(m, r)
        /\ ~Open(Checked(m, Evolved(m, Told(r), e)).mon)
    BY <1>1, <1>3, CheckedKeeps, CheckedIsThrough
  <1>5. Tale(m, Checked(m, Evolved(m, Told(r), e)))
    BY <1>1, <1>4, StagesTell DEF r
  <1>6. LET y == Checked(m, Evolved(m, Told(r), e))
        IN y.mon \in Row /\ y.mon.owner = r.owner /\ QT(y.mon) = QT(r)
    <2>1. \A y \in Stages(m, r) : y.mon \in Row /\ y.mon.owner = r.owner /\ QT(y.mon) = QT(r)
      BY <1>1, StagesRows
    <2> QED BY <1>4, <2>1
  <1> QED BY <1>1, <1>4, <1>5, <1>6 DEF r, Tale

LEMMA EvolveStep ==
  ASSUME Inv, NEW m \in Monsters, Evolve(m)
  PROVE  Inv'
  <1>1. mon[m] \in Row /\ TypeOK
    BY RowTyped DEF Inv
  <1>2. PICK e \in Eligible(mon[m]) :
          Store({m}, [i \in {m} |-> Checked(m, Evolved(m, Told(mon[m]), e))], {})
    BY DEF Evolve
  <1> DEFINE x == [i \in {m} |-> Checked(m, Evolved(m, Told(mon[m]), e))]
  <1>3. x[m].mon \in Row /\ x[m].mon.owner = mon[m].owner /\ QT(x[m].mon) = QT(mon[m])
        /\ Tale(m, x[m])
    BY <1>1, EvolvedKeeps
  <1>4. /\ UNCHANGED <<now, offers, since, rewinds, events, acked>>
        /\ battle' \in [Players -> SUBSET Monsters] /\ \A p \in Players : battle'[p] \subseteq battle[p]
    BY <1>1 DEF Evolve, bounds, TypeOK
  <1>5. Store({m}, x, {})
    BY <1>2
  <1> HIDE DEF x
  <1> QED BY <1>3, <1>4, <1>5, StoreStep

(* The end of a battle: who is rewarded and who has fainted.                *)
LEMMA RewardedKeeps ==
  ASSUME TypeOK, NEW m \in Monsters, NEW won \in BOOLEAN, NEW levels \in Nat, NEW essence \in Nat
  PROVE  LET y == Rewarded(m, won, levels, essence)
         IN /\ y.mon \in Row /\ y.mon.owner = mon[m].owner /\ ~Open(y.mon) /\ Tale(m, y)
            /\ QT(y.mon) = IF won THEN QT(Accrued(mon[m], now)) ELSE QT(mon[m])
  <1> DEFINE r == mon[m]
             first == won /\ DayOf(now) > r.favDay
             paid == [r EXCEPT
               !.essence = Up(@, essence), !.level = Least(@ + levels, MaxLevel),
               !.fav = IF won /\ DayOf(now) > r.favDay THEN Up(@, 1) ELSE @,
               !.favDay = IF won /\ DayOf(now) > r.favDay THEN DayOf(now) ELSE @]
             s == IF won THEN Accrued(paid, now) ELSE paid
  <1>1. r \in Row /\ now \in 0..MaxNow /\ DayOf(now) \in Days
    BY RowTyped
  <1>2. Up(r.essence, essence) \in 0..MaxCount /\ Up(r.fav, 1) \in 0..MaxCount
    BY <1>1, UpTyped DEF Row
  <1>3. Least(r.level + levels, MaxLevel) \in 1..MaxLevel
    BY <1>1, RaisingTimes DEF Row, Least
  <1>4. paid \in Row /\ paid.owner = r.owner /\ paid.species = r.species /\ QT(paid) = QT(r)
    BY <1>1, <1>2, <1>3 DEF Row, QT
  <1>5. Rewarded(m, won, levels, essence) = Checked(m, Told(s))
    BY DEF Rewarded
  <1> HIDE DEF paid, r
  <1>6. s \in Row /\ s.owner = r.owner /\ s.species = r.species
        /\ QT(s) = IF won THEN QT(Accrued(r, now)) ELSE QT(r)
    <2>1. CASE won
      BY <1>1, <1>4, <2>1, AccruedTyped, AccruedQT
    <2>2. CASE ~won
      BY <1>4, <2>2
    <2> QED BY <2>1, <2>2
  <1> HIDE DEF s
  <1>7. Told(s) \in Stages(m, s)
    BY <1>6, StagesFacts
  <1>8. Checked(m, Told(s)) \in Stages(m, s) /\ ~Open(Checked(m, Told(s)).mon)
    BY <1>6, <1>7, CheckedKeeps, CheckedIsThrough
  <1>9. Tale(m, Checked(m, Told(s)))
    BY <1>6, <1>8, StagesTell DEF r
  <1>10. LET y == Checked(m, Told(s))
         IN y.mon \in Row /\ y.mon.owner = s.owner /\ QT(y.mon) = QT(s)
    <2>1. \A y \in Stages(m, s) : y.mon \in Row /\ y.mon.owner = s.owner /\ QT(y.mon) = QT(s)
      BY <1>6, StagesRows
    <2> QED BY <1>8, <2>1
  <1> QED BY <1>5, <1>6, <1>8, <1>9, <1>10 DEF r, Tale

LEMMA FaintedKeeps ==
  ASSUME TypeOK, NEW m \in Monsters
  PROVE  LET y == Fainted(m)
         IN y.mon \in Row /\ y.mon.owner = mon[m].owner /\ QT(y.mon) = QT(mon[m]) /\ Tale(m, y)
  <1>1. mon[m] \in Row
    BY RowTyped
  <1>2. Up(mon[m].unfav, 1) \in 0..MaxCount
    BY <1>1, UpTyped DEF Row
  <1>3. [mon[m] EXCEPT !.unfav = Up(@, 1)] \in Row
    BY <1>1, <1>2 DEF Row
  <1>4. <<>> \in Seq(Reveals({m}))
    OBVIOUS
  <1> QED BY <1>1, <1>3, <1>4, PathEmpty DEF Fainted, Told, QT, Row, Tale

LEMMA EndBattleStep ==
  ASSUME Inv, NEW p \in Players, EndBattle(p)
  PROVE  Inv'
  <1>1. TypeOK /\ battle \in [Players -> SUBSET Monsters]
    BY DEF Inv, TypeOK
  <1>2. PICK won \in BOOLEAN, earlier \in SUBSET battle[p], gain \in {<<0, 0>>, <<1, 0>>, <<0, 1>>} :
       \E wild \in {w \in BOOLEAN : won => w},
          paid \in {S \in SUBSET (battle[p] \ earlier) : won => S = battle[p] \ earlier} :
         LET hurt == IF wild THEN earlier ELSE {}
         IN Store(paid \cup hurt,
                  [m \in paid \cup hurt |->
                     IF m \in paid THEN Rewarded(m, won, gain[1], gain[2]) ELSE Fainted(m)],
                  IF won THEN paid ELSE {})
    BY DEF EndBattle
  <1>3. PICK paid \in SUBSET (battle[p] \ earlier), hurt \in SUBSET earlier :
         Store(paid \cup hurt,
                  [m \in paid \cup hurt |->
                     IF m \in paid THEN Rewarded(m, won, gain[1], gain[2]) ELSE Fainted(m)],
                  IF won THEN paid ELSE {})
    BY <1>2
  <1> DEFINE x == [m \in paid \cup hurt |->
                     IF m \in paid THEN Rewarded(m, won, gain[1], gain[2]) ELSE Fainted(m)]
             credited == IF won THEN paid ELSE {}
  <1>4. paid \cup hurt \in SUBSET Monsters /\ credited \in SUBSET (paid \cup hurt)
        /\ gain[1] \in Nat /\ gain[2] \in Nat
    BY <1>1
  <1>5. ASSUME NEW m \in paid \cup hurt
        PROVE  /\ x[m].mon \in Row /\ x[m].mon.owner = mon[m].owner /\ Tale(m, x[m])
               /\ QT(x[m].mon) = IF m \in credited THEN QT(Accrued(mon[m], now)) ELSE QT(mon[m])
    <2>1. CASE m \in paid
      <3>1. x[m] = Rewarded(m, won, gain[1], gain[2])
        BY <2>1
      <3> QED BY <1>1, <1>4, <2>1, <3>1, RewardedKeeps
    <2>2. CASE m \notin paid
      <3>1. x[m] = Fainted(m)
        BY <2>2
      <3> QED BY <1>1, <1>4, <2>2, <3>1, FaintedKeeps
    <2> QED BY <2>1, <2>2
  <1>6. /\ UNCHANGED <<now, offers, since, rewinds, events, acked>>
        /\ battle' \in [Players -> SUBSET Monsters] /\ \A q \in Players : battle'[q] \subseteq battle[q]
    BY <1>1 DEF EndBattle, bounds
  <1>7. Store(paid \cup hurt, x, credited)
    BY <1>3
  <1> HIDE DEF x, credited
  <1> QED BY <1>4, <1>5, <1>6, <1>7, StoreStep

(* Reducers that leave the credit of every monster as it is.                *)
LEMMA CreditUntouched ==
  ASSUME Inv, UNCHANGED <<now, given, since, rewinds>>,
         \A m \in Monsters : QT(mon'[m]) = QT(mon[m])
  PROVE  CreditInv'
  <1> SUFFICES ASSUME NEW m \in Monsters
               PROVE  CreditOf(m)' /\ (rewinds = 0 => TimeOf(m))'
    BY DEF CreditInv
  <1>1. TypeOK /\ CreditOf(m) /\ (rewinds = 0 => TimeOf(m))
    BY DEF Inv, CreditInv
  <1> QED BY <1>1, OthersKeepCredit

LEMMA EventTyped ==
  ASSUME TypeOK, Event
  PROVE  /\ {rewinds, events'} \subseteq 0..MaxEvents /\ {rewinds, events} \subseteq Nat
         /\ events' = events + 1
  BY RaisingTimes DEF TypeOK, Event

LEMMA SetPartyStep ==
  ASSUME Inv, NEW m \in Monsters, SetParty(m)
  PROVE  Inv'
  <1>1. mon \in [Monsters -> Row]
    BY DEF Inv, TypeOK, Row
  <1>2. mon' = [mon EXCEPT ![m].inParty = ~@]
        /\ UNCHANGED <<now, offers, battle, notices, rows, given, since, rewinds, events>>
    BY DEF SetParty, bounds
  <1>3. mon' \in [Monsters -> Row]
    <2>1. PICK b \in BOOLEAN : b = ~mon[m].inParty
      OBVIOUS
    <2>2. mon' = [mon EXCEPT ![m] = [mon[m] EXCEPT !.inParty = b]]
      BY <1>1, <1>2, <2>1 DEF Row
    <2>3. [mon[m] EXCEPT !.inParty = b] \in Row
      BY <1>1 DEF Row
    <2> QED BY <1>1, <2>2, <2>3
  <1>4. \A n \in Monsters : mon'[n].owner = mon[n].owner /\ QT(mon'[n]) = QT(mon[n])
    BY <1>1, <1>2 DEF Row, QT
  <1>5. CreditInv'
    BY <1>2, <1>4, CreditUntouched
  <1>6. LocksInv'
    <2>1. \A n \in Monsters : Escrowed(n)' = Escrowed(n)
      BY <1>2, <1>4 DEF Escrowed
    <2> QED BY <1>2, <1>4, <2>1 DEF Inv, LocksInv, TypeOK
  <1>7. StoryInv'
    BY <1>1, StoryUntouched DEF SetParty, Inv, history, Row
  <1> QED BY <1>2, <1>3, <1>5, <1>6, <1>7 DEF Inv, TypeOK, HistoryTypes, Row

LEMMA StartBattleStep ==
  ASSUME Inv, NEW p \in Players, StartBattle(p)
  PROVE  Inv'
  <1>1. battle' = [battle EXCEPT ![p] = Party(p)] /\ events < MaxEvents /\ events' = events + 1
        /\ UNCHANGED <<now, mon, offers, notices, rows, given, since, rewinds>>
        /\ \A m \in Party(p) : ~Escrowed(m)
    BY DEF StartBattle, Event
  <1>2. Party(p) \subseteq Monsters /\ \A m \in Party(p) : mon[m].owner = p
    BY DEF Party, Owned
  <1>3. TypeOK'
    <2>1. {rewinds, events'} \subseteq 0..MaxEvents
      BY EventTyped DEF StartBattle, Inv
    <2>2. battle' \in [Players -> SUBSET Monsters]
      BY <1>1, <1>2 DEF Inv, TypeOK
    <2> QED BY <1>1, <2>1, <2>2 DEF Inv, TypeOK
  <1>4. HistoryTypes'
    <2>1. {rewinds, events} \subseteq Nat /\ events' = events + 1
      BY EventTyped DEF StartBattle, Inv
    <2> QED BY <1>1, <2>1 DEF Inv, HistoryTypes
  <1>5. CreditInv'
    BY <1>1, CreditUntouched
  <1>6. LocksInv'
    <2>1. \A n \in Monsters : Escrowed(n)' = Escrowed(n)
      BY <1>1 DEF Escrowed
    <2> QED BY <1>1, <1>2, <2>1 DEF Inv, LocksInv, TypeOK
  <1>7. StoryInv'
    BY StoryUntouched DEF StartBattle, Inv, history
  <1> QED BY <1>3, <1>4, <1>5, <1>6, <1>7 DEF Inv

LEMMA ProposeTradeStep ==
  ASSUME Inv, NEW m \in Monsters, NEW q \in Players, ProposeTrade(m, q)
  PROVE  Inv'
  <1> DEFINE o == [mon |-> m, from |-> mon[m].owner, to |-> q]
  <1>1. /\ q # mon[m].owner /\ m \notin battle[mon[m].owner]
        /\ offers' = offers \cup {o} /\ events < MaxEvents /\ events' = events + 1
        /\ UNCHANGED <<now, mon, battle, notices, rows, given, since, rewinds>>
    BY DEF ProposeTrade, Event
  <1>2. mon[m].owner \in Players
    BY RowTyped DEF Inv, Row
  <1>3. TypeOK'
    <2>1. {rewinds, events'} \subseteq 0..MaxEvents
      BY EventTyped DEF ProposeTrade, Inv
    <2>2. offers' \subseteq [mon : Monsters, from : Players, to : Players]
      BY <1>1, <1>2 DEF Inv, TypeOK
    <2> QED BY <1>1, <2>1, <2>2 DEF Inv, TypeOK
  <1>4. HistoryTypes'
    <2>1. {rewinds, events} \subseteq Nat /\ events' = events + 1
      BY EventTyped DEF ProposeTrade, Inv
    <2> QED BY <1>1, <2>1 DEF Inv, HistoryTypes
  <1>5. CreditInv'
    BY <1>1, CreditUntouched
  <1>6. LocksInv'
    <2>1. \A n \in Monsters : n # m => Escrowed(n)' = Escrowed(n)
      BY <1>1 DEF Escrowed
    <2>2. \A p \in Players : m \notin battle[p]
      BY <1>1 DEF Inv, LocksInv
    <2>3. battle \in [Players -> SUBSET Monsters]
      BY DEF Inv, TypeOK
    <2> QED BY <1>1, <2>1, <2>2, <2>3 DEF Inv, LocksInv
  <1>7. StoryInv'
    BY StoryUntouched DEF ProposeTrade, Inv, history
  <1> QED BY <1>3, <1>4, <1>5, <1>6, <1>7 DEF Inv

LEMMA EndTradeStep ==
  ASSUME Inv, NEW o \in offers, EndTrade(o)
  PROVE  Inv'
  <1>1. /\ offers' = offers \ {o}
        /\ UNCHANGED <<now, mon, battle, notices, rows, given, since, rewinds, events>>
    BY DEF EndTrade, bounds
  <1>2. CreditInv'
    BY <1>1, CreditUntouched
  <1>3. LocksInv'
    <2>1. \A n \in Monsters : Escrowed(n)' => Escrowed(n)
      BY <1>1 DEF Escrowed
    <2> QED BY <1>1, <2>1 DEF Inv, LocksInv, TypeOK
  <1>4. StoryInv'
    BY StoryUntouched DEF EndTrade, Inv, history
  <1> QED BY <1>1, <1>2, <1>3, <1>4 DEF Inv, TypeOK, HistoryTypes

LEMMA ConfirmTradeStep ==
  ASSUME Inv, NEW o \in offers, ConfirmTrade(o)
  PROVE  Inv'
  <1> DEFINE m == o.mon
             r == [ResetBond(mon[m]) EXCEPT !.owner = o.to, !.inParty = FALSE]
  <1>1. /\ mon[m].owner = o.from /\ m \notin battle[o.from]
        /\ offers' = offers \ {o} /\ mon' = [mon EXCEPT ![m] = r]
        /\ given' = [given EXCEPT ![m] = NoCredit] /\ since' = [since EXCEPT ![m] = now]
        /\ UNCHANGED <<now, battle, notices, rows, rewinds, events>>
    BY DEF ConfirmTrade, bounds
  <1>2. mon \in [Monsters -> Row] /\ m \in Monsters /\ o.to \in Players /\ o.from \in Players
    BY DEF Inv, TypeOK, Row
  <1>3. r \in Row /\ r.anchor = 0 /\ r.window = 0 /\ r.ticks = 0 /\ r.accum = 0
    <2>1. 0 \in 0..MaxCount /\ 0 \in Days /\ 0 \in 0..MaxNow /\ 0 \in 0..DailyCap
          /\ 0 \in 0..(TickLen - 1)
      <3>1. DayOf(0) = 0
        BY RaisingTimes DEF DayOf
      <3> QED BY <3>1, RaisingTimes, DaysTyped
    <2>2. mon[m] \in Row
      BY <1>2
    <2>3. ResetBond(mon[m]) \in Row
      BY <2>1, <2>2 DEF ResetBond, Row
    <2> QED BY <1>2, <2>2, <2>3 DEF ResetBond, Row
  <1> HIDE DEF r
  <1>4. mon' \in [Monsters -> Row] /\ mon'[m] = r /\ \A n \in Monsters \ {m} : mon'[n] = mon[n]
    BY <1>1, <1>2, <1>3
  <1>5. NoCredit \in [Days -> Nat] /\ \A d \in Days : NoCredit[d] = 0
    BY DEF NoCredit
  <1>6. TypeOK'
    BY <1>1, <1>4 DEF Inv, TypeOK, Row
  <1>7. HistoryTypes'
    <2>1. now \in 0..MaxNow
      BY RaisingTimes DEF Inv, TypeOK
    <2> QED BY <1>1, <1>5, <2>1 DEF Inv, HistoryTypes
  <1>8. CreditInv'
    <2>1. SUFFICES ASSUME NEW n \in Monsters
                   PROVE  CreditOf(n)' /\ (rewinds = 0 => TimeOf(n))'
      BY DEF CreditInv
    <2>2. TypeOK /\ CreditOf(n) /\ (rewinds = 0 => TimeOf(n))
      BY DEF Inv, CreditInv
    <2>3. CASE n # m
      <3>1. mon'[n] = mon[n] /\ given'[n] = given[n] /\ since'[n] = since[n]
        BY <1>1, <1>2, <2>3 DEF Inv, HistoryTypes
      <3> QED BY <1>1, <2>2, <3>1, OthersKeepCredit
    <2>4. CASE n = m
      <3>1. mon'[n] = r /\ given'[n] = NoCredit /\ since'[n] = now
        BY <1>1, <1>2, <1>4, <2>4 DEF Inv, HistoryTypes
      <3>2. DayOf(0) \in Days /\ now \in Nat
        <4>1. 0 \in 0..MaxNow
          BY RaisingTimes
        <4> QED BY <4>1, RowTyped, <2>2, DaysTyped
      <3>3. DailyCap * rewinds \in Nat /\ DailyCap * (1 + rewinds) \in Nat
        BY <2>2, Caps
      <3>4. CreditOf(n)'
        BY <1>1, <1>3, <1>5, <3>1, <3>2, <3>3 DEF CreditOf
      <3>5. OnRecord(r) = 0
        BY <1>3, RaisingTimes DEF OnRecord
      <3>6. TimeOf(n)'
        BY <1>1, <1>3, <1>5, <3>1, <3>2, <3>5 DEF TimeOf
      <3> QED BY <3>4, <3>6
    <2> QED BY <2>3, <2>4
  <1>9. LocksInv'
    <2>1. \A n \in Monsters \ {m} : Escrowed(n)' => Escrowed(n)
      BY <1>1, <1>4 DEF Escrowed
    <2>2. \A p \in Players : m \notin battle[p]
      BY <1>1 DEF Inv, LocksInv
    <2>3. battle \in [Players -> SUBSET Monsters]
      BY DEF Inv, TypeOK
    <2> QED BY <1>1, <1>4, <2>1, <2>2, <2>3 DEF Inv, LocksInv
  <1>10. StoryInv'
    <2>1. r.species = mon[m].species
      BY <1>2 DEF r, ResetBond, Row
    <2>2. \A n \in Monsters : mon'[n].species = mon[n].species
      BY <1>4, <2>1
    <2> QED BY <2>2, StoryUntouched DEF ConfirmTrade, Inv, history
  <1> QED BY <1>6, <1>7, <1>8, <1>9, <1>10 DEF Inv

LEMMA AckNoticesStep ==
  ASSUME Inv, NEW p \in Players, NEW n \in Nat, AckNotices(p, n)
  PROVE  Inv'
  <1>1. /\ p \in rows
        /\ notices' = [notices EXCEPT ![p] = SubSeq(@, n + 1, Len(@))]
        /\ UNCHANGED <<now, mon, offers, battle, rows, given, since, rewinds, events>>
    BY DEF AckNotices, bounds
  <1>2. CreditInv'
    BY <1>1, CreditUntouched
  <1>3. \A q \in Players : q # p => notices'[q] = notices[q]
    BY <1>1 DEF Inv, HistoryTypes
  <1>4. TypeOK'
    BY <1>1, <1>3 DEF Inv, TypeOK
  <1>5. HistoryTypes'
    BY <1>1 DEF Inv, HistoryTypes
  <1>6. LocksInv'
    BY <1>1 DEF Inv, LocksInv, Escrowed
  <1>7. StoryInv'
    BY AckStory DEF Inv
  <1> QED BY <1>2, <1>4, <1>5, <1>6, <1>7 DEF Inv

LEMMA ClaimGuestStep ==
  ASSUME Inv, NEW g \in Guests, NEW a \in Players \ Guests, ClaimGuest(g, a)
  PROVE  Inv'
  <1>1. /\ battle[g] = {} /\ battle[a] = {}
        /\ mon' = [m \in Monsters |->
                     IF mon[m].owner = g THEN [mon[m] EXCEPT !.owner = a] ELSE mon[m]]
        /\ notices' = IF g \in rows
                      THEN [notices EXCEPT ![g] = <<>>, ![a] = notices[g]] ELSE notices
        /\ rows' = IF g \in rows THEN (rows \ {g}) \cup {a} ELSE rows
        /\ UNCHANGED <<now, offers, battle, given, since, rewinds, events>>
    BY DEF ClaimGuest, Fighting, bounds
  <1>2. g \in Players /\ a \in Players /\ g # a
    BY RaisingPlayers
  <1>3. mon \in [Monsters -> Row]
    BY DEF Inv, TypeOK, Row
  <1>4. \A m \in Monsters : mon'[m] \in Row /\ QT(mon'[m]) = QT(mon[m])
          /\ (mon[m].owner # g => mon'[m] = mon[m])
    BY <1>1, <1>2, <1>3, ZenonT(40) DEF Row, QT
  <1>5. CreditInv'
    BY <1>1, <1>4, CreditUntouched
  <1>6. DOMAIN notices' = Players /\ \A p \in Players : notices'[p] # <<>> => p \in rows'
    <2>1. DOMAIN notices = Players /\ \A p \in Players : notices[p] # <<>> => p \in rows
      BY DEF Inv, TypeOK, HistoryTypes
    <2> QED BY <1>1, <1>2, <2>1
  <1>7. TypeOK'
    <2>1. mon' \in [Monsters -> Row]
      BY <1>1, <1>4
    <2>2. rows' \subseteq Players
      BY <1>1, <1>2 DEF Inv, TypeOK
    <2> QED BY <1>1, <1>6, <2>1, <2>2 DEF Inv, TypeOK, Row
  <1>8. HistoryTypes'
    BY <1>1, <1>6 DEF Inv, HistoryTypes
  <1>9. LocksInv'
    <2>1. \A p \in Players : \A m \in battle[p] : m \in Monsters /\ mon'[m] = mon[m]
      BY <1>1, <1>2, <1>4 DEF Inv, TypeOK, LocksInv
    <2>2. \A m : mon'[m] = mon[m] => Escrowed(m)' = Escrowed(m)
      BY <1>1 DEF Escrowed
    <2>3. /\ \A p \in Players : \A m \in battle[p] : mon[m].owner = p /\ ~Escrowed(m)
          /\ \A o \in offers : o.from # o.to
      BY DEF Inv, LocksInv
    <2>4. ASSUME NEW p \in Players, NEW m \in battle[p]
          PROVE  mon'[m].owner = p /\ ~Escrowed(m)'
      <3>1. mon'[m] = mon[m]
        BY <2>1
      <3>2. Escrowed(m)' = Escrowed(m)
        BY <2>2, <3>1
      <3> QED BY <2>3, <3>1, <3>2
    <2> QED BY <1>1, <2>3, <2>4 DEF LocksInv
  <1>10. StoryInv'
    BY <1>2, <1>3, ClaimStory DEF Inv
  <1> QED BY <1>5, <1>7, <1>8, <1>9, <1>10 DEF Inv

LEMMA TickStep ==
  ASSUME Inv, Tick
  PROVE  Inv'
  <1>1. /\ now < MaxNow /\ now' = now + 1
        /\ UNCHANGED <<mon, offers, battle, notices, rows, given, since, rewinds, events>>
    BY DEF Tick, bounds
  <1>2. now \in Nat /\ now' \in Day..MaxNow
    BY <1>1, RaisingTimes DEF Inv, TypeOK
  <1>3. ASSUME NEW m \in Monsters
        PROVE  CreditOf(m)' /\ (rewinds = 0 => TimeOf(m))'
    <2>1. TypeOK /\ CreditOf(m) /\ (rewinds = 0 => TimeOf(m)) /\ since[m] \in 0..MaxNow
      BY DEF Inv, CreditInv, HistoryTypes
    <2>2. mon[m].anchor \in Nat /\ mon[m].window \in Nat /\ DayOf(mon[m].anchor) \in Days
      BY <2>1, RowTyped, RaisingTimes
    <2>3. DailyCap * rewinds \in Nat /\ given[m] \in [Days -> Nat]
      BY <2>1, Caps DEF Inv, HistoryTypes
    <2>4. CreditOf(m)'
      BY <1>1, <1>2, <2>1, <2>2, <2>3 DEF CreditOf
    <2>5. (rewinds = 0 => TimeOf(m))'
      BY <1>1, <1>2, <2>1, <2>2, RaisingTimes DEF TimeOf
    <2> QED BY <2>4, <2>5
  <1>4. LocksInv'
    BY <1>1 DEF Inv, LocksInv, Escrowed
  <1>5. StoryInv'
    BY StoryUntouched DEF Tick, Inv, history
  <1> QED BY <1>1, <1>2, <1>3, <1>4, <1>5 DEF Inv, TypeOK, HistoryTypes, CreditInv

LEMMA SetBackStep ==
  ASSUME Inv, SetBack
  PROVE  Inv'
  <1>1. /\ rewinds' = rewinds + 1 /\ now' \in Day..(now - 1)
        /\ since' = [m \in Monsters |-> 0] /\ Event
        /\ UNCHANGED <<mon, offers, battle, notices, rows, given>>
    BY DEF SetBack
  <1>2. {rewinds, events} \subseteq Nat /\ events' = events + 1 /\ {rewinds, events'} \subseteq 0..MaxEvents
        /\ rewinds <= events
    BY <1>1, EventTyped DEF Inv, HistoryTypes
  <1>3. TypeOK'
    <2>1. rewinds' \in 0..MaxEvents
      BY <1>1, <1>2, RaisingTimes
    <2>2. now' \in Day..MaxNow
      BY <1>1, RaisingTimes, SMTT(30) DEF Inv, TypeOK
    <2>3. {rewinds', events'} \subseteq 0..MaxEvents
      BY <1>2, <2>1
    <2> QED BY <1>1, <2>2, <2>3 DEF Inv, TypeOK
  <1>4. HistoryTypes'
    BY <1>1, <1>2, RaisingTimes DEF Inv, HistoryTypes
  <1>5. ASSUME NEW m \in Monsters
        PROVE  CreditOf(m)' /\ (rewinds = 0 => TimeOf(m))'
    <2>1. TypeOK /\ CreditOf(m)
      BY DEF Inv, CreditInv
    <2>2. mon[m].window \in Nat /\ DayOf(mon[m].anchor) \in Days /\ given[m] \in [Days -> Nat]
      BY <2>1, RowTyped, RaisingTimes DEF Inv, HistoryTypes
    <2>3. DailyCap * rewinds' = DailyCap * (1 + rewinds) /\ DailyCap * rewinds' \in Nat
          /\ DailyCap * (1 + rewinds') = DailyCap * rewinds' + DailyCap /\ DailyCap \in Nat
      <3>1. DailyCap \in Nat /\ rewinds' \in Nat /\ rewinds' = 1 + rewinds
        BY <1>1, <1>2, RaisingTimes
      <3> QED BY <3>1
    <2>4. \A d \in Days : given'[m][d] <= DailyCap * rewinds'
      BY <1>1, <2>1, <2>3 DEF CreditOf
    <2>5. CreditOf(m)'
      BY <1>1, <2>2, <2>3, <2>4 DEF CreditOf
    <2>6. rewinds' # 0
      BY <1>1, <1>2
    <2> QED BY <2>5, <2>6
  <1>6. LocksInv'
    BY <1>1 DEF Inv, LocksInv, Escrowed
  <1>7. StoryInv'
    BY StoryUntouched DEF SetBack, Inv, history
  <1> QED BY <1>3, <1>4, <1>5, <1>6, <1>7 DEF Inv, CreditInv

LEMMA InitInv == Init => Inv
  <1> SUFFICES ASSUME Init PROVE Inv
    OBVIOUS
  <1>1. mon = [m \in Monsters |-> Fresh(Home[m])] /\ Home \in [Monsters -> Players]
    BY RaisingPlayers DEF Init
  <1>2. 0 \in Days /\ DayOf(0) = 0 /\ 0 \in 0..MaxNow /\ Day \in Nat /\ Day \in 0..MaxNow
    <2>1. DayOf(0) = 0
      BY RaisingTimes DEF DayOf
    <2> QED BY <2>1, RaisingTimes, DaysTyped
  <1>3. \A p \in Players : Fresh(p) \in Row
    BY <1>2, RaisingPlayers, RaisingTimes DEF Fresh, Row
  <1>4. TypeOK
    BY <1>1, <1>3, RaisingTimes DEF Init, TypeOK, Row
  <1>5. HistoryTypes
    BY <1>2 DEF Init, HistoryTypes, NoCredit
  <1>6. CreditInv
    <2>1. SUFFICES ASSUME NEW m \in Monsters PROVE CreditOf(m) /\ TimeOf(m)
      BY DEF CreditInv
    <2>2. mon[m].anchor = 0 /\ mon[m].window = 0 /\ mon[m].ticks = 0 /\ mon[m].accum = 0
      BY <1>1 DEF Fresh
    <2>3. given[m] = NoCredit /\ since[m] = Day /\ now = Day /\ \A d \in Days : NoCredit[d] = 0
      BY DEF Init, NoCredit
    <2>4. DailyCap * rewinds \in Nat /\ DailyCap * (1 + rewinds) \in Nat
      BY <1>4, Caps
    <2>5. CreditOf(m)
      BY <1>2, <2>2, <2>3, <2>4 DEF CreditOf
    <2>6. OnRecord(mon[m]) = 0
      BY <2>2, RaisingTimes DEF OnRecord
    <2>7. TimeOf(m)
      BY <1>2, <2>2, <2>3, <2>6 DEF TimeOf
    <2> QED BY <2>5, <2>7
  <1>7. LocksInv
    BY DEF Init, LocksInv
  <1> QED BY <1>4, <1>5, <1>6, <1>7, StoryInit DEF Inv

LEMMA InvStep == Inv /\ [Next]_vars => Inv'
  <1> SUFFICES ASSUME Inv, [Next]_vars PROVE Inv'
    OBVIOUS
  <1>1. CASE Tick \/ SetBack
    BY <1>1, TickStep, SetBackStep
  <1>2. CASE \E m \in Monsters : Care(m) \/ EssenceTrain(m) \/ Evolve(m) \/ SetParty(m)
    BY <1>2, CareStep, EssenceTrainStep, EvolveStep, SetPartyStep
  <1>3. CASE \E p \in Players : Walk(p) \/ StartBattle(p) \/ EndBattle(p)
    BY <1>3, WalkStep, StartBattleStep, EndBattleStep
  <1>4. CASE \E m \in Monsters, q \in Players : ProposeTrade(m, q)
    BY <1>4, ProposeTradeStep
  <1>5. CASE \E o \in offers : EndTrade(o) \/ ConfirmTrade(o)
    BY <1>5, EndTradeStep, ConfirmTradeStep
  <1>6. CASE \E p \in Players, n \in 1..MaxChainSteps : AckNotices(p, n)
    BY <1>6, AckNoticesStep
  <1>7. CASE \E g \in Guests, a \in Players \ Guests : ClaimGuest(g, a)
    BY <1>7, ClaimGuestStep
  <1>8. CASE UNCHANGED vars
    <2>1. StoryInv'
      BY <1>8, StoryUntouched DEF vars, Inv
    <2> QED BY <1>8, <2>1 DEF vars, bounds, Inv, TypeOK, HistoryTypes, CreditInv, CreditOf, TimeOf,
                              LocksInv, Escrowed
  <1> QED BY <1>1, <1>2, <1>3, <1>4, <1>5, <1>6, <1>7, <1>8 DEF Next

THEOREM Invariance == Spec => []Inv
  BY InitInv, InvStep, PTL DEF Spec

-----------------------------------------------------------------------------
(* A row that grew in nothing that an edge asks for opens none.             *)
LEMMA Grows == \A k, u, v \in Nat : u <= v => k * u <= k * v
  OBVIOUS

LEMMA OpensNone ==
  ASSUME NEW r \in Row, NEW s \in Row, s.species = r.species, s.level = r.level,
         s.essence = r.essence, s.ticks = r.ticks, s.fav = r.fav, r.unfav <= s.unfav
  PROVE  Eligible(s) \subseteq Eligible(r)
  <1> SUFFICES ASSUME NEW e \in Eligible(s) PROVE e \in Eligible(r)
    OBVIOUS
  <1>1. e \in Edges /\ e.from = s.species /\ s.level >= e.level /\ s.essence >= e.essence
        /\ Trusts(s, e.trust) /\ s.ticks >= e.ticks
    BY DEF Eligible, Satisfied
  <1>2. e.trust \in Nat /\ TrustK \in Nat
    BY <1>1, RaisingGraph, RaisingTimes
  <1>3. r.fav \in Nat /\ r.unfav \in Nat /\ s.unfav \in Nat
    BY DEF Row
  <1> DEFINE u == r.fav + r.unfav + 2 * TrustK
             v == r.fav + s.unfav + 2 * TrustK
  <1>4. u \in Nat /\ v \in Nat /\ u <= v
    BY <1>2, <1>3
  <1>5. e.trust * u <= e.trust * v /\ e.trust * u \in Nat /\ e.trust * v \in Nat
    <2> HIDE DEF u, v
    <2> QED BY <1>2, <1>4, Grows
  <1>6. Trusts(r, e.trust)
    <2>1. e.trust = 0 \/ (r.fav + TrustK) * 100 >= e.trust * v
      BY <1>1 DEF Trusts
    <2>2. (r.fav + TrustK) * 100 \in Nat
      BY <1>2, <1>3
    <2> HIDE DEF v
    <2>3. e.trust = 0 \/ (r.fav + TrustK) * 100 >= e.trust * u
      <3> HIDE DEF u
      <3> QED BY <1>5, <2>1, <2>2
    <2> QED BY <2>3 DEF Trusts
  <1> QED BY <1>1, <1>6 DEF Eligible, Satisfied

(* What a step may do to a monster: hand it over, or, unless it is on       *)
(* offer, raise it and leave no evolution behind that leaves no choice.     *)
Through(m) == ~Open(mon'[m]) \/ Eligible(mon'[m]) \subseteq Eligible(mon[m])
Fair(m) ==
  mon'[m] # mon[m] => mon'[m].owner # mon[m].owner \/ (~Escrowed(m) /\ Through(m))

LEMMA StoreIsFair ==
  ASSUME NEW M \in SUBSET Monsters, NEW x, NEW credited, Store(M, x, credited),
         \A m \in M : ~Escrowed(m),
         \A m \in M : ~Open(x[m].mon) \/ Eligible(x[m].mon) \subseteq Eligible(mon[m])
  PROVE  \A m \in Monsters : Fair(m)
  <1>1. mon' = [m \in Monsters |-> IF m \in M THEN x[m].mon ELSE mon[m]]
    BY StoreFacts
  <1> QED BY <1>1 DEF Fair, Through

LEMMA GrownIsFair ==
  ASSUME Inv, NEW m \in Monsters, Care(m) \/ EssenceTrain(m) \/ Evolve(m) \/ SetParty(m)
  PROVE  \A n \in Monsters : Fair(n)
  <1>1. mon[m] \in Row /\ TypeOK /\ mon \in [Monsters -> Row]
    BY RowTyped DEF Inv, TypeOK, Row
  <1>2. ~Escrowed(m)
    BY DEF Care, EssenceTrain, Evolve, SetParty, Free
  <1>3. ASSUME NEW r \in Row, r.owner = mon[m].owner, r.species = mon[m].species, QT(r) = QT(mon[m]),
               Store({m}, [i \in {m} |-> Tails(m, r)], {m})
        PROVE  \A n \in Monsters : Fair(n)
    <2> DEFINE x == [i \in {m} |-> Tails(m, r)]
    <2>1. ~Open(x[m].mon)
      BY <1>1, <1>3, TailsKeep
    <2> HIDE DEF x
    <2> QED BY <1>2, <1>3, <2>1, StoreIsFair DEF x
  <1>4. CASE Care(m)
    <2> DEFINE r == [mon[m] EXCEPT !.fav = Up(@, 1)]
    <2>1. Up(mon[m].fav, 1) \in 0..MaxCount
      BY <1>1, UpTyped DEF Row
    <2>2. r \in Row /\ r.owner = mon[m].owner /\ r.species = mon[m].species /\ QT(r) = QT(mon[m])
      BY <1>1, <2>1 DEF Row, QT
    <2>3. Store({m}, [i \in {m} |-> Tails(m, r)], {m})
      BY <1>4 DEF Care
    <2> HIDE DEF r
    <2> QED BY <1>3, <2>2, <2>3
  <1>5. CASE EssenceTrain(m)
    <2> DEFINE r == [mon[m] EXCEPT !.essence = Up(@, 1)]
    <2>1. Up(mon[m].essence, 1) \in 0..MaxCount
      BY <1>1, UpTyped DEF Row
    <2>2. r \in Row /\ r.owner = mon[m].owner /\ r.species = mon[m].species /\ QT(r) = QT(mon[m])
      BY <1>1, <2>1 DEF Row, QT
    <2>3. Store({m}, [i \in {m} |-> Tails(m, r)], {m})
      BY <1>5 DEF EssenceTrain
    <2> HIDE DEF r
    <2> QED BY <1>3, <2>2, <2>3
  <1>6. CASE Evolve(m)
    <2>1. PICK e \in Eligible(mon[m]) :
            Store({m}, [i \in {m} |-> Checked(m, Evolved(m, Told(mon[m]), e))], {})
      BY <1>6 DEF Evolve
    <2> DEFINE x == [i \in {m} |-> Checked(m, Evolved(m, Told(mon[m]), e))]
    <2>2. ~Open(x[m].mon)
      BY <1>1, EvolvedKeeps
    <2> HIDE DEF x
    <2> QED BY <1>2, <2>1, <2>2, StoreIsFair DEF x
  <1>7. CASE SetParty(m)
    <2>1. PICK b \in BOOLEAN : b = ~mon[m].inParty
      OBVIOUS
    <2> DEFINE s == [mon[m] EXCEPT !.inParty = b]
    <2>2. mon' = [mon EXCEPT ![m] = s]
      BY <1>1, <1>7, <2>1 DEF SetParty, Row
    <2>3. s \in Row /\ s.species = mon[m].species /\ s.level = mon[m].level
          /\ s.essence = mon[m].essence /\ s.ticks = mon[m].ticks /\ s.fav = mon[m].fav
          /\ s.unfav = mon[m].unfav /\ mon[m].unfav <= s.unfav
      BY <1>1 DEF Row
    <2> HIDE DEF s
    <2>4. Eligible(s) \subseteq Eligible(mon[m])
      BY <1>1, <2>3, OpensNone
    <2> QED BY <1>1, <1>2, <2>2, <2>4 DEF Fair, Through
  <1> QED BY <1>4, <1>5, <1>6, <1>7

LEMMA WalkIsFair ==
  ASSUME Inv, NEW p \in Players, Walk(p)
  PROVE  \A n \in Monsters : Fair(n)
  <1> DEFINE x == [m \in Walkers(p) |-> Walked(m)]
  <1>1. Walkers(p) \in SUBSET Monsters /\ TypeOK /\ \A m \in Walkers(p) : ~Escrowed(m)
    BY DEF Walkers, Party, Owned, Inv
  <1>2. Store(Walkers(p), x, Walkers(p))
    BY DEF Walk
  <1>3. ASSUME NEW m \in Walkers(p)
        PROVE  ~Open(x[m].mon) \/ Eligible(x[m].mon) \subseteq Eligible(mon[m])
    <2>1. CASE ~Open(x[m].mon)
      BY <2>1
    <2>2. CASE x[m].mon = Accrued(mon[m], now) /\ x[m].mon.ticks = mon[m].ticks
      <3> DEFINE s == Accrued(mon[m], now)
      <3>1. mon[m] \in Row /\ now \in 0..MaxNow
        BY <1>1, RowTyped
      <3>2. s \in Row /\ s.species = mon[m].species /\ s.level = mon[m].level
            /\ s.essence = mon[m].essence /\ s.fav = mon[m].fav /\ s.unfav = mon[m].unfav
        BY <3>1, AccruedTyped
      <3>3. s.ticks = mon[m].ticks /\ mon[m].unfav \in Nat
        BY <2>2, <3>1 DEF Row
      <3> HIDE DEF s
      <3>4. Eligible(s) \subseteq Eligible(mon[m])
        BY <3>1, <3>2, <3>3, OpensNone
      <3> QED BY <2>2, <3>4 DEF s
    <2> QED BY <1>1, <2>1, <2>2, WalkedKeeps
  <1> HIDE DEF x
  <1> QED BY <1>1, <1>2, <1>3, StoreIsFair

LEMMA EndBattleIsFair ==
  ASSUME Inv, NEW p \in Players, EndBattle(p)
  PROVE  \A n \in Monsters : Fair(n)
  <1>1. TypeOK /\ battle \in [Players -> SUBSET Monsters] /\ \A m \in battle[p] : ~Escrowed(m)
    BY DEF Inv, TypeOK, LocksInv
  <1>2. PICK won \in BOOLEAN, earlier \in SUBSET battle[p], gain \in {<<0, 0>>, <<1, 0>>, <<0, 1>>} :
       \E wild \in {w \in BOOLEAN : won => w},
          paid \in {S \in SUBSET (battle[p] \ earlier) : won => S = battle[p] \ earlier} :
         LET hurt == IF wild THEN earlier ELSE {}
         IN Store(paid \cup hurt,
                  [m \in paid \cup hurt |->
                     IF m \in paid THEN Rewarded(m, won, gain[1], gain[2]) ELSE Fainted(m)],
                  IF won THEN paid ELSE {})
    BY DEF EndBattle
  <1>3. PICK paid \in SUBSET (battle[p] \ earlier), hurt \in SUBSET earlier :
         Store(paid \cup hurt,
                  [m \in paid \cup hurt |->
                     IF m \in paid THEN Rewarded(m, won, gain[1], gain[2]) ELSE Fainted(m)],
                  IF won THEN paid ELSE {})
    BY <1>2
  <1> DEFINE x == [m \in paid \cup hurt |->
                     IF m \in paid THEN Rewarded(m, won, gain[1], gain[2]) ELSE Fainted(m)]
             credited == IF won THEN paid ELSE {}
  <1>4. paid \cup hurt \in SUBSET Monsters /\ paid \cup hurt \subseteq battle[p]
        /\ gain[1] \in Nat /\ gain[2] \in Nat
    BY <1>1
  <1>5. ASSUME NEW m \in paid \cup hurt
        PROVE  ~Open(x[m].mon) \/ Eligible(x[m].mon) \subseteq Eligible(mon[m])
    <2>1. CASE m \in paid
      <3>1. x[m] = Rewarded(m, won, gain[1], gain[2])
        BY <2>1
      <3> QED BY <1>1, <1>4, <2>1, <3>1, RewardedKeeps
    <2>2. CASE m \notin paid
      <3> DEFINE s == [mon[m] EXCEPT !.unfav = Up(@, 1)]
      <3>1. x[m].mon = s
        BY <2>2 DEF Fainted, Told
      <3>2. mon[m] \in Row
        BY <1>1, <1>4, RowTyped
      <3>3. Up(mon[m].unfav, 1) \in 0..MaxCount /\ mon[m].unfav <= Up(mon[m].unfav, 1)
        BY <3>2, UpTyped DEF Row
      <3>4. s \in Row /\ s.species = mon[m].species /\ s.level = mon[m].level
            /\ s.essence = mon[m].essence /\ s.ticks = mon[m].ticks /\ s.fav = mon[m].fav
            /\ mon[m].unfav <= s.unfav
        BY <3>2, <3>3 DEF Row
      <3> HIDE DEF s
      <3> QED BY <3>1, <3>2, <3>4, OpensNone
    <2> QED BY <2>1, <2>2
  <1>6. Store(paid \cup hurt, x, credited)
    BY <1>3
  <1> HIDE DEF x, credited
  <1> QED BY <1>1, <1>4, <1>5, <1>6, StoreIsFair

LEMMA HandedOver ==
  ASSUME Inv,
         \/ \E o \in offers : ConfirmTrade(o)
         \/ \E g \in Guests, a \in Players \ Guests : ClaimGuest(g, a)
  PROVE  \A n \in Monsters : Fair(n)
  <1>1. mon \in [Monsters -> Row]
    BY DEF Inv, TypeOK, Row
  <1>2. ASSUME NEW o \in offers, ConfirmTrade(o)
        PROVE  \A n \in Monsters : Fair(n)
    <2> DEFINE r == [ResetBond(mon[o.mon]) EXCEPT !.owner = o.to, !.inParty = FALSE]
    <2>1. mon[o.mon].owner = o.from /\ mon' = [mon EXCEPT ![o.mon] = r]
      BY <1>2 DEF ConfirmTrade
    <2>2. o.from # o.to /\ o.mon \in Monsters
      BY DEF Inv, LocksInv, TypeOK
    <2>3. r.owner = o.to
      BY <1>1, <2>2 DEF ResetBond, Row
    <2> HIDE DEF r
    <2> QED BY <1>1, <2>1, <2>2, <2>3 DEF Fair
  <1>3. ASSUME NEW g \in Guests, NEW a \in Players \ Guests, ClaimGuest(g, a)
        PROVE  \A n \in Monsters : Fair(n)
    <2>1. \A m \in Monsters : /\ mon'[m] # mon[m] => mon[m].owner = g
                              /\ mon[m].owner = g => mon'[m].owner = a
      BY <1>1, <1>3 DEF ClaimGuest, Row
    <2> QED BY <2>1 DEF Fair
  <1> QED BY <1>2, <1>3

LEMMA FairStep == Inv /\ [Next]_vars => \A m \in Monsters : Fair(m)
  <1> SUFFICES ASSUME Inv, [Next]_vars PROVE \A m \in Monsters : Fair(m)
    OBVIOUS
  <1>1. CASE UNCHANGED mon
    BY <1>1 DEF Fair
  <1>2. CASE \E m \in Monsters : Care(m) \/ EssenceTrain(m) \/ Evolve(m) \/ SetParty(m)
    BY <1>2, GrownIsFair
  <1>3. CASE \E p \in Players : Walk(p) \/ EndBattle(p)
    BY <1>3, WalkIsFair, EndBattleIsFair
  <1>4. CASE \/ \E o \in offers : ConfirmTrade(o)
             \/ \E g \in Guests, a \in Players \ Guests : ClaimGuest(g, a)
    BY <1>4, HandedOver
  <1>5. CASE \/ Tick \/ SetBack
             \/ \E p \in Players : StartBattle(p)
             \/ \E m \in Monsters, q \in Players : ProposeTrade(m, q)
             \/ \E o \in offers : EndTrade(o)
             \/ \E p \in Players, n \in 1..MaxChainSteps : AckNotices(p, n)
    BY <1>1, <1>5 DEF Tick, SetBack, StartBattle, ProposeTrade, EndTrade, AckNotices
  <1>6. CASE UNCHANGED vars
    BY <1>1, <1>6 DEF vars
  <1> QED BY <1>2, <1>3, <1>4, <1>5, <1>6 DEF Next

-----------------------------------------------------------------------------
(* Quality Time is what the rules grant: the window is the day's, no day    *)
(* credits more than its cap for each time it was lived through, and none   *)
(* of it is older than the trainer (apply_quality_time_credit and the reset *)
(* of the bond in a trade).                                                 *)
THEOREM CreditIsGranted == Spec => []CreditIsEarned
  <1>1. Inv => CreditIsEarned
    <2> SUFFICES ASSUME Inv PROVE CreditIsEarned
      OBVIOUS
    <2>1. TypeOK /\ WindowIsTheDays /\ CreditIsCapped
      BY DEF Inv, CreditInv, CreditOf, TimeOf, WindowIsTheDays, CreditIsCapped
    <2>2. ASSUME rewinds = 0, NEW m \in Monsters
          PROVE  mon[m].ticks * TickLen + mon[m].accum <= now - since[m]
      <3>1. TimeOf(m) /\ since[m] \in 0..MaxNow
        BY <2>2 DEF Inv, CreditInv, HistoryTypes
      <3>2. now \in Nat /\ mon[m].anchor \in Nat /\ since[m] \in Nat /\ mon[m] \in Row
        BY <2>1, <3>1, RowTyped
      <3>3. OnRecord(mon[m]) \in Nat
        BY <3>2, RaisingTimes DEF Row, OnRecord
      <3>4. OnRecord(mon[m]) <= now - since[m]
        BY <3>1, <3>2, <3>3 DEF TimeOf
      <3> QED BY <3>4 DEF OnRecord
    <2> QED BY <2>1, <2>2 DEF CreditIsEarned, BondIsEarned
  <1> QED BY <1>1, Invariance, PTL

(* A monster on offer is the monster that was offered: nothing trains,      *)
(* evolves, levels or credits it (enqueue_move's guard, the trade guards of *)
(* the others, and those of battles and offers against each other).         *)
THEOREM OffersAreUntouched == Spec => OfferedIsUntouched
  <1>1. Inv /\ [Next]_vars =>
          [\A m \in {n \in Monsters : mon'[n] # mon[n]} :
             ~Escrowed(m) \/ mon'[m].owner # mon[m].owner]_vars
    BY FairStep DEF Fair
  <1> QED BY <1>1, Invariance, PTL DEF Spec, OfferedIsUntouched

(* An evolution that opens without leaving a choice happens in the same     *)
(* transaction, with all that follow from it: the cap of the loop in        *)
(* check_and_evolve is never what ends it.                                  *)
THEOREM EvolutionsAreTaken == Spec => NoneIsMissed
  <1>1. Inv /\ [Next]_vars =>
          [\A m \in {n \in Monsters : mon'[n] # mon[n]} :
             LET before == Eligible(mon[m]) after == Eligible(mon'[m])
             IN mon'[m].owner = mon[m].owner /\ after \ before # {}
                => Cardinality(after) # 1]_vars
    BY FairStep DEF Fair, Through, Open
  <1> QED BY <1>1, Invariance, PTL DEF Spec, NoneIsMissed

(* Nobody's monster changes behind its back: the reveals of a monster are   *)
(* an unbroken path along the graph to what it is, and an owner's queue is  *)
(* what it was told less what it dismissed, through trades, claims of a     *)
(* guest's save and evolutions in between (apply_evolution's notices and    *)
(* ack_evolution_notices).                                                  *)
THEOREM StoryIsTold == Spec => []RevealsTellTheStory
  <1>1. Inv => RevealsTellTheStory
    BY StoryTold DEF Inv
  <1> QED BY <1>1, Invariance, PTL

=============================================================================
