--------------------------- MODULE MovementProofs ---------------------------
(***************************************************************************)
(* Proofs about Movement, for any tiles, entry points, zones, inputs and   *)
(* bounds that satisfy its assumptions, through any loss of connections,   *)
(* any number of page loads and any delay of calls and messages: what a    *)
(* browser shows of its character is the last row it knows with its own    *)
(* outstanding intents replayed on it, and a battle holds a character      *)
(* where it is.                                                            *)
(***************************************************************************)
EXTENDS Movement, FiniteSetTheorems, SequenceTheorems, WellFoundedInduction, TLAPS

-----------------------------------------------------------------------------
(* Sequences: induction, recursion along them, what is selected from them   *)
(* and how they are joined.                                                 *)

(* What holds of the empty sequence and of every one that is longer by one  *)
(* element than one it holds of, holds of all.                              *)
LEMMA SeqInduction ==
  ASSUME NEW U, NEW Good, <<>> \in Good,
         \A s \in Seq(U), e \in U : s \in Good => Append(s, e) \in Good
  PROVE  \A s \in Seq(U) : s \in Good
  <1> DEFINE Bad == {Len(s) : s \in Seq(U) \ Good}
  <1>1. SUFFICES ASSUME Bad # {} PROVE FALSE
    OBVIOUS
  <1>2. PICK k \in Bad : \A l \in Bad : <<l, k>> \notin OpToRel(<, Nat)
    <2>1. Bad \subseteq Nat
      BY LenProperties
    <2> HIDE DEF Bad
    <2> QED BY <1>1, <2>1, NatLessThanWellFounded, WFMin
  <1>3. PICK s \in Seq(U) : s \notin Good /\ Len(s) = k
    OBVIOUS
  <1>4. s # <<>>
    BY <1>3
  <1>5. PICK t \in Seq(U), e \in U : s = Append(t, e)
    BY <1>4, SequenceEmptyOrAppend
  <1>6. Len(t) \in Nat /\ k = Len(t) + 1
    BY <1>3, <1>5
  <1>7. t \notin Good
    BY <1>3, <1>5
  <1>8. Len(t) \in Bad
    BY <1>7
  <1>9. Len(t) < k
    BY <1>6
  <1>10. <<Len(t), k>> \notin OpToRel(<, Nat)
    <2> HIDE DEF Bad
    <2> QED BY <1>2, <1>8
  <1> QED BY <1>6, <1>9, <1>10 DEF OpToRel

(* Recursion along the steps of a sequence has a result.                    *)
Runs(f, n, x, step) == f[0] = x /\ \A i \in 1..n : f[i] = step[i][f[i - 1]]

LEMMA Iterates ==
  ASSUME NEW n \in Nat, NEW U, NEW step \in [1..n -> [U -> U]], NEW x \in U
  PROVE  \E f \in [0..n -> U] : Runs(f, n, x, step)
  <1> DEFINE Bad == {k \in 0..n : \A f \in [0..k -> U] : ~Runs(f, k, x, step)}
  <1>1. SUFFICES ASSUME Bad # {} PROVE FALSE
    <2>1. n \in 0..n
      OBVIOUS
    <2> QED BY <2>1
  <1>2. PICK k \in Bad : \A l \in Bad : <<l, k>> \notin OpToRel(<, Nat)
    <2>1. Bad \subseteq Nat
      OBVIOUS
    <2> HIDE DEF Bad
    <2> QED BY <1>1, <2>1, NatLessThanWellFounded, WFMin
  <1>3. k \in 0..n /\ \A l \in 0..n : l < k => \E f \in [0..l -> U] : Runs(f, l, x, step)
    <2>1. \A l \in Bad : l \in Nat /\ k \in Nat
      OBVIOUS
    <2>2. \A l \in Bad : ~(l < k)
      <3> HIDE DEF Bad
      <3> QED BY <1>2, <2>1 DEF OpToRel
    <2> QED BY <2>2
  <1>4. CASE k = 0
    <2>1. [i \in 0..0 |-> x] \in [0..0 -> U] /\ Runs([i \in 0..0 |-> x], 0, x, step)
      BY DEF Runs
    <2> QED BY <1>4, <1>2, <2>1
  <1>5. CASE k # 0
    <2>1. k \in 1..n /\ k - 1 \in 0..n /\ k - 1 < k
      BY <1>3, <1>5
    <2>2. PICK f \in [0..(k - 1) -> U] : Runs(f, k - 1, x, step)
      BY <2>1, <1>3
    <2>3. f[k - 1] \in U
      BY <2>1
    <2>4. step[k][f[k - 1]] \in U
      BY <2>1, <2>3
    <2> DEFINE g == [i \in 0..k |-> IF i = k THEN step[k][f[k - 1]] ELSE f[i]]
    <2>5. g \in [0..k -> U]
      BY <2>1, <2>4
    <2>6. Runs(g, k, x, step)
      BY <2>1, <2>2 DEF Runs
    <2> QED BY <1>2, <2>5, <2>6
  <1> QED BY <1>4, <1>5

LEMMA UpTo ==
  ASSUME NEW n \in Nat, NEW Good, 0 \in Good, \A i \in 1..n : i - 1 \in Good => i \in Good
  PROVE  \A i \in 0..n : i \in Good
  <1> DEFINE Bad == {i \in 0..n : i \notin Good}
  <1>1. SUFFICES ASSUME Bad # {} PROVE FALSE
    OBVIOUS
  <1>2. PICK k \in Bad : \A l \in Bad : <<l, k>> \notin OpToRel(<, Nat)
    <2>1. Bad \subseteq Nat
      OBVIOUS
    <2> HIDE DEF Bad
    <2> QED BY <1>1, <2>1, NatLessThanWellFounded, WFMin
  <1>3. k \in 0..n /\ k \notin Good /\ \A l \in 0..n : l < k => l \in Good
    <2>1. \A l \in Bad : l \in Nat /\ k \in Nat
      OBVIOUS
    <2>2. \A l \in Bad : ~(l < k)
      <3> HIDE DEF Bad
      <3> QED BY <1>2, <2>1 DEF OpToRel
    <2> QED BY <2>2
  <1>4. k \in 1..n /\ k - 1 \in 0..n /\ k - 1 < k
    BY <1>3
  <1> QED BY <1>3, <1>4

(* Selected, by its recursion.                                              *)
Selects(g, s, S) ==
  g[0] = <<>> /\ \A i \in 1..Len(s) : g[i] = IF s[i] \in S THEN Append(g[i - 1], s[i]) ELSE g[i - 1]

LEMMA SelectedWalks ==
  ASSUME NEW U, NEW s \in Seq(U), NEW S
  PROVE  \E g \in [0..Len(s) -> Seq(U)] : Selects(g, s, S) /\ Selected(s, S) = g[Len(s)]
  <1> DEFINE n == Len(s)
             step == [i \in 1..n |-> [y \in Seq(U) |-> IF s[i] \in S THEN Append(y, s[i]) ELSE y]]
             Walks(f) == f = [i \in 0..n |-> IF i = 0 THEN <<>>
                              ELSE IF s[i] \in S THEN Append(f[i - 1], s[i]) ELSE f[i - 1]]
  <1>1. n \in Nat /\ \A i \in 1..n : s[i] \in U
    OBVIOUS
  <1>2. step \in [1..n -> [Seq(U) -> Seq(U)]] /\ <<>> \in Seq(U)
    OBVIOUS
  <1>3. \A i \in 1..n : \A y \in Seq(U) : step[i][y] = IF s[i] \in S THEN Append(y, s[i]) ELSE y
    OBVIOUS
  <1>4. PICK f \in [0..n -> Seq(U)] : Runs(f, n, <<>>, step)
    <2> HIDE DEF step, n
    <2> QED BY <1>1, <1>2, Iterates
  <1>5. \A i \in 0..n : f[i] = IF i = 0 THEN <<>>
                              ELSE IF s[i] \in S THEN Append(f[i - 1], s[i]) ELSE f[i - 1]
    <2> HIDE DEF step, n
    <2>1. f[0] = <<>> /\ \A i \in 1..n : f[i] = step[i][f[i - 1]]
      BY <1>4 DEF Runs
    <2>2. \A i \in 1..n : f[i - 1] \in Seq(U)
      BY <1>1, <1>4
    <2>3. \A i \in 1..n : f[i] = IF s[i] \in S THEN Append(f[i - 1], s[i]) ELSE f[i - 1]
      BY <1>3, <2>1, <2>2
    <2>4. \A i \in 0..n : i = 0 \/ (i \in 1..n /\ i # 0)
      BY <1>1
    <2> QED BY <2>1, <2>3, <2>4
  <1>6. Walks(f)
    BY <1>4, <1>5
  <1> DEFINE upTo == CHOOSE g : Walks(g)
  <1>7. Walks(upTo)
    BY <1>6
  <1>8. Selected(s, S) = upTo[n]
    BY DEF Selected
  <1>9. /\ upTo[0] = <<>>
        /\ \A i \in 1..n : upTo[i] = IF s[i] \in S THEN Append(upTo[i - 1], s[i]) ELSE upTo[i - 1]
    <2>1. \A i \in 0..n : upTo[i] = IF i = 0 THEN <<>>
                              ELSE IF s[i] \in S THEN Append(upTo[i - 1], s[i]) ELSE upTo[i - 1]
      <3> HIDE DEF upTo
      <3> QED BY <1>7
    <2> HIDE DEF upTo, n
    <2> QED BY <1>1, <2>1
  <1>10. upTo = [i \in 0..n |-> upTo[i]]
    <2> HIDE DEF upTo
    <2> QED BY <1>7
  <1> HIDE DEF upTo
  <1> DEFINE Good == {i \in 0..n : upTo[i] \in Seq(U)}
  <1>11. 0 \in Good /\ \A i \in 1..n : i - 1 \in Good => i \in Good
    <2> HIDE DEF n
    <2>1. upTo[0] \in Seq(U)
      BY <1>9
    <2>2. ASSUME NEW i \in 1..n, upTo[i - 1] \in Seq(U) PROVE upTo[i] \in Seq(U)
      <3>1. upTo[i] = IF s[i] \in S THEN Append(upTo[i - 1], s[i]) ELSE upTo[i - 1]
        BY <1>9
      <3>2. s[i] \in U /\ Append(upTo[i - 1], s[i]) \in Seq(U)
        BY <1>1, <2>2
      <3> QED BY <2>2, <3>1, <3>2
    <2> QED BY <1>1, <2>1, <2>2
  <1>12. \A i \in 0..n : i \in Good
    <2> HIDE DEF Good, n
    <2> QED BY <1>1, <1>11, UpTo
  <1>13. upTo \in [0..n -> Seq(U)]
    BY <1>10, <1>12
  <1>14. Selects(upTo, s, S)
    BY <1>1, <1>9 DEF Selects
  <1> QED BY <1>8, <1>13, <1>14

LEMMA SelectedNone == \A S : Selected(<<>>, S) = <<>>
  <1> SUFFICES ASSUME NEW S PROVE Selected(<<>>, S) = <<>>
    OBVIOUS
  <1>1. <<>> \in Seq({}) /\ Len(<<>>) = 0
    OBVIOUS
  <1>2. PICK g : Selects(g, <<>>, S) /\ Selected(<<>>, S) = g[Len(<<>>)]
    BY <1>1, SelectedWalks
  <1> QED BY <1>1, <1>2 DEF Selects

LEMMA SelectedAppend ==
  ASSUME NEW U, NEW s \in Seq(U), NEW e \in U, NEW S
  PROVE  Selected(Append(s, e), S) =
           IF e \in S THEN Append(Selected(s, S), e) ELSE Selected(s, S)
  <1> DEFINE n == Len(s)
             t == Append(s, e)
  <1>1. n \in Nat /\ t \in Seq(U) /\ Len(t) = n + 1 /\ t[n + 1] = e
        /\ \A i \in 1..n : t[i] = s[i]
    OBVIOUS
  <1>2. PICK g : Selects(g, s, S) /\ Selected(s, S) = g[n]
    BY SelectedWalks
  <1>3. PICK h : Selects(h, t, S) /\ Selected(t, S) = h[n + 1]
    <2> HIDE DEF t
    <2> QED BY <1>1, SelectedWalks
  <1> DEFINE Good == {i \in 0..n : h[i] = g[i]}
  <1>4. /\ g[0] = <<>> /\ h[0] = <<>>
        /\ \A i \in 1..n : /\ g[i] = IF s[i] \in S THEN Append(g[i - 1], s[i]) ELSE g[i - 1]
                           /\ h[i] = IF s[i] \in S THEN Append(h[i - 1], s[i]) ELSE h[i - 1]
    <2> HIDE DEF t
    <2> QED BY <1>1, <1>2, <1>3 DEF Selects
  <1>5. 0 \in Good /\ \A i \in 1..n : i - 1 \in Good => i \in Good
    BY <1>1, <1>4
  <1>6. h[n] = g[n]
    <2>1. \A i \in 0..n : i \in Good
      <3> HIDE DEF Good, n
      <3> QED BY <1>1, <1>5, UpTo
    <2> QED BY <1>1, <2>1
  <1>7. h[n + 1] = IF e \in S THEN Append(h[n], e) ELSE h[n]
    <2>1. n + 1 \in 1..(n + 1) /\ (n + 1) - 1 = n
      BY <1>1
    <2> HIDE DEF t, n
    <2> QED BY <1>1, <1>3, <2>1 DEF Selects
  <1> QED BY <1>2, <1>3, <1>6, <1>7

Joined(s, t) == s \o t

LEMMA JoinedAppend ==
  ASSUME NEW U, NEW s \in Seq(U), NEW t \in Seq(U), NEW e \in U
  PROVE  Append(Joined(s, t), e) = Joined(s, Append(t, e))
  BY DEF Joined

LEMMA JoinedSeq ==
  ASSUME NEW U, NEW s \in Seq(U), NEW t \in Seq(U)
  PROVE  Joined(s, t) \in Seq(U)
  BY DEF Joined

LEMMA JoinedEmpty ==
  ASSUME NEW U, NEW s \in Seq(U)
  PROVE  Joined(s, <<>>) = s /\ Joined(<<>>, s) = s
  BY DEF Joined

LEMMA SelectedTyped ==
  ASSUME NEW U, NEW s \in Seq(U), NEW S
  PROVE  Selected(s, S) \in Seq(U \cap S)
  <1> DEFINE W == U \cap S
             Good == {r \in Seq(U) : Selected(r, S) \in Seq(W)}
  <1>0. \A e : e \in W <=> e \in U /\ e \in S
    OBVIOUS
  <1> HIDE DEF W
  <1>1. <<>> \in Good
    <2>1. <<>> \in Seq(U) /\ <<>> \in Seq(W)
      OBVIOUS
    <2>2. Selected(<<>>, S) = <<>>
      BY SelectedNone
    <2> QED BY <2>1, <2>2
  <1>2. ASSUME NEW r \in Seq(U), NEW e \in U, r \in Good PROVE Append(r, e) \in Good
    <2>1. Append(r, e) \in Seq(U)
      OBVIOUS
    <2>2. e \in S => Append(Selected(r, S), e) \in Seq(W)
      BY <1>0, <1>2
    <2> QED BY <1>2, <2>1, <2>2, SelectedAppend
  <1> HIDE DEF Good
  <1>3. s \in Good
    BY <1>1, <1>2, SeqInduction
  <1> QED BY <1>3 DEF Good, W

LEMMA SelectedSeq ==
  ASSUME NEW U, NEW s \in Seq(U), NEW S
  PROVE  Selected(s, S) \in Seq(U)
  <1>1. Selected(s, S) \in Seq(U \cap S)
    BY SelectedTyped
  <1> QED BY <1>1, SeqMonotonic

LEMMA SelectedJoined ==
  ASSUME NEW U, NEW s \in Seq(U), NEW t \in Seq(U), NEW S
  PROVE  Selected(Joined(s, t), S) = Joined(Selected(s, S), Selected(t, S))
  <1> DEFINE Good == {r \in Seq(U) : Selected(Joined(s, r), S) = Joined(Selected(s, S), Selected(r, S))}
  <1>1. Selected(s, S) \in Seq(U)
    BY SelectedSeq
  <1>2. <<>> \in Good
    <2>1. Joined(s, <<>>) = s /\ Joined(Selected(s, S), <<>>) = Selected(s, S) /\ <<>> \in Seq(U)
      BY <1>1, JoinedEmpty
    <2>2. Selected(<<>>, S) = <<>>
      BY SelectedNone
    <2> QED BY <2>1, <2>2
  <1>3. ASSUME NEW r \in Seq(U), NEW e \in U, r \in Good PROVE Append(r, e) \in Good
    <2>1. Append(r, e) \in Seq(U) /\ Joined(s, r) \in Seq(U) /\ Selected(r, S) \in Seq(U)
      BY JoinedSeq, SelectedSeq
    <2>2. Joined(s, Append(r, e)) = Append(Joined(s, r), e)
      BY JoinedAppend
    <2>3. Joined(Selected(s, S), Append(Selected(r, S), e)) = Append(Joined(Selected(s, S), Selected(r, S)), e)
      BY <1>1, <2>1, JoinedAppend
    <2>4. Selected(Append(Joined(s, r), e), S) =
            IF e \in S THEN Append(Selected(Joined(s, r), S), e) ELSE Selected(Joined(s, r), S)
      BY <2>1, SelectedAppend
    <2>5. Selected(Append(r, e), S) = IF e \in S THEN Append(Selected(r, S), e) ELSE Selected(r, S)
      BY SelectedAppend
    <2>6. Selected(Joined(s, r), S) = Joined(Selected(s, S), Selected(r, S))
      BY <1>3
    <2>7. Selected(Joined(s, Append(r, e)), S) = Joined(Selected(s, S), Selected(Append(r, e), S))
      BY <2>2, <2>3, <2>4, <2>5, <2>6
    <2> QED BY <2>1, <2>7
  <1> HIDE DEF Good
  <1>4. t \in Good
    BY <1>2, <1>3, SeqInduction
  <1> QED BY <1>4 DEF Good

LEMMA SelectedAll ==
  ASSUME NEW U, NEW s \in Seq(U), NEW S, U \subseteq S
  PROVE  Selected(s, S) = s
  <1> DEFINE Good == {r \in Seq(U) : Selected(r, S) = r}
  <1>1. <<>> \in Good
    BY SelectedNone
  <1>2. ASSUME NEW r \in Seq(U), NEW e \in U, r \in Good PROVE Append(r, e) \in Good
    <2>1. Selected(r, S) = r /\ e \in S /\ Append(r, e) \in Seq(U)
      BY <1>2
    <2>2. Selected(Append(r, e), S) = Append(r, e)
      BY <2>1, SelectedAppend
    <2> QED BY <2>1, <2>2
  <1> HIDE DEF Good
  <1>3. s \in Good
    BY <1>1, <1>2, SeqInduction
  <1> QED BY <1>3 DEF Good

LEMMA SelectedOther ==
  ASSUME NEW U, NEW s \in Seq(U), NEW S, U \cap S = {}
  PROVE  Selected(s, S) = <<>>
  <1>1. Selected(s, S) \in Seq({})
    BY SelectedTyped
  <1> QED BY <1>1

LEMMA RangeAppend ==
  ASSUME NEW U, NEW s \in Seq(U), NEW e \in U
  PROVE  Range(Append(s, e)) = Range(s) \cup {e}
  <1> DEFINE t == Append(s, e)
  <1>1. t \in Seq(U) /\ Len(s) \in Nat /\ Len(t) = Len(s) + 1 /\ t[Len(s) + 1] = e
        /\ \A i \in 1..Len(s) : t[i] = s[i]
    OBVIOUS
  <1> HIDE DEF t
  <1>2. Range(s) = {s[i] : i \in 1..Len(s)} /\ Range(t) = {t[i] : i \in 1..Len(t)}
    BY <1>1, RangeEquality
  <1>3. \A i \in 1..Len(t) : i \in 1..Len(s) \/ i = Len(s) + 1
    BY <1>1
  <1>4. 1..Len(s) \subseteq 1..Len(t) /\ Len(s) + 1 \in 1..Len(t)
    BY <1>1
  <1>5. Range(t) = Range(s) \cup {e}
    BY <1>1, <1>2, <1>3, <1>4
  <1> QED BY <1>5 DEF t

LEMMA SelectedRange ==
  ASSUME NEW U, NEW s \in Seq(U), NEW S
  PROVE  Range(Selected(s, S)) = Range(s) \cap S
  <1> DEFINE Good == {r \in Seq(U) : Range(Selected(r, S)) = Range(r) \cap S}
  <1>1. <<>> \in Good
    <2>1. Selected(<<>>, S) = <<>>
      BY SelectedNone
    <2>2. Range(<<>>) = {} /\ <<>> \in Seq(U)
      BY DEF Range
    <2>3. Range(Selected(<<>>, S)) = Range(<<>>) \cap S
      BY <2>1, <2>2
    <2> QED BY <2>2, <2>3
  <1>2. ASSUME NEW r \in Seq(U), NEW e \in U, r \in Good PROVE Append(r, e) \in Good
    <2>1. Range(Selected(r, S)) = Range(r) \cap S /\ Append(r, e) \in Seq(U)
      BY <1>2
    <2>2. Selected(Append(r, e), S) = IF e \in S THEN Append(Selected(r, S), e) ELSE Selected(r, S)
      BY SelectedAppend
    <2>3. Selected(r, S) \in Seq(U)
      BY SelectedSeq
    <2>4. Range(Append(Selected(r, S), e)) = Range(Selected(r, S)) \cup {e}
          /\ Range(Append(r, e)) = Range(r) \cup {e}
      BY <2>3, RangeAppend
    <2>5. Range(Selected(Append(r, e), S)) = Range(Append(r, e)) \cap S
      BY <2>1, <2>2, <2>4
    <2> QED BY <2>1, <2>5
  <1> HIDE DEF Good
  <1>3. s \in Good
    BY <1>1, <1>2, SeqInduction
  <1> QED BY <1>3 DEF Good

-----------------------------------------------------------------------------
(* The rule of movement, the calls and the queue of steps.                  *)

Steps == [kind : Kinds, input : Inputs \cup {None}, seq : 1..MaxSeq]
Proper(op) == op.kind # "Clear" => op.input \in Inputs
Fit(r) == r \in Characters /\ InPlace(r.at) /\ Len(r.queue) <= QueueCap

-----------------------------------------------------------------------------
(* A step of the rule leaves a character on a tile he can stand on, and so  *)
(* does a queue of them; and an empty one leaves him where he is.           *)
LEMMA ApplyMoveIn ==
  ASSUME NEW at, InPlace(at), NEW input \in Inputs
  PROVE  InPlace(ApplyMove(at, input))
  <1> DEFINE dir == IF input = "Jump" THEN at.facing ELSE input
             target == IF dir = "East" THEN at.x + 1 ELSE at.x - 1
  <1>1. /\ at \in Places /\ at.x \in Walkable[at.zone] /\ at.zone \in Zones
        /\ dir \in {"East", "West"}
    BY MovementBounds DEF InPlace, Places
  <1>2. Walkable[at.zone] \subseteq UNION Range(Walkable)
    BY <1>1, MovementMaps DEF Range
  <1>3. \A x \in Walkable[at.zone] :
          [at EXCEPT !.facing = dir, !.x = x] \in Places
            /\ [at EXCEPT !.facing = dir, !.x = x].x = x
            /\ [at EXCEPT !.facing = dir, !.x = x].zone = at.zone
    BY <1>1, <1>2 DEF Places
  <1>4. PICK x \in Walkable[at.zone] : ApplyMove(at, input) = [at EXCEPT !.facing = dir, !.x = x]
    <2>1. CASE target \in Walkable[at.zone]
      BY <2>1 DEF ApplyMove
    <2>2. CASE target \notin Walkable[at.zone]
      BY <1>1, <2>2 DEF ApplyMove
    <2> QED BY <2>1, <2>2
  <1> QED BY <1>3, <1>4 DEF InPlace

LEMMA PlayIn ==
  ASSUME NEW at, InPlace(at), NEW queue \in Seq(Inputs)
  PROVE  InPlace(Play(at, queue))
  <1> DEFINE n == Len(queue)
             U == {a \in Places : InPlace(a)}
             step == [i \in 1..n |-> [y \in U |-> ApplyMove(y, queue[i])]]
             Walks(f) == f = [i \in 0..n |-> IF i = 0 THEN at ELSE ApplyMove(f[i - 1], queue[i])]
  <1>1. n \in Nat /\ (\A i \in 1..n : queue[i] \in Inputs) /\ at \in U
    BY DEF InPlace
  <1>2. step \in [1..n -> [U -> U]]
    <2>1. \A i \in 1..n : \A y \in U : ApplyMove(y, queue[i]) \in U
      <3>1. \A i \in 1..n : \A y \in U : InPlace(ApplyMove(y, queue[i]))
        BY <1>1, ApplyMoveIn
      <3> QED BY <3>1 DEF InPlace
    <2> HIDE DEF n, U
    <2> QED BY <2>1
  <1>3. \A i \in 1..n : \A y \in U : step[i][y] = ApplyMove(y, queue[i])
    OBVIOUS
  <1>4. PICK f \in [0..n -> U] : Runs(f, n, at, step)
    <2> HIDE DEF step, n, U
    <2> QED BY <1>1, <1>2, Iterates
  <1>5. \A i \in 0..n : f[i] = IF i = 0 THEN at ELSE ApplyMove(f[i - 1], queue[i])
    <2> HIDE DEF step, n, U
    <2>1. f[0] = at /\ \A i \in 1..n : f[i] = step[i][f[i - 1]]
      BY <1>4 DEF Runs
    <2>2. \A i \in 1..n : f[i - 1] \in U
      BY <1>1, <1>4
    <2>3. \A i \in 1..n : f[i] = ApplyMove(f[i - 1], queue[i])
      BY <1>3, <2>1, <2>2
    <2>4. \A i \in 0..n : i = 0 \/ (i \in 1..n /\ i # 0)
      BY <1>1
    <2> QED BY <2>1, <2>3, <2>4
  <1>6. Walks(f)
    BY <1>4, <1>5
  <1> DEFINE after == CHOOSE g : Walks(g)
  <1>7. Walks(after)
    BY <1>6
  <1>8. Play(at, queue) = after[n]
    BY DEF Play
  <1> DEFINE Good == {i \in 0..n : after[i] \in U}
  <1>9. /\ after[0] = at
        /\ \A i \in 1..n : after[i] = ApplyMove(after[i - 1], queue[i])
    <2>1. \A i \in 0..n : after[i] = IF i = 0 THEN at ELSE ApplyMove(after[i - 1], queue[i])
      <3> HIDE DEF after
      <3> QED BY <1>7
    <2> HIDE DEF after, n
    <2> QED BY <1>1, <2>1
  <1> HIDE DEF after
  <1>10. 0 \in Good /\ \A i \in 1..n : i - 1 \in Good => i \in Good
    <2> HIDE DEF n, U
    <2>1. after[0] \in U
      BY <1>1, <1>9
    <2>2. ASSUME NEW i \in 1..n, after[i - 1] \in U PROVE after[i] \in U
      <3>1. step[i][after[i - 1]] \in U
        <4> HIDE DEF step
        <4> QED BY <1>2, <2>2
      <3> QED BY <1>3, <1>9, <2>2, <3>1
    <2> QED BY <1>1, <2>1, <2>2
  <1>11. \A i \in 0..n : i \in Good
    <2> HIDE DEF Good, n
    <2> QED BY <1>1, <1>10, UpTo
  <1> QED BY <1>1, <1>8, <1>11

LEMMA PlayEmpty ==
  ASSUME NEW at
  PROVE  Play(at, <<>>) = at
  <1> DEFINE Walks(f) == f = [i \in 0..Len(<<>>) |-> IF i = 0 THEN at ELSE ApplyMove(f[i - 1], <<>>[i])]
             after == CHOOSE g : Walks(g)
  <1>1. Walks([i \in {0} |-> at])
    <2>1. 0..Len(<<>>) = {0}
      OBVIOUS
    <2> QED BY <2>1
  <1>2. Walks(after)
    BY <1>1
  <1>3. Play(at, <<>>) = after[0]
    <2>1. Play(at, <<>>) = after[Len(<<>>)]
      BY DEF Play
    <2>2. Len(<<>>) = 0
      OBVIOUS
    <2> HIDE DEF after
    <2> QED BY <2>1, <2>2
  <1>4. 0 \in 0..Len(<<>>)
    OBVIOUS
  <1> HIDE DEF after
  <1> QED BY <1>2, <1>3, <1>4

(* A queue on which operations are replayed is a queue.                     *)
LEMMA ReplayIn ==
  ASSUME NEW queue \in Seq(Inputs), NEW op, op.kind \in Kinds, Proper(op)
  PROVE  Replay(queue, op) \in Seq(Inputs)
  <1>1. op.kind \in {"Enqueue", "SetMove", "Clear"}
    BY MovementBounds
  <1>2. CASE op.kind = "Enqueue"
    BY <1>2 DEF Replay, Proper
  <1>3. CASE op.kind = "SetMove"
    BY <1>3 DEF Replay, Proper
  <1>4. CASE op.kind = "Clear"
    BY <1>4 DEF Replay, Proper
  <1> QED BY <1>1, <1>2, <1>3, <1>4

LEMMA ReplayedIn ==
  ASSUME NEW queue \in Seq(Inputs), NEW ops \in Seq(Steps), \A i \in 1..Len(ops) : Proper(ops[i])
  PROVE  Replayed(queue, ops) \in Seq(Inputs)
  <1> DEFINE n == Len(ops)
             U == Seq(Inputs)
             step == [i \in 1..n |-> [y \in U |-> Replay(y, ops[i])]]
             Walks(f) == f = [i \in 0..n |-> IF i = 0 THEN queue ELSE Replay(f[i - 1], ops[i])]
  <1>1. n \in Nat /\ \A i \in 1..n : ops[i].kind \in Kinds
    <2>1. n \in Nat /\ \A i \in 1..n : ops[i] \in Steps
      OBVIOUS
    <2> QED BY <2>1 DEF Steps
  <1>2. step \in [1..n -> [U -> U]]
    <2>1. \A i \in 1..n : \A y \in U : Replay(y, ops[i]) \in U
      BY <1>1, ReplayIn
    <2> HIDE DEF n, U
    <2> QED BY <2>1
  <1>3. \A i \in 1..n : \A y \in U : step[i][y] = Replay(y, ops[i])
    OBVIOUS
  <1>4. PICK f \in [0..n -> U] : Runs(f, n, queue, step)
    <2> HIDE DEF step, n
    <2> QED BY <1>1, <1>2, Iterates
  <1>5. \A i \in 0..n : f[i] = IF i = 0 THEN queue ELSE Replay(f[i - 1], ops[i])
    <2> HIDE DEF step, n, U
    <2>1. f[0] = queue /\ \A i \in 1..n : f[i] = step[i][f[i - 1]]
      BY <1>4 DEF Runs
    <2>2. \A i \in 1..n : f[i - 1] \in U
      BY <1>1, <1>4
    <2>3. \A i \in 1..n : f[i] = Replay(f[i - 1], ops[i])
      BY <1>3, <2>1, <2>2
    <2>4. \A i \in 0..n : i = 0 \/ (i \in 1..n /\ i # 0)
      BY <1>1
    <2> QED BY <2>1, <2>3, <2>4
  <1>6. Walks(f)
    BY <1>4, <1>5
  <1> DEFINE after == CHOOSE g : Walks(g)
  <1>7. Walks(after)
    BY <1>6
  <1>8. Replayed(queue, ops) = after[n]
    BY DEF Replayed
  <1> DEFINE Good == {i \in 0..n : after[i] \in U}
  <1>9. /\ after[0] = queue
        /\ \A i \in 1..n : after[i] = Replay(after[i - 1], ops[i])
    <2>1. \A i \in 0..n : after[i] = IF i = 0 THEN queue ELSE Replay(after[i - 1], ops[i])
      <3> HIDE DEF after
      <3> QED BY <1>7
    <2> HIDE DEF after, n
    <2> QED BY <1>1, <2>1
  <1> HIDE DEF after
  <1>10. 0 \in Good /\ \A i \in 1..n : i - 1 \in Good => i \in Good
    <2> HIDE DEF n, U
    <2>1. after[0] \in U
      BY <1>9 DEF U
    <2>2. ASSUME NEW i \in 1..n, after[i - 1] \in U PROVE after[i] \in U
      <3>1. step[i][after[i - 1]] \in U
        <4> HIDE DEF step
        <4> QED BY <1>2, <2>2
      <3> QED BY <1>3, <1>9, <2>2, <3>1
    <2> QED BY <1>1, <2>1, <2>2
  <1>11. \A i \in 0..n : i \in Good
    <2> HIDE DEF Good, n
    <2> QED BY <1>1, <1>10, UpTo
  <1> QED BY <1>1, <1>8, <1>11

LEMMA ReplayedEmpty ==
  ASSUME NEW queue
  PROVE  Replayed(queue, <<>>) = queue
  <1> DEFINE Walks(f) == f = [i \in 0..Len(<<>>) |-> IF i = 0 THEN queue ELSE Replay(f[i - 1], <<>>[i])]
             after == CHOOSE g : Walks(g)
  <1>1. Walks([i \in {0} |-> queue])
    <2>1. 0..Len(<<>>) = {0}
      OBVIOUS
    <2> QED BY <2>1
  <1>2. Walks(after)
    BY <1>1
  <1>3. Replayed(queue, <<>>) = after[0]
    <2>1. Replayed(queue, <<>>) = after[Len(<<>>)]
      BY DEF Replayed
    <2>2. Len(<<>>) = 0
      OBVIOUS
    <2> HIDE DEF after
    <2> QED BY <2>1, <2>2
  <1>4. 0 \in 0..Len(<<>>)
    OBVIOUS
  <1> HIDE DEF after
  <1> QED BY <1>2, <1>3, <1>4

LEMMA ClampedIn ==
  ASSUME NEW queue \in Seq(Inputs)
  PROVE  /\ Clamped(queue) \in Seq(Inputs) /\ Len(Clamped(queue)) <= QueueCap
         /\ Len(queue) <= QueueCap => Clamped(queue) = queue
  <1> DEFINE n == IF Len(queue) < QueueCap THEN Len(queue) ELSE QueueCap
  <1>1. n \in 0..Len(queue) /\ n <= QueueCap /\ (Len(queue) <= QueueCap => n = Len(queue))
    BY MovementBounds
  <1>2. SubSeq(queue, 1, n) \in Seq(Inputs) /\ Len(SubSeq(queue, 1, n)) = n
    <2> HIDE DEF n
    <2> QED BY <1>1
  <1>3. SubSeq(queue, 1, Len(queue)) = queue
    OBVIOUS
  <1> QED BY <1>1, <1>2, <1>3 DEF Clamped

LEMMA InputsIn ==
  ASSUME NEW queue \in Seq(Entries)
  PROVE  Inputs_(queue) \in Seq(Inputs) /\ Len(Inputs_(queue)) = Len(queue)
  <1>1. Len(queue) \in Nat /\ \A i \in 1..Len(queue) : queue[i].input \in Inputs
    <2>1. \A i \in 1..Len(queue) : queue[i] \in Entries
      OBVIOUS
    <2> QED BY <2>1 DEF Entries
  <1>2. [i \in 1..Len(queue) |-> queue[i].input] \in [1..Len(queue) -> Inputs]
    BY <1>1
  <1> QED BY <1>1, <1>2, LenProperties, SeqDef DEF Inputs_

-----------------------------------------------------------------------------
(* What the browser's own operations do to its prediction.                  *)

Browsers == [page : Nat, conn : 0..MaxConns, link : {"down", "connecting", "up"},
             store : Characters \cup {None}, zone : Zones, epoch : Nat,
             lastSent : 0..MaxSeq, predicted : Places \cup {None}, queue : Seq(Inputs),
             pending : Seq(Steps), next : 0..MaxSeq, authLen : Nat]

BrowserTypes(c) ==
  /\ c \in Browsers /\ c.lastSent <= c.next
  /\ c.store = None \/ Fit(c.store)
  /\ c.predicted = None \/ InPlace(c.predicted)
  /\ Len(c.queue) <= QueueCap
  /\ \A i \in 1..Len(c.pending) : Proper(c.pending[i])

(* A look at the store leaves the page and its connection as they are, and  *)
(* of what was sent keeps what the store does not acknowledge.              *)
Unmoved(c, d) ==
  /\ d.page = c.page /\ d.conn = c.conn /\ d.link = c.link /\ d.store = c.store
  /\ d.lastSent = c.lastSent
Keeps(d, c, ack) ==
  /\ \A k \in 1..Len(d.pending) :
       d.pending[k].seq > ack /\ \E l \in 1..Len(c.pending) : d.pending[k] = c.pending[l]
  /\ \A l \in 1..Len(c.pending) :
       c.pending[l].seq > ack => \E k \in 1..Len(d.pending) : d.pending[k] = c.pending[l]
Agreed(d, own) ==
  /\ d.queue = <<>> /\ d.authLen = Len(own.queue)
  /\ d.pending = <<>> => d.predicted = Play(own.at, Inputs_(own.queue))

LEMMA SelectedPicks ==
  ASSUME NEW U, NEW s \in Seq(U), NEW S
  PROVE  /\ \A k \in 1..Len(Selected(s, S)) :
              Selected(s, S)[k] \in S /\ \E l \in 1..Len(s) : Selected(s, S)[k] = s[l]
         /\ \A l \in 1..Len(s) : s[l] \in S => \E k \in 1..Len(Selected(s, S)) : Selected(s, S)[k] = s[l]
  <1> DEFINE r == Selected(s, S)
  <1>1. r \in Seq(U) /\ Range(r) = Range(s) \cap S
    BY SelectedSeq, SelectedRange
  <1> HIDE DEF r
  <1>2. Range(s) = {s[i] : i \in 1..Len(s)} /\ Range(r) = {r[i] : i \in 1..Len(r)}
    BY <1>1, RangeEquality
  <1>3. \A k \in 1..Len(r) : r[k] \in Range(s) /\ r[k] \in S
    BY <1>1, <1>2
  <1>4. \A l \in 1..Len(s) : s[l] \in S => s[l] \in Range(r)
    BY <1>1, <1>2
  <1>5. /\ \A k \in 1..Len(r) : r[k] \in S /\ \E l \in 1..Len(s) : r[k] = s[l]
        /\ \A l \in 1..Len(s) : s[l] \in S => \E k \in 1..Len(r) : r[k] = s[l]
    BY <1>2, <1>3, <1>4
  <1> QED BY <1>5 DEF r

LEMMA ReconciledFacts ==
  ASSUME NEW c, BrowserTypes(c), NEW own, Fit(own), NEW d, d = Reconciled(c, own)
  PROVE  /\ BrowserTypes(d) /\ Unmoved(c, d) /\ d.epoch = c.epoch /\ d.zone = c.zone
         /\ Keeps(d, c, own.ack) /\ Agreed(d, own)
  <1> DEFINE S == {p \in Range(c.pending) : p.seq > own.ack}
             unacked == Selected(c.pending, S)
             queue == Replayed(Inputs_(own.queue), unacked)
             next == Seeded(c.next, own.ack)
             predicted == Play(own.at, Clamped(queue))
  <1>1. /\ c \in Browsers /\ c.lastSent <= c.next /\ c.next \in 0..MaxSeq /\ c.lastSent \in 0..MaxSeq
        /\ c.pending \in Seq(Steps) /\ \A i \in 1..Len(c.pending) : Proper(c.pending[i])
    BY DEF BrowserTypes, Browsers
  <1>2. /\ InPlace(own.at) /\ own.queue \in Seq(Entries) /\ own.ack \in 0..MaxSeq
        /\ Len(own.queue) <= QueueCap /\ Len(own.queue) \in Nat
    BY DEF Fit, Characters
  <1>3. /\ \A k \in 1..Len(unacked) : unacked[k] \in S /\ \E l \in 1..Len(c.pending) : unacked[k] = c.pending[l]
        /\ \A l \in 1..Len(c.pending) : c.pending[l] \in S => \E k \in 1..Len(unacked) : unacked[k] = c.pending[l]
    <2> DEFINE s == c.pending
    <2>1. s \in Seq(Steps)
      BY <1>1
    <2> HIDE DEF S, s
    <2>2. /\ \A k \in 1..Len(Selected(s, S)) :
                Selected(s, S)[k] \in S /\ \E l \in 1..Len(s) : Selected(s, S)[k] = s[l]
          /\ \A l \in 1..Len(s) : s[l] \in S => \E k \in 1..Len(Selected(s, S)) : Selected(s, S)[k] = s[l]
      BY <2>1, SelectedPicks
    <2> QED BY <2>2 DEF s
  <1>4. unacked \in Seq(Steps)
    <2> HIDE DEF S
    <2> QED BY <1>1, SelectedSeq
  <1>5. \A l \in 1..Len(c.pending) : c.pending[l] \in S <=> c.pending[l].seq > own.ack
    <2>1. \A l \in 1..Len(c.pending) : c.pending[l] \in Range(c.pending)
      BY <1>1, RangeEquality
    <2> QED BY <2>1
  <1>6. /\ \A k \in 1..Len(unacked) : /\ unacked[k].seq > own.ack
                                      /\ Proper(unacked[k])
                                      /\ \E l \in 1..Len(c.pending) : unacked[k] = c.pending[l]
        /\ \A l \in 1..Len(c.pending) : c.pending[l].seq > own.ack =>
              \E k \in 1..Len(unacked) : unacked[k] = c.pending[l]
    <2> HIDE DEF S, unacked
    <2>1. \A k \in 1..Len(unacked) : /\ unacked[k].seq > own.ack
                                      /\ Proper(unacked[k])
                                      /\ \E l \in 1..Len(c.pending) : unacked[k] = c.pending[l]
      <3> TAKE k \in 1..Len(unacked)
      <3>1. PICK l \in 1..Len(c.pending) : unacked[k] = c.pending[l]
        BY <1>3
      <3> QED BY <1>1, <1>3, <1>5, <3>1
    <2> QED BY <2>1, <1>3, <1>5
  <1> HIDE DEF unacked, S
  <1>7. Inputs_(own.queue) \in Seq(Inputs) /\ Len(Inputs_(own.queue)) = Len(own.queue)
    BY <1>2, InputsIn
  <1>8. queue \in Seq(Inputs)
    BY <1>4, <1>6, <1>7, ReplayedIn
  <1>9. Clamped(queue) \in Seq(Inputs)
    <2> HIDE DEF queue
    <2> QED BY <1>8, ClampedIn
  <1>10. InPlace(predicted)
    <2> HIDE DEF queue
    <2> QED BY <1>2, <1>9, PlayIn
  <1>11. next \in 0..MaxSeq /\ c.lastSent <= next
    BY <1>1, <1>2 DEF Seeded
  <1>12. unacked = <<>> => predicted = Play(own.at, Inputs_(own.queue))
    <2> HAVE unacked = <<>>
    <2>1. queue = Inputs_(own.queue)
      BY ReplayedEmpty
    <2>2. Clamped(queue) = Inputs_(own.queue)
      BY <2>1, <1>2, <1>7, ClampedIn
    <2> QED BY <2>2
  <1>13. d = [c EXCEPT !.next = next, !.pending = unacked, !.queue = <<>>,
                       !.authLen = Len(own.queue), !.predicted = predicted]
    BY DEF Reconciled, unacked, S
  <1> HIDE DEF queue, predicted, next
  <1>14. predicted \in Places
    BY <1>10 DEF InPlace
  <1>15. /\ d \in Browsers /\ Unmoved(c, d) /\ d.epoch = c.epoch /\ d.zone = c.zone
         /\ d.next = next /\ d.pending = unacked /\ d.queue = <<>>
         /\ d.authLen = Len(own.queue) /\ d.predicted = predicted
    <2>1. d \in Browsers
      <3>1. <<>> \in Seq(Inputs) /\ predicted \in Places \cup {None}
        BY <1>14
      <3>2. c = [page |-> c.page, conn |-> c.conn, link |-> c.link, store |-> c.store,
                 zone |-> c.zone, epoch |-> c.epoch, lastSent |-> c.lastSent,
                 predicted |-> c.predicted, queue |-> c.queue, pending |-> c.pending,
                 next |-> c.next, authLen |-> c.authLen]
        BY <1>1 DEF Browsers
      <3>3. d = [page |-> c.page, conn |-> c.conn, link |-> c.link, store |-> c.store,
                 zone |-> c.zone, epoch |-> c.epoch, lastSent |-> c.lastSent,
                 predicted |-> predicted, queue |-> <<>>, pending |-> unacked,
                 next |-> next, authLen |-> Len(own.queue)]
        BY <1>13, <3>2
      <3>4. /\ c.page \in Nat /\ c.conn \in 0..MaxConns /\ c.link \in {"down", "connecting", "up"}
            /\ c.store \in Characters \cup {None} /\ c.zone \in Zones /\ c.epoch \in Nat
            /\ c.lastSent \in 0..MaxSeq
        BY <1>1 DEF Browsers
      <3> QED BY <1>2, <1>4, <1>11, <3>1, <3>3, <3>4 DEF Browsers
    <2>2. /\ d.epoch = c.epoch /\ d.zone = c.zone /\ d.page = c.page /\ d.conn = c.conn
          /\ d.link = c.link /\ d.store = c.store /\ d.lastSent = c.lastSent
      BY <1>1, <1>13 DEF Browsers
    <2>3. /\ d.next = next /\ d.pending = unacked /\ d.queue = <<>>
          /\ d.authLen = Len(own.queue) /\ d.predicted = predicted
      BY <1>1, <1>13 DEF Browsers
    <2> QED BY <2>1, <2>2, <2>3 DEF Unmoved
  <1>16. Len(d.queue) <= QueueCap
    BY <1>15, MovementBounds
  <1>17. c.store = None \/ Fit(c.store)
    BY DEF BrowserTypes
  <1>18. BrowserTypes(d)
    BY <1>6, <1>10, <1>11, <1>15, <1>16, <1>17 DEF BrowserTypes, Unmoved
  <1>19. Keeps(d, c, own.ack)
    BY <1>6, <1>15 DEF Keeps
  <1>20. Agreed(d, own)
    BY <1>12, <1>15 DEF Agreed
  <1> QED BY <1>15, <1>18, <1>19, <1>20

LEMMA RebuiltFacts ==
  ASSUME NEW c, BrowserTypes(c), NEW d, d = Rebuilt(c)
  PROVE  /\ BrowserTypes(d) /\ Unmoved(c, d) /\ d.zone = c.zone /\ d.epoch = c.epoch + 1
         /\ d.pending = <<>> /\ d.queue = <<>> /\ d.authLen = 0
  <1>1. d = [c EXCEPT !.predicted = None, !.queue = <<>>, !.pending = <<>>, !.next = c.lastSent,
                      !.authLen = 0, !.epoch = c.epoch + 1]
    BY DEF Rebuilt, NewPredictor
  <1>2. /\ c \in Browsers /\ c.lastSent \in 0..MaxSeq /\ c.epoch \in Nat
    BY DEF BrowserTypes, Browsers
  <1>3. /\ d \in Browsers /\ Unmoved(c, d) /\ d.zone = c.zone /\ d.epoch = c.epoch + 1
        /\ d.pending = <<>> /\ d.queue = <<>> /\ d.authLen = 0 /\ d.next = c.lastSent
        /\ d.predicted = None
    <2>1. d \in Browsers
      <3>1. <<>> \in Seq(Inputs) /\ <<>> \in Seq(Steps) /\ None \in Places \cup {None}
        OBVIOUS
      <3>2. c = [page |-> c.page, conn |-> c.conn, link |-> c.link, store |-> c.store,
                 zone |-> c.zone, epoch |-> c.epoch, lastSent |-> c.lastSent,
                 predicted |-> c.predicted, queue |-> c.queue, pending |-> c.pending,
                 next |-> c.next, authLen |-> c.authLen]
        BY <1>2 DEF Browsers
      <3>3. d = [page |-> c.page, conn |-> c.conn, link |-> c.link, store |-> c.store,
                 zone |-> c.zone, epoch |-> c.epoch + 1, lastSent |-> c.lastSent,
                 predicted |-> None, queue |-> <<>>, pending |-> <<>>,
                 next |-> c.lastSent, authLen |-> 0]
        BY <1>1, <3>2
      <3>4. /\ c.page \in Nat /\ c.conn \in 0..MaxConns /\ c.link \in {"down", "connecting", "up"}
            /\ c.store \in Characters \cup {None} /\ c.zone \in Zones /\ c.epoch + 1 \in Nat
            /\ c.lastSent \in 0..MaxSeq
        BY <1>2 DEF Browsers
      <3> QED BY <3>1, <3>3, <3>4 DEF Browsers
    <2>2. /\ d.zone = c.zone /\ d.epoch = c.epoch + 1 /\ d.page = c.page /\ d.conn = c.conn
          /\ d.link = c.link /\ d.store = c.store /\ d.lastSent = c.lastSent
      BY <1>1, <1>2 DEF Browsers
    <2>3. /\ d.pending = <<>> /\ d.queue = <<>> /\ d.authLen = 0 /\ d.next = c.lastSent
          /\ d.predicted = None
      BY <1>1, <1>2 DEF Browsers
    <2> QED BY <2>1, <2>2, <2>3 DEF Unmoved
  <1>4. Len(d.queue) <= QueueCap /\ d.lastSent <= d.next
    BY <1>2, <1>3, MovementBounds DEF Unmoved
  <1>5. c.store = None \/ Fit(c.store)
    BY DEF BrowserTypes
  <1> QED BY <1>3, <1>4, <1>5 DEF BrowserTypes, Unmoved

LEMMA FromStoreFacts ==
  ASSUME NEW c, BrowserTypes(c), NEW d, d = ReconciledFromStore(c)
  PROVE  /\ BrowserTypes(d) /\ Unmoved(c, d)
         /\ c.store = None => d = c
         /\ c.store # None => Agreed(d, c.store)
         /\ c.store # None => \/ d.epoch = c.epoch /\ Keeps(d, c, c.store.ack)
                              \/ d.epoch = c.epoch + 1 /\ d.pending = <<>>
  <1>0. c.store = None \/ Fit(c.store)
    BY DEF BrowserTypes
  <1>1. CASE c.store = None
    <2>1. d = c
      BY <1>1 DEF ReconciledFromStore
    <2> QED BY <1>1, <2>1 DEF Unmoved
  <1>2. CASE c.store # None /\ c.store.at.zone = c.zone
    <2>1. d = Reconciled(c, c.store)
      BY <1>2 DEF ReconciledFromStore
    <2>2. /\ BrowserTypes(d) /\ Unmoved(c, d) /\ d.epoch = c.epoch
          /\ Keeps(d, c, c.store.ack) /\ Agreed(d, c.store)
      BY <1>0, <1>2, <2>1, ReconciledFacts
    <2> QED BY <1>2, <2>2
  <1>3. CASE c.store # None /\ c.store.at.zone # c.zone
    <2> DEFINE e == Rebuilt(c)
               b == [e EXCEPT !.zone = c.store.at.zone]
    <2>1. /\ BrowserTypes(e) /\ Unmoved(c, e) /\ e.epoch = c.epoch + 1
          /\ e.pending = <<>> /\ e.queue = <<>> /\ e.authLen = 0
      BY RebuiltFacts
    <2> HIDE DEF e
    <2>2. c.store.at.zone \in Zones
      BY <1>0, <1>3 DEF Fit, InPlace, Places
    <2>3. e \in Browsers
      BY <2>1 DEF BrowserTypes
    <2>4. /\ b \in Browsers /\ Unmoved(e, b) /\ b.epoch = e.epoch /\ b.pending = e.pending
          /\ b.queue = e.queue /\ b.authLen = e.authLen /\ b.next = e.next /\ b.predicted = e.predicted
      BY <2>2, <2>3 DEF Browsers, Unmoved
    <2>5. d = Reconciled(b, c.store)
      BY <1>3 DEF ReconciledFromStore, e
    <2> HIDE DEF b
    <2>6. BrowserTypes(b)
      BY <2>1, <2>4 DEF BrowserTypes, Unmoved
    <2>7. /\ BrowserTypes(d) /\ Unmoved(b, d) /\ d.epoch = b.epoch
          /\ Keeps(d, b, c.store.ack) /\ Agreed(d, c.store)
      BY <1>0, <1>3, <2>5, <2>6, ReconciledFacts
    <2>8. d.pending = <<>>
      <3>1. \A k \in 1..Len(d.pending) : FALSE
        BY <2>1, <2>4, <2>7 DEF Keeps
      <3>2. d.pending \in Seq(Steps)
        BY <2>7 DEF BrowserTypes, Browsers
      <3>3. Len(d.pending) = 0
        BY <3>1, <3>2
      <3> QED BY <3>2, <3>3
    <2> QED BY <1>3, <2>1, <2>4, <2>7, <2>8 DEF Unmoved
  <1> QED BY <1>1, <1>2, <1>3

LEMMA DroppedFacts ==
  ASSUME NEW c, BrowserTypes(c), NEW seq, NEW epoch, NEW d, d = Dropped(c, seq, epoch)
  PROVE  /\ BrowserTypes(d) /\ Unmoved(c, d)
         /\ d.epoch = c.epoch =>
              /\ \A k \in 1..Len(d.pending) :
                   /\ \E l \in 1..Len(c.pending) : d.pending[k] = c.pending[l]
                   /\ epoch = c.epoch => d.pending[k].seq # seq
              /\ \A l \in 1..Len(c.pending) :
                   /\ (epoch = c.epoch => c.pending[l].seq # seq)
                   /\ (c.store # None => c.pending[l].seq > c.store.ack)
                   => \E k \in 1..Len(d.pending) : d.pending[k] = c.pending[l]
         /\ d.epoch # c.epoch => d.epoch = c.epoch + 1 /\ d.pending = <<>> /\ c.store # None
         /\ \/ d.pending = c.pending /\ d.queue = c.queue /\ d.predicted = c.predicted
            \/ c.store = None
            \/ Agreed(d, c.store)
         /\ d.authLen = c.authLen \/ (c.store # None /\ Agreed(d, c.store))
  <1> DEFINE S == {p \in Range(c.pending) : p.seq # seq}
             b == [c EXCEPT !.pending = Selected(c.pending, S)]
             idle == epoch # c.epoch \/ ~\E i \in 1..Len(c.pending) : c.pending[i].seq = seq
  <1>1. CASE idle
    <2>1. d = c
      BY <1>1 DEF Dropped
    <2>2. BrowserTypes(d) /\ Unmoved(c, d)
      BY <2>1 DEF Unmoved
    <2>3. \A k \in 1..Len(d.pending) : epoch = c.epoch => d.pending[k].seq # seq
      BY <1>1, <2>1
    <2> QED BY <2>1, <2>2, <2>3
  <1>2. CASE ~idle
    <2>1. d = ReconciledFromStore(b) /\ epoch = c.epoch
      BY <1>2 DEF Dropped
    <2>2. c \in Browsers /\ c.pending \in Seq(Steps) /\ \A i \in 1..Len(c.pending) : Proper(c.pending[i])
      BY DEF BrowserTypes, Browsers
    <2> DEFINE s == c.pending
               r == Selected(s, S)
    <2> HIDE DEF S, idle
    <2>3. r \in Seq(Steps)
      BY <2>2, SelectedSeq
    <2>4. /\ \A k \in 1..Len(r) : r[k] \in S /\ \E l \in 1..Len(s) : r[k] = s[l]
          /\ \A l \in 1..Len(s) : s[l] \in S => \E k \in 1..Len(r) : r[k] = s[l]
      <3>1. s \in Seq(Steps)
        BY <2>2
      <3> HIDE DEF s
      <3>2. /\ \A k \in 1..Len(Selected(s, S)) :
                  Selected(s, S)[k] \in S /\ \E l \in 1..Len(s) : Selected(s, S)[k] = s[l]
            /\ \A l \in 1..Len(s) : s[l] \in S => \E k \in 1..Len(Selected(s, S)) : Selected(s, S)[k] = s[l]
        BY <3>1, SelectedPicks
      <3> QED BY <3>2
    <2>5. \A l \in 1..Len(s) : s[l] \in S <=> s[l].seq # seq
      <3>1. \A l \in 1..Len(s) : s[l] \in Range(s)
        BY <2>2, RangeEquality
      <3> QED BY <3>1 DEF S
    <2> HIDE DEF r
    <2>6. /\ \A k \in 1..Len(r) : /\ r[k].seq # seq /\ Proper(r[k])
                                  /\ \E l \in 1..Len(s) : r[k] = s[l]
          /\ \A l \in 1..Len(s) : s[l].seq # seq => \E k \in 1..Len(r) : r[k] = s[l]
      <3>1. \A k \in 1..Len(r) : r[k].seq # seq /\ Proper(r[k]) /\ \E l \in 1..Len(s) : r[k] = s[l]
        <4> TAKE k \in 1..Len(r)
        <4>1. PICK l \in 1..Len(s) : r[k] = s[l]
          BY <2>4
        <4> QED BY <2>2, <2>4, <2>5, <4>1
      <3> QED BY <3>1, <2>4, <2>5
    <2>7. b = [c EXCEPT !.pending = r]
      BY DEF r
    <2> HIDE DEF b
    <2>8. /\ b \in Browsers /\ Unmoved(c, b) /\ b.epoch = c.epoch /\ b.pending = r
          /\ b.queue = c.queue /\ b.predicted = c.predicted /\ b.authLen = c.authLen
          /\ b.next = c.next
      BY <2>2, <2>3, <2>7 DEF Browsers, Unmoved
    <2>9. BrowserTypes(b)
      BY <2>6, <2>8 DEF BrowserTypes, Unmoved
    <2>10. /\ BrowserTypes(d) /\ Unmoved(b, d)
           /\ b.store = None => d = b
           /\ b.store # None => Agreed(d, b.store)
           /\ b.store # None => \/ d.epoch = b.epoch /\ Keeps(d, b, b.store.ack)
                                \/ d.epoch = b.epoch + 1 /\ d.pending = <<>>
      BY <2>1, <2>9, FromStoreFacts
    <2>11. Unmoved(c, d) /\ c.store = b.store /\ c.epoch \in Nat
      BY <2>2, <2>8, <2>10 DEF Unmoved, Browsers
    <2>12. ASSUME c.store = None
           PROVE  /\ d.epoch = c.epoch /\ d.pending = r /\ d.authLen = c.authLen
      BY <2>8, <2>10, <2>11, <2>12
    <2>13. ASSUME c.store # None, d.epoch = c.epoch
           PROVE  /\ \A k \in 1..Len(d.pending) :
                       d.pending[k].seq # seq /\ \E l \in 1..Len(s) : d.pending[k] = s[l]
                  /\ \A l \in 1..Len(s) : s[l].seq # seq /\ s[l].seq > c.store.ack
                       => \E k \in 1..Len(d.pending) : d.pending[k] = s[l]
      <3>1. Keeps(d, b, c.store.ack)
        BY <2>8, <2>10, <2>11, <2>13
      <3>2. \A k \in 1..Len(d.pending) : d.pending[k].seq # seq /\ \E l \in 1..Len(s) : d.pending[k] = s[l]
        BY <3>1, <2>6, <2>8 DEF Keeps
      <3>3. ASSUME NEW l \in 1..Len(s), s[l].seq # seq, s[l].seq > c.store.ack
            PROVE  \E k \in 1..Len(d.pending) : d.pending[k] = s[l]
        <4>1. PICK k \in 1..Len(r) : r[k] = s[l]
          BY <2>6, <3>3
        <4> QED BY <3>1, <3>3, <4>1, <2>8 DEF Keeps
      <3> QED BY <3>2, <3>3
    <2>14. CASE c.store = None
      <3>1. d.epoch = c.epoch /\ d.pending = r /\ d.authLen = c.authLen
        BY <2>12, <2>14
      <3>2. /\ \A k \in 1..Len(d.pending) :
                 /\ \E l \in 1..Len(c.pending) : d.pending[k] = c.pending[l]
                 /\ epoch = c.epoch => d.pending[k].seq # seq
            /\ \A l \in 1..Len(c.pending) :
                 /\ (epoch = c.epoch => c.pending[l].seq # seq)
                 /\ (c.store # None => c.pending[l].seq > c.store.ack)
                 => \E k \in 1..Len(d.pending) : d.pending[k] = c.pending[l]
        BY <2>1, <2>6, <3>1
      <3> QED BY <2>10, <2>11, <2>14, <3>1, <3>2
    <2>15. CASE c.store # None
      BY <2>1, <2>8, <2>10, <2>11, <2>13, <2>15
    <2> QED BY <2>14, <2>15
  <1> QED BY <1>1, <1>2

-----------------------------------------------------------------------------
(* The inductive invariant of Movement.                                     *)

(* Calls and messages on their lines.  The first call of a connection is the *)
(* join, and whatever a message tells is a row, except a rejection.         *)
Joins == [kind : {"Join"}]
Calls == [kind : Kinds, input : Inputs \cup {None}, seq : 1..MaxSeq, epoch : Nat, page : Nat]
Updates == [kind : {"rows"}, row : Characters]
Snapshots == [kind : {"snapshot"}, row : Characters \cup {None}]
Rejections == [kind : {"rejected"}, seq : 1..MaxSeq, epoch : Nat]
Messages == Updates \cup Snapshots \cup Rejections
IsCall(x) == x.kind # "Join"
Telltale(msg) == msg.kind # "rejected"

(* Queues are within their bounds and characters on tiles they can stand    *)
(* on, in the server's row, in every message and in the browser.            *)
Types ==
  /\ row = None \/ Fit(row)
  /\ BrowserTypes(client)
  /\ up \in [Conns -> Seq(Joins \cup Calls)]
  /\ \A c \in Conns : \A i \in 1..Len(up[c]) : IsCall(up[c][i]) => Proper(up[c][i])
  /\ down \in Seq(Messages)
  /\ \A i \in 1..Len(down) : Telltale(down[i]) => down[i].row = None \/ Fit(down[i].row)
  /\ ackPage \in Nat

(* A connection is used once: those to come carry nothing, and only the     *)
(* present one may hear.  Before its first snapshot the browser has sent     *)
(* nothing and knows no row.                                                *)
Links ==
  /\ sessions \subseteq 1..client.conn
  /\ \A c \in Conns : c > client.conn => up[c] = <<>>
  /\ Listening => client.conn \in sessions
  /\ client.link = "down" => down = <<>>
  /\ client.link = "connecting" =>
       /\ up[client.conn] = <<>> /\ down # <<>>
       /\ \A i \in 1..Len(down) : down[i].kind = IF i = 1 THEN "snapshot" ELSE "rows"
  /\ client.link = "up" => \A i \in 1..Len(down) : down[i].kind \in {"rows", "rejected"}
  /\ client.link # "up" => client.store = None

(* What the server told last is what the row is, and acks never go back.    *)
Ack(r) == IF r = None THEN 0 ELSE r.ack

Known ==
  /\ Listening =>
      \/ \E k \in 1..Len(down) : /\ Telltale(down[k]) /\ down[k].row = row
                                 /\ \A i \in (k+1)..Len(down) : ~Telltale(down[i])
      \/ /\ client.link = "up" /\ client.store = row
         /\ \A i \in 1..Len(down) : ~Telltale(down[i])
  /\ \A i \in 1..Len(down) : Telltale(down[i]) =>
       /\ Ack(client.store) <= Ack(down[i].row)
       /\ Ack(down[i].row) <= Ack(row)
       /\ \A j \in i..Len(down) : Telltale(down[j]) => Ack(down[i].row) <= Ack(down[j].row)
  /\ Ack(client.store) <= Ack(row)
  /\ row = None => client.store = None /\ \A i \in 1..Len(down) : down[i].kind # "rows"

(* Numbers and epochs are given out in order: a page's calls have numbers   *)
(* it has given, and only the present predictor's are of its epoch.         *)
OfPage(x) == IsCall(x) /\ x.page = client.page
Own(x) == IsCall(x) /\ x.epoch = client.epoch

Numbers ==
  /\ ackPage <= client.page
  /\ \A c \in Conns : \A i \in 1..Len(up[c]) : IsCall(up[c][i]) =>
       /\ up[c][i].page <= client.page
       /\ up[c][i].epoch <= client.epoch
       /\ up[c][i].epoch = client.epoch => up[c][i].page = client.page
       /\ up[c][i].page = client.page => up[c][i].seq <= client.lastSent
  /\ row # None /\ ackPage = client.page => row.ack <= client.lastSent
  /\ row # None => \A i \in 1..Len(row.queue) : row.queue[i].epoch <= client.epoch
  /\ \A i \in 1..Len(down) : down[i].kind = "rejected" => down[i].epoch <= client.epoch

(* A page's calls stay in order, on one line and from connection to         *)
(* connection, and ahead of what the row acknowledges. So a connection      *)
(* brings up only calls of this page, or the page has sent none.            *)
InOrder ==
  client.conn # 0 =>
  /\ \A i, j \in 1..Len(up[client.conn]) :
       i < j /\ OfPage(up[client.conn][i]) /\ OfPage(up[client.conn][j])
         => up[client.conn][i].seq < up[client.conn][j].seq
  /\ \A c \in Conns \ {client.conn} : \A i \in 1..Len(up[c]), j \in 1..Len(up[client.conn]) :
       OfPage(up[c][i]) /\ OfPage(up[client.conn][j])
         => up[c][i].seq < up[client.conn][j].seq
  /\ row # None /\ ackPage = client.page =>
       \A j \in 1..Len(up[client.conn]) :
         OfPage(up[client.conn][j]) => row.ack < up[client.conn][j].seq
  /\ \/ \A j \in 1..Len(up[client.conn]) : IsCall(up[client.conn][j]) => OfPage(up[client.conn][j])
     \/ /\ client.link # "up" /\ ackPage # client.page
        /\ \A c \in Conns : \A i \in 1..Len(up[c]) : ~OfPage(up[c][i])

(* The calls of the present predictor are on the present connection, each   *)
(* behind the rejections told, and pending until they are known to be       *)
(* acknowledged.                                                            *)
OwnCalls ==
  client.link = "up" =>
  /\ \A c \in Conns \ {client.conn} : \A i \in 1..Len(up[c]) : ~Own(up[c][i])
  /\ \A i \in 1..Len(down) : down[i].kind = "rejected" /\ down[i].epoch = client.epoch =>
       /\ down[i].seq <= client.lastSent
       /\ \A j \in 1..Len(up[client.conn]) : Own(up[client.conn][j])
             => down[i].seq < up[client.conn][j].seq
  /\ \A i \in 1..Len(up[client.conn]) :
       Own(up[client.conn][i]) /\ Ack(client.store) < up[client.conn][i].seq =>
         \E k \in 1..Len(client.pending) : client.pending[k].seq = up[client.conn][i].seq

(* Its entries in the queue are acknowledged, in order, before whatever is  *)
(* still to come and never rejected, and pending until they are known.      *)
Ours(e) == e.epoch = client.epoch

OwnEntries ==
  client.link = "up" /\ row # None => \A i \in 1..Len(row.queue) : Ours(row.queue[i]) =>
  /\ row.queue[i].seq <= row.ack /\ row.queue[i].seq <= client.lastSent
  /\ \A j \in 1..Len(row.queue) : i < j /\ Ours(row.queue[j])
        => row.queue[i].seq < row.queue[j].seq
  /\ \A j \in 1..Len(up[client.conn]) : Own(up[client.conn][j])
        => row.queue[i].seq < up[client.conn][j].seq
  /\ \A j \in 1..Len(down) :
       down[j].kind = "rejected" /\ down[j].epoch = client.epoch => down[j].seq # row.queue[i].seq
  /\ Ack(client.store) < row.queue[i].seq =>
       \E k \in 1..Len(client.pending) : client.pending[k].seq = row.queue[i].seq

(* A row that acknowledges one of them and was told or stored since has it. *)
Has(r, e) == e.seq <= r.ack => \E k \in 1..Len(r.queue) : r.queue[k] = e

OwnSeen ==
  client.link = "up" /\ row # None => \A i \in 1..Len(row.queue) : Ours(row.queue[i]) =>
  /\ \A j \in 1..Len(down) : down[j].kind = "rows" => Has(down[j].row, row.queue[i])
  /\ client.store # None => Has(client.store, row.queue[i])

(* What is pending is on its way, or its answer is.                         *)
UnderWay ==
  client.link = "up" =>
    \A k \in 1..Len(client.pending) :
      \/ \E i \in 1..Len(up[client.conn]) :
            Own(up[client.conn][i]) /\ up[client.conn][i].seq = client.pending[k].seq
      \/ \E i \in 1..Len(down) :
           \/ /\ down[i].kind = "rejected" /\ down[i].seq = client.pending[k].seq
              /\ down[i].epoch = client.epoch
           \/ down[i].kind = "rows" /\ down[i].row.ack >= client.pending[k].seq

(* With nothing pending, the browser shows the store and its queue.         *)
Quiet ==
  client.link = "up" =>
    /\ client.authLen = IF client.store = None THEN 0 ELSE Len(client.store.queue)
    /\ client.store # None /\ client.pending = <<>> =>
         client.queue = <<>> /\ client.predicted = Play(client.store.at, Inputs_(client.store.queue))

MovementInv ==
  /\ Types /\ Links /\ Known /\ Numbers /\ InOrder
  /\ OwnCalls /\ OwnEntries /\ OwnSeen /\ UnderWay /\ Quiet

-----------------------------------------------------------------------------
(* The types of what is under way.                                          *)

LEMMA CallsTyped ==
  ASSUME Types, NEW c \in Conns
  PROVE  /\ up[c] \in Seq(Joins \cup Calls) /\ Len(up[c]) \in Nat
         /\ \A i \in 1..Len(up[c]) : IsCall(up[c][i]) =>
              /\ up[c][i] \in Calls /\ up[c][i].kind \in Kinds /\ Proper(up[c][i])
              /\ up[c][i].seq \in 1..MaxSeq /\ up[c][i].epoch \in Nat /\ up[c][i].page \in Nat
              /\ up[c][i].input \in Inputs \cup {None}
  <1>1. up[c] \in Seq(Joins \cup Calls) /\ Len(up[c]) \in Nat
    BY DEF Types
  <1>2. \A i \in 1..Len(up[c]) : up[c][i] \in Joins \cup Calls
    BY <1>1
  <1>3. \A x \in Joins \cup Calls : IsCall(x) =>
              /\ x \in Calls /\ x.kind \in Kinds
              /\ x.seq \in 1..MaxSeq /\ x.epoch \in Nat /\ x.page \in Nat
              /\ x.input \in Inputs \cup {None}
    BY DEF Joins, Calls, IsCall
  <1>4. \A i \in 1..Len(up[c]) : IsCall(up[c][i]) => Proper(up[c][i])
    BY DEF Types
  <1> QED BY <1>1, <1>2, <1>3, <1>4

LEMMA DownTyped ==
  ASSUME Types
  PROVE  /\ down \in Seq(Messages) /\ Len(down) \in Nat
         /\ \A i \in 1..Len(down) :
              /\ down[i].kind \in {"rows", "snapshot", "rejected"}
              /\ down[i].kind = "rows" => down[i].row # None
              /\ down[i].kind = "rejected" => down[i].seq \in 1..MaxSeq /\ down[i].epoch \in Nat
              /\ Telltale(down[i]) => down[i].row = None \/ Fit(down[i].row)
  <1>1. down \in Seq(Messages) /\ Len(down) \in Nat
    BY DEF Types
  <1>2. \A i \in 1..Len(down) : down[i] \in Messages
    BY <1>1
  <1>3. \A x \in Messages :
              /\ x.kind \in {"rows", "snapshot", "rejected"}
              /\ x.kind = "rows" => x.row \in Characters
              /\ x.kind = "rejected" => x.seq \in 1..MaxSeq /\ x.epoch \in Nat
    BY DEF Messages, Updates, Snapshots, Rejections
  <1>4. \A i \in 1..Len(down) : Telltale(down[i]) => down[i].row = None \/ Fit(down[i].row)
    BY DEF Types
  <1> QED BY <1>1, <1>2, <1>3, <1>4, MovementNone

LEMMA ClientTyped ==
  ASSUME Types
  PROVE  /\ BrowserTypes(client) /\ client \in Browsers
         /\ client.page \in Nat /\ client.conn \in 0..MaxConns /\ client.epoch \in Nat
         /\ client.link \in {"down", "connecting", "up"}
         /\ client.lastSent \in 0..MaxSeq /\ client.next \in 0..MaxSeq /\ client.lastSent <= client.next
         /\ client.pending \in Seq(Steps) /\ client.queue \in Seq(Inputs)
         /\ \A i \in 1..Len(client.pending) :
              client.pending[i].seq \in 1..MaxSeq /\ Proper(client.pending[i])
         /\ client.store = None \/ Fit(client.store)
  <1>1. BrowserTypes(client)
    BY DEF Types
  <1>2. client \in Browsers /\ client.pending \in Seq(Steps)
    BY <1>1 DEF BrowserTypes, Browsers
  <1>3. \A i \in 1..Len(client.pending) : client.pending[i] \in Steps
    BY <1>2
  <1>4. \A i \in 1..Len(client.pending) : client.pending[i].seq \in 1..MaxSeq
    BY <1>3 DEF Steps
  <1> QED BY <1>1, <1>2, <1>4 DEF BrowserTypes, Browsers

LEMMA FitTyped ==
  ASSUME NEW r, Fit(r)
  PROVE  /\ r # None /\ r.ack \in 0..MaxSeq /\ r.queue \in Seq(Entries) /\ InPlace(r.at)
         /\ Len(r.queue) \in Nat /\ Len(r.queue) <= QueueCap
         /\ r = [at |-> r.at, queue |-> r.queue, ack |-> r.ack]
         /\ \A i \in 1..Len(r.queue) : /\ r.queue[i] \in Entries
                                       /\ r.queue[i].seq \in 1..MaxSeq /\ r.queue[i].epoch \in Nat
                                       /\ r.queue[i].input \in Inputs
  <1>1. r \in Characters /\ InPlace(r.at) /\ Len(r.queue) <= QueueCap /\ r.queue \in Seq(Entries)
    BY DEF Fit, Characters
  <1>2. \A i \in 1..Len(r.queue) : r.queue[i] \in Entries
    BY <1>1
  <1>3. \A e \in Entries : e.seq \in 1..MaxSeq /\ e.epoch \in Nat /\ e.input \in Inputs
    BY DEF Entries
  <1> QED BY <1>1, <1>2, <1>3, MovementNone DEF Characters

LEMMA FitMade ==
  ASSUME NEW at, InPlace(at), NEW queue \in Seq(Entries), Len(queue) <= QueueCap, NEW ack \in 0..MaxSeq
  PROVE  Fit([at |-> at, queue |-> queue, ack |-> ack])
  BY DEF Fit, Characters, InPlace

(* What is put on a line, and what is taken off it or lost from its end.    *)
LEMMA Appended ==
  ASSUME NEW U, NEW s \in Seq(U), NEW e \in U, NEW t, t = Append(s, e)
  PROVE  /\ t \in Seq(U) /\ Len(t) = Len(s) + 1 /\ Len(s) \in Nat /\ t[Len(t)] = e
         /\ \A i \in 1..Len(s) : t[i] = s[i] /\ i \in 1..Len(t)
         /\ \A i \in 1..Len(t) : i = Len(t) \/ (i \in 1..Len(s) /\ t[i] = s[i])
  OBVIOUS

Piece(t, s, k) == \A i \in 1..Len(t) : i + k \in 1..Len(s) /\ t[i] = s[i + k]

LEMMA TailOf ==
  ASSUME NEW U, NEW s \in Seq(U), s # <<>>, NEW t, t = Tail(s)
  PROVE  /\ t \in Seq(U) /\ Len(t) \in Nat /\ Len(s) = Len(t) + 1 /\ Piece(t, s, 1)
         /\ Head(s) = s[1] /\ 1 \in 1..Len(s) /\ s[1] \in U
         /\ \A i \in 1..Len(s) : i = 1 \/ (i - 1 \in 1..Len(t) /\ t[i - 1] = s[i])
  <1>1. /\ Len(s) \in Nat \ {0} /\ t \in Seq(U) /\ Len(t) = Len(s) - 1 /\ Head(s) = s[1]
        /\ \A i \in 1..Len(t) : t[i] = s[i + 1]
    OBVIOUS
  <1> QED BY <1>1 DEF Piece

LEMMA FrontOf ==
  ASSUME NEW U, NEW s \in Seq(U), NEW n \in 0..Len(s), NEW t, t = SubSeq(s, 1, n)
  PROVE  t \in Seq(U) /\ Len(t) = n /\ Piece(t, s, 0)
  <1>1. t \in Seq(U) /\ Len(t) = n /\ \A i \in 1..n : t[i] = s[i] /\ i \in 1..Len(s)
    OBVIOUS
  <1> QED BY <1>1 DEF Piece

-----------------------------------------------------------------------------
(* What each action does, piece by piece.                                   *)

LEMMA CalledFacts ==
  ASSUME Types, NEW c \in Conns, NEW call, Called(c, call)
  PROVE  /\ c \in sessions /\ Len(up[c]) \in Nat /\ 1 \in 1..Len(up[c]) /\ call = up[c][1]
         /\ up' \in [Conns -> Seq(Joins \cup Calls)]
         /\ Len(up[c]) = Len(up'[c]) + 1 /\ Len(up'[c]) \in Nat /\ Piece(up'[c], up[c], 1)
         /\ \A i \in 1..Len(up[c]) : i = 1 \/ (i - 1 \in 1..Len(up'[c]) /\ up'[c][i - 1] = up[c][i])
         /\ \A d \in Conns \ {c} : up'[d] = up[d]
         /\ \A d \in Conns : \A i \in 1..Len(up'[d]) : IsCall(up'[d][i]) => Proper(up'[d][i])
  <1>1. /\ c \in sessions /\ up[c] # <<>> /\ call = Head(up[c])
        /\ up' = [up EXCEPT ![c] = Tail(@)]
    BY DEF Called
  <1>2. up \in [Conns -> Seq(Joins \cup Calls)] /\ up[c] \in Seq(Joins \cup Calls)
    BY DEF Types
  <1>3. up'[c] = Tail(up[c]) /\ \A d \in Conns \ {c} : up'[d] = up[d]
    BY <1>1, <1>2
  <1>4. /\ up'[c] \in Seq(Joins \cup Calls) /\ Len(up'[c]) \in Nat
        /\ Len(up[c]) = Len(up'[c]) + 1 /\ Piece(up'[c], up[c], 1)
        /\ Head(up[c]) = up[c][1] /\ 1 \in 1..Len(up[c])
        /\ \A i \in 1..Len(up[c]) : i = 1 \/ (i - 1 \in 1..Len(up'[c]) /\ up'[c][i - 1] = up[c][i])
    <2> DEFINE s == up[c]
               t == up'[c]
    <2>1. s \in Seq(Joins \cup Calls) /\ s # <<>> /\ t = Tail(s)
      BY <1>1, <1>2, <1>3
    <2> HIDE DEF s, t
    <2>2. /\ t \in Seq(Joins \cup Calls) /\ Len(t) \in Nat
          /\ Len(s) = Len(t) + 1 /\ Piece(t, s, 1)
          /\ Head(s) = s[1] /\ 1 \in 1..Len(s)
          /\ \A i \in 1..Len(s) : i = 1 \/ (i - 1 \in 1..Len(t) /\ t[i - 1] = s[i])
      <3> DEFINE U == Joins \cup Calls
      <3>1. s \in Seq(U) /\ s # <<>> /\ t = Tail(s)
        BY <2>1
      <3> HIDE DEF U
      <3>2. /\ t \in Seq(U) /\ Len(t) \in Nat /\ Len(s) = Len(t) + 1 /\ Piece(t, s, 1)
        BY ONLY <3>1, TailOf
      <3>3. Head(s) = s[1] /\ 1 \in 1..Len(s)
        BY ONLY <3>1
      <3>4. ASSUME NEW i \in 1..Len(s), i # 1 PROVE i - 1 \in 1..Len(t) /\ t[i - 1] = s[i]
        <4>1. i - 1 \in 1..Len(t) /\ (i - 1) + 1 = i
          BY <3>2, <3>4
        <4> QED BY <3>2, <4>1 DEF Piece
      <3> QED BY <3>2, <3>3, <3>4 DEF U
    <2> QED BY <2>2 DEF s, t
  <1>5. up' \in [Conns -> Seq(Joins \cup Calls)]
    BY <1>1, <1>2, <1>3, <1>4
  <1>6. \A d \in Conns : \A i \in 1..Len(up[d]) : IsCall(up[d][i]) => Proper(up[d][i])
    BY DEF Types
  <1>7. \A d \in Conns : \A i \in 1..Len(up'[d]) : IsCall(up'[d][i]) => Proper(up'[d][i])
    <2> TAKE d \in Conns
    <2>1. CASE d = c
      BY <1>4, <1>6, <2>1 DEF Piece
    <2>2. CASE d # c
      BY <1>3, <1>6, <2>2
    <2> QED BY <2>1, <2>2
  <1>8. Len(up[c]) \in Nat /\ call = up[c][1]
    BY <1>1, <1>4
  <1> QED BY <1>1, <1>3, <1>4, <1>5, <1>7, <1>8

(* What the server tells is the last thing on the way to a browser that     *)
(* listens.                                                                 *)
Ends(d, msg) ==
  /\ Len(d) = Len(down) + 1 /\ d[Len(d)] = msg /\ Len(d) \in 1..Len(d)
  /\ \A i \in 1..Len(down) : d[i] = down[i] /\ i \in 1..Len(d)
  /\ \A i \in 1..Len(d) : i = Len(d) \/ (i \in 1..Len(down) /\ d[i] = down[i])

LEMMA TellFacts ==
  ASSUME Types, NEW msg \in Messages, NEW d, d = Telling(msg),
         Telltale(msg) => msg.row = None \/ Fit(msg.row)
  PROVE  /\ d \in Seq(Messages) /\ Len(d) \in Nat /\ Len(down) \in Nat
         /\ Listening => Ends(d, msg)
         /\ ~Listening => d = down
         /\ \A i \in 1..Len(d) : Telltale(d[i]) => d[i].row = None \/ Fit(d[i].row)
  <1>1. down \in Seq(Messages) /\ \A i \in 1..Len(down) : Telltale(down[i]) => down[i].row = None \/ Fit(down[i].row)
    BY DEF Types
  <1>2. CASE ~Listening
    BY <1>1, <1>2 DEF Telling
  <1>3. CASE Listening
    <2>1. d = Append(down, msg)
      BY <1>3 DEF Telling
    <2>2. /\ d \in Seq(Messages) /\ Len(d) = Len(down) + 1 /\ Len(down) \in Nat /\ d[Len(d)] = msg
          /\ \A i \in 1..Len(down) : d[i] = down[i] /\ i \in 1..Len(d)
          /\ \A i \in 1..Len(d) : i = Len(d) \/ (i \in 1..Len(down) /\ d[i] = down[i])
      BY <1>1, <2>1, Appended
    <2>3. Ends(d, msg)
      BY <2>2 DEF Ends
    <2>4. \A i \in 1..Len(d) : Telltale(d[i]) => d[i].row = None \/ Fit(d[i].row)
      BY <1>1, <2>2
    <2> QED BY <1>3, <2>2, <2>3, <2>4
  <1> QED BY <1>2, <1>3

LEMMA RowsTyped ==
  ASSUME NEW r, Fit(r)
  PROVE  /\ Rows(r) \in Messages /\ Rows(r).kind = "rows" /\ Rows(r).row = r /\ Telltale(Rows(r))
  BY DEF Fit, Rows, Messages, Updates, Telltale

(* The first row, a move that is accepted, and a tick.                      *)
LEMMA SpawnFit == Fit([at |-> Spawn, queue |-> <<>>, ack |-> 0])
  <1>1. Spawn \in [zone : Zones, x : Walkable[Spawn.zone], facing : {"East", "West"}]
    BY MovementMaps
  <1>2. /\ Spawn.zone \in Zones /\ Spawn.x \in Walkable[Spawn.zone]
        /\ Spawn.facing \in {"East", "West"}
        /\ Spawn = [zone |-> Spawn.zone, x |-> Spawn.x, facing |-> Spawn.facing]
    BY <1>1
  <1>3. Spawn.x \in UNION Range(Walkable)
    BY <1>2, MovementMaps DEF Range
  <1>4. Spawn \in Places
    BY <1>2, <1>3 DEF Places
  <1>5. InPlace(Spawn)
    BY <1>2, <1>4 DEF InPlace
  <1>6. <<>> \in Seq(Entries) /\ Len(<<>>) <= QueueCap /\ 0 \in 0..MaxSeq
    BY MovementBounds
  <1> QED BY <1>5, <1>6, FitMade

(* The queue after a call: what it was, without what the call took off, and *)
(* at its end perhaps the call's own entry.                                 *)
Queued(q, r, call) ==
  \A k \in 1..Len(q) :
    \/ k = Len(q) /\ q[k] = [input |-> call.input, epoch |-> call.epoch, seq |-> call.seq]
    \/ k \in 1..Len(r) /\ q[k] = r[k]

LEMMA AcceptedFacts ==
  ASSUME NEW r, Fit(r), NEW call \in Calls, Proper(call),
         call.kind = "Enqueue" => Len(r.queue) < QueueCap,
         NEW entry, entry.kind = call.kind,
         entry.input = [input |-> call.input, epoch |-> call.epoch, seq |-> call.seq]
  PROVE  /\ Replay(r.queue, entry) \in Seq(Entries) /\ Len(Replay(r.queue, entry)) <= QueueCap
         /\ Queued(Replay(r.queue, entry), r.queue, call)
         /\ call.kind = "Clear" => Replay(r.queue, entry) = <<>>
  <1> DEFINE e == [input |-> call.input, epoch |-> call.epoch, seq |-> call.seq]
  <1>1. /\ call.kind \in {"Enqueue", "SetMove", "Clear"}
        /\ call.kind # "Clear" => e \in Entries
    <2>1. call.kind \in Kinds /\ call.seq \in 1..MaxSeq /\ call.epoch \in Nat
      BY DEF Calls
    <2>2. Kinds \subseteq {"Enqueue", "SetMove", "Clear"}
      BY MovementBounds
    <2>3. call.kind # "Clear" => call.input \in Inputs
      BY DEF Proper
    <2> QED BY <2>1, <2>2, <2>3 DEF Entries
  <1>2. r.queue \in Seq(Entries) /\ Len(r.queue) \in Nat /\ Len(r.queue) <= QueueCap
    BY FitTyped
  <1>3. entry.kind = call.kind /\ entry.input = e
    OBVIOUS
  <1> HIDE DEF e
  <1> DEFINE q == Replay(r.queue, entry)
  <1> HIDE DEF q
  <1>4. q \in Seq(Entries) /\ Len(q) <= QueueCap /\ Queued(q, r.queue, call) /\ (call.kind = "Clear" => q = <<>>)
    <2>1. CASE call.kind = "Enqueue"
      <3>1. q = Append(r.queue, e)
        BY <1>3, <2>1 DEF Replay, q
      <3>2. e \in Entries
        BY <1>1, <2>1
      <3>3. q \in Seq(Entries) /\ Len(q) = Len(r.queue) + 1
        BY <1>2, <3>1, <3>2
      <3>4. \A k \in 1..Len(q) : (k = Len(q) /\ q[k] = e) \/ (k \in 1..Len(r.queue) /\ q[k] = r.queue[k])
        BY <1>2, <3>1, <3>2
      <3>5. Queued(q, r.queue, call)
        BY <3>4 DEF Queued, e
      <3>6. Len(q) <= QueueCap
        <4>1. Len(r.queue) < QueueCap
          BY <2>1
        <4> QED BY <1>2, <3>3, <4>1, MovementBounds
      <3> QED BY <3>3, <3>5, <3>6, <2>1
    <2>2. CASE call.kind = "SetMove"
      <3>1. q = <<e>> /\ e \in Entries
        BY <1>1, <1>3, <2>2 DEF Replay, q
      <3>2. q \in Seq(Entries) /\ Len(q) = 1 /\ q[1] = e
        BY <3>1
      <3>3. Queued(q, r.queue, call)
        <4>1. \A k \in 1..Len(q) : k = Len(q) /\ q[k] = e
          BY <3>2
        <4> QED BY <4>1 DEF Queued, e
      <3> QED BY <3>2, <3>3, <2>2, MovementBounds
    <2>3. CASE call.kind = "Clear"
      <3>1. q = <<>>
        BY <1>3, <2>3 DEF Replay, q
      <3> QED BY <3>1, MovementBounds DEF Queued
    <2> QED BY <1>1, <2>1, <2>2, <2>3
  <1> QED BY <1>4 DEF q

LEMMA TickFacts ==
  ASSUME row = None \/ Fit(row), MovementTick
  PROVE  /\ row # None /\ ~inBattle
         /\ Fit(row') /\ row'.ack = row.ack /\ Piece(row'.queue, row.queue, 1)
         /\ down' = Telling(Rows(row'))
         /\ UNCHANGED <<ackPage, sessions, up, client>>
  <1> DEFINE at == ApplyMove(row.at, Head(row.queue).input)
             moved == at.x # row.at.x
             warps == moved /\ at.x \in DOMAIN Warps[at.zone]
             next == IF warps
                     THEN [row EXCEPT !.at = [at EXCEPT !.zone = Warps[row.at.zone][at.x].zone,
                                                        !.x = Warps[row.at.zone][at.x].x],
                                      !.queue = <<>>]
                     ELSE [row EXCEPT !.at = at, !.queue = Tail(@)]
  <1>1. /\ row # None /\ row.queue # <<>> /\ ~inBattle
        /\ row' = next /\ down' = Telling(Rows(next)) /\ UNCHANGED <<ackPage, sessions, up, client>>
    BY DEF MovementTick, Locked
  <1>2. Fit(row) /\ row.queue # <<>>
    BY <1>1
  <1>3. /\ row.queue \in Seq(Entries) /\ Len(row.queue) \in Nat /\ Len(row.queue) <= QueueCap
        /\ InPlace(row.at) /\ row.ack \in 0..MaxSeq
        /\ row = [at |-> row.at, queue |-> row.queue, ack |-> row.ack]
    BY <1>2, FitTyped
  <1>4. Head(row.queue) \in Entries /\ Head(row.queue).input \in Inputs
    <2>1. Head(row.queue) \in Entries
      BY ONLY <1>2, <1>3
    <2> QED BY <2>1 DEF Entries
  <1>5. InPlace(at)
    BY <1>3, <1>4, ApplyMoveIn
  <1>6. at.zone = row.at.zone
    BY <1>3 DEF ApplyMove, InPlace, Places
  <1> HIDE DEF at
  <1>7. CASE warps
    <2> DEFINE w == Warps[row.at.zone][at.x]
               to == [at EXCEPT !.zone = w.zone, !.x = w.x]
    <2>1. at.zone \in Zones /\ at.x \in DOMAIN Warps[at.zone]
      BY <1>5, <1>7 DEF InPlace, Places
    <2>2. w.zone \in Zones /\ w.x \in Walkable[w.zone]
      BY <1>6, <2>1, MovementMaps
    <2>3. w.x \in UNION Range(Walkable)
      <3>1. w.zone \in DOMAIN Walkable
        BY <2>2, MovementMaps
      <3>2. Walkable[w.zone] \in Range(Walkable)
        BY ONLY <3>1 DEF Range
      <3> QED BY ONLY <2>2, <3>2
    <2> HIDE DEF w
    <2>4. to \in Places /\ to.x = w.x /\ to.zone = w.zone
      BY <1>5, <2>2, <2>3 DEF InPlace, Places
    <2>5. InPlace(to)
      BY <2>2, <2>4 DEF InPlace
    <2>6. row' = [row EXCEPT !.at = to, !.queue = <<>>]
      BY <1>1, <1>7 DEF w
    <2> HIDE DEF to
    <2>7. row' = [at |-> to, queue |-> <<>>, ack |-> row.ack]
      BY <1>3, <2>6
    <2>8. <<>> \in Seq(Entries) /\ Len(<<>>) <= QueueCap
      BY MovementBounds
    <2>9. Fit(row')
      BY <1>3, <2>5, <2>7, <2>8, FitMade
    <2>10. Piece(row'.queue, row.queue, 1)
      BY <2>7 DEF Piece
    <2> QED BY <1>1, <2>7, <2>9, <2>10
  <1>8. CASE ~warps
    <2>1. row' = [row EXCEPT !.at = at, !.queue = Tail(@)]
      BY <1>1, <1>8
    <2>2. row' = [at |-> at, queue |-> Tail(row.queue), ack |-> row.ack]
      BY <1>3, <2>1
    <2>3. /\ row'.queue \in Seq(Entries) /\ Piece(row'.queue, row.queue, 1)
          /\ Len(row.queue) = Len(row'.queue) + 1 /\ Len(row'.queue) \in Nat
      <3> DEFINE s == row.queue
                 t == row'.queue
      <3>1. s \in Seq(Entries) /\ s # <<>> /\ t = Tail(s)
        <4>1. row'.queue = Tail(row.queue)
          BY ONLY <2>2
        <4> QED BY ONLY <1>2, <1>3, <4>1
      <3> HIDE DEF s, t
      <3>2. t \in Seq(Entries) /\ Piece(t, s, 1) /\ Len(s) = Len(t) + 1 /\ Len(t) \in Nat
        BY <3>1, TailOf
      <3> QED BY <3>2 DEF s, t
    <2>4. Fit(row')
      <3>1. Len(row'.queue) <= QueueCap
        BY <1>3, <2>3, MovementBounds
      <3> QED BY <1>3, <1>5, <2>2, <2>3, <3>1, FitMade
    <2> QED BY <1>1, <2>2, <2>3, <2>4
  <1> QED BY <1>7, <1>8

LEMMA BrowserRecord ==
  ASSUME NEW c \in Browsers
  PROVE  /\ c = [page |-> c.page, conn |-> c.conn, link |-> c.link, store |-> c.store,
                 zone |-> c.zone, epoch |-> c.epoch, lastSent |-> c.lastSent,
                 predicted |-> c.predicted, queue |-> c.queue, pending |-> c.pending,
                 next |-> c.next, authLen |-> c.authLen]
         /\ c.page \in Nat /\ c.conn \in 0..MaxConns /\ c.link \in {"down", "connecting", "up"}
         /\ c.store \in Characters \cup {None} /\ c.zone \in Zones /\ c.epoch \in Nat
         /\ c.lastSent \in 0..MaxSeq /\ c.predicted \in Places \cup {None}
         /\ c.queue \in Seq(Inputs) /\ c.pending \in Seq(Steps) /\ c.next \in 0..MaxSeq
         /\ c.authLen \in Nat
  BY DEF Browsers

LEMMA OnConnection ==
  ASSUME Types, Links, Listening
  PROVE  client.conn \in Conns /\ client.conn # 0
  BY ClientTyped, MovementBounds DEF Links, Conns

LEMMA ReplayFits ==
  ASSUME NEW queue \in Seq(Inputs), Len(queue) <= QueueCap,
         NEW op, op.kind \in Kinds, Proper(op), op.kind = "Enqueue" => Len(queue) < QueueCap
  PROVE  Replay(queue, op) \in Seq(Inputs) /\ Len(Replay(queue, op)) <= QueueCap
  <1>1. op.kind \in {"Enqueue", "SetMove", "Clear"} /\ Len(queue) \in Nat
    <2>1. Len(queue) \in Nat
      OBVIOUS
    <2>2. Kinds \subseteq {"Enqueue", "SetMove", "Clear"}
      BY MovementBounds
    <2> QED BY <2>1, <2>2
  <1>2. Replay(queue, op) \in Seq(Inputs)
    BY ReplayIn
  <1>3. CASE op.kind = "Enqueue"
    <2>1. Replay(queue, op) = Append(queue, op.input) /\ Len(queue) < QueueCap
      BY <1>3 DEF Replay
    <2> QED BY <1>1, <1>2, <2>1, MovementBounds
  <1>4. CASE op.kind = "SetMove"
    <2>1. Replay(queue, op) = <<op.input>>
      BY <1>4 DEF Replay
    <2> QED BY <1>2, <2>1, MovementBounds
  <1>5. CASE op.kind = "Clear"
    <2>1. Replay(queue, op) = <<>>
      BY <1>5 DEF Replay
    <2> QED BY <1>2, <2>1, MovementBounds
  <1> QED BY <1>1, <1>3, <1>4, <1>5

(* What Send puts on its way.                                               *)
CallOf(op) == [kind |-> op.kind, input |-> op.input, seq |-> client.next + 1,
               epoch |-> client.epoch, page |-> client.page]
StepOf(op) == [kind |-> op.kind, input |-> op.input, seq |-> client.next + 1]

LEMMA SendFacts ==
  ASSUME Types, Links, NEW op \in Ops, Send(op)
  PROVE  /\ client.link = "up" /\ client.conn \in Conns /\ client.next + 1 \in 1..MaxSeq
         /\ CallOf(op) \in Calls /\ IsCall(CallOf(op)) /\ Proper(CallOf(op))
         /\ BrowserTypes(client') /\ client'.page = client.page /\ client'.conn = client.conn
         /\ client'.link = client.link /\ client'.store = client.store
         /\ client'.epoch = client.epoch /\ client'.lastSent = client.next + 1
         /\ client'.authLen = client.authLen
         /\ client'.pending = Append(client.pending, StepOf(op)) /\ StepOf(op) \in Steps
         /\ up'[client.conn] = Append(up[client.conn], CallOf(op))
         /\ up' \in [Conns -> Seq(Joins \cup Calls)]
         /\ \A d \in Conns \ {client.conn} : up'[d] = up[d]
         /\ UNCHANGED <<row, ackPage, inBattle, battles, sessions, down>>
  <1> DEFINE c == client
  <1>1. /\ c.link = "up" /\ c.next < MaxSeq
        /\ op.kind = "Enqueue" => Len(c.queue) < QueueCap
        /\ client' = [client EXCEPT !.queue = Replay(@, op), !.next = c.next + 1,
                                    !.lastSent = c.next + 1, !.pending = Append(@, StepOf(op))]
        /\ up' = [up EXCEPT ![c.conn] = Append(@, CallOf(op))]
        /\ UNCHANGED <<row, ackPage, inBattle, battles, sessions, down>>
    BY DEF Send, CallOf, StepOf
  <1>2. c.conn \in Conns
    BY <1>1, OnConnection DEF Listening
  <1>3. op.kind \in Kinds /\ op.kind # "Join" /\ Proper(op) /\ op.input \in Inputs \cup {None}
    BY MovementBounds DEF Ops, Proper
  <1>4. /\ BrowserTypes(c) /\ c \in Browsers /\ c.next \in 0..MaxSeq /\ c.lastSent \in 0..MaxSeq
        /\ c.page \in Nat /\ c.epoch \in Nat /\ c.queue \in Seq(Inputs) /\ c.pending \in Seq(Steps)
    BY ClientTyped
  <1>5. c.next + 1 \in 1..MaxSeq /\ c.next + 1 \in 0..MaxSeq
    BY <1>1, <1>4, MovementBounds, SMTT(30)
  <1>6. CallOf(op) \in Calls /\ IsCall(CallOf(op)) /\ Proper(CallOf(op))
    BY <1>3, <1>4, <1>5 DEF CallOf, Calls, IsCall, Proper
  <1>7. StepOf(op) \in Steps /\ Proper(StepOf(op))
    BY <1>3, <1>4, <1>5 DEF StepOf, Steps, Proper
  <1> DEFINE q == Replay(c.queue, op)
             p == Append(c.pending, StepOf(op))
  <1>8. q \in Seq(Inputs) /\ Len(q) <= QueueCap
    BY <1>1, <1>3, <1>4, ReplayFits DEF BrowserTypes
  <1>9. p \in Seq(Steps) /\ \A i \in 1..Len(p) : Proper(p[i])
    <2>1. /\ p \in Seq(Steps)
          /\ \A i \in 1..Len(p) : p[i] = StepOf(op) \/ (i \in 1..Len(c.pending) /\ p[i] = c.pending[i])
      BY <1>4, <1>7
    <2> QED BY <1>4, <1>7, <2>1 DEF BrowserTypes
  <1>10. client' = [page |-> c.page, conn |-> c.conn, link |-> c.link, store |-> c.store,
                 zone |-> c.zone, epoch |-> c.epoch, lastSent |-> c.next + 1,
                 predicted |-> c.predicted, queue |-> q, pending |-> p,
                 next |-> c.next + 1, authLen |-> c.authLen]
    <2> HIDE DEF c
    <2>1. c = [page |-> c.page, conn |-> c.conn, link |-> c.link, store |-> c.store,
                 zone |-> c.zone, epoch |-> c.epoch, lastSent |-> c.lastSent,
                 predicted |-> c.predicted, queue |-> c.queue, pending |-> c.pending,
                 next |-> c.next, authLen |-> c.authLen]
      BY <1>4, BrowserRecord
    <2>2. client' = [c EXCEPT !.queue = q, !.next = c.next + 1,
                              !.lastSent = c.next + 1, !.pending = p]
      BY <1>1 DEF c
    <2> HIDE DEF p, q
    <2> QED BY ONLY <2>1, <2>2
  <1> HIDE DEF p, q
  <1>11. /\ client'.page = c.page /\ client'.conn = c.conn
         /\ client'.link = c.link /\ client'.store = c.store
         /\ client'.epoch = c.epoch /\ client'.lastSent = c.next + 1
         /\ client'.authLen = c.authLen /\ client'.pending = p /\ client'.queue = q
         /\ client'.next = c.next + 1 /\ client'.predicted = c.predicted
    BY ONLY <1>10
  <1>12. client' \in Browsers
    <2> HIDE DEF c
    <2>1. /\ c.page \in Nat /\ c.conn \in 0..MaxConns /\ c.link \in {"down", "connecting", "up"}
         /\ c.store \in Characters \cup {None} /\ c.zone \in Zones /\ c.epoch \in Nat
         /\ c.predicted \in Places \cup {None} /\ c.authLen \in Nat
      BY <1>4, BrowserRecord
    <2> QED BY ONLY <1>5, <1>8, <1>9, <1>10, <2>1 DEF Browsers
  <1>13. BrowserTypes(client')
    BY <1>4, <1>5, <1>8, <1>9, <1>11, <1>12 DEF BrowserTypes
  <1>14. up \in [Conns -> Seq(Joins \cup Calls)]
    BY DEF Types
  <1>15. /\ up'[c.conn] = Append(up[c.conn], CallOf(op))
         /\ \A d \in Conns \ {c.conn} : up'[d] = up[d]
    BY <1>1, <1>2, <1>14
  <1>16. up' \in [Conns -> Seq(Joins \cup Calls)]
    BY <1>1, <1>2, <1>6, <1>14
  <1> QED BY <1>1, <1>2, <1>5, <1>6, <1>7, <1>11, <1>13, <1>15, <1>16 DEF p

LEMMA FrameFacts ==
  ASSUME Types, Frame
  PROVE  /\ client.link = "up" /\ client.queue # <<>>
         /\ BrowserTypes(client') /\ Unmoved(client, client')
         /\ client'.epoch = client.epoch /\ client'.pending = client.pending
         /\ client'.authLen = client.authLen
         /\ UNCHANGED <<row, ackPage, inBattle, battles, sessions, up, down>>
  <1> DEFINE c == client
  <1>1. PICK n \in 1..Len(c.queue) :
          client' = [client EXCEPT !.predicted = Play(@, SubSeq(c.queue, 1, n)),
                                   !.queue = SubSeq(@, n + 1, Len(@))]
    BY DEF Frame
  <1>2. /\ c.link = "up" /\ c.predicted # None
        /\ UNCHANGED <<row, ackPage, inBattle, battles, sessions, up, down>>
    BY DEF Frame
  <1>3. BrowserTypes(c) /\ c \in Browsers /\ c.queue \in Seq(Inputs) /\ Len(c.queue) \in Nat
    BY ClientTyped
  <1>4. InPlace(c.predicted) /\ Len(c.queue) <= QueueCap
    BY <1>2, <1>3 DEF BrowserTypes
  <1> DEFINE front == SubSeq(c.queue, 1, n)
             q == SubSeq(c.queue, n + 1, Len(c.queue))
             at == Play(c.predicted, front)
  <1>5. front \in Seq(Inputs) /\ q \in Seq(Inputs) /\ Len(q) <= Len(c.queue) /\ Len(q) \in Nat
    BY <1>3
  <1>6. InPlace(at)
    <2> HIDE DEF front
    <2> QED BY <1>4, <1>5, PlayIn
  <1>7. client' = [client EXCEPT !.predicted = at, !.queue = q]
    BY <1>1
  <1> HIDE DEF at, q
  <1>8. at \in Places /\ Len(q) <= QueueCap
    BY <1>3, <1>4, <1>5, <1>6, MovementBounds DEF InPlace
  <1>9. /\ client' \in Browsers /\ Unmoved(client, client') /\ client'.epoch = client.epoch
        /\ client'.pending = client.pending /\ client'.authLen = client.authLen
        /\ client'.predicted = at /\ client'.queue = q /\ client'.next = client.next
    BY <1>3, <1>5, <1>7, <1>8 DEF Browsers, Unmoved
  <1>10. BrowserTypes(client')
    BY <1>3, <1>6, <1>8, <1>9 DEF BrowserTypes, Unmoved
  <1>11. client.queue # <<>>
    BY <1>1, <1>3
  <1> QED BY <1>2, <1>9, <1>10, <1>11

LEMMA ConnectFacts ==
  ASSUME Types, Connect
  PROVE  /\ client.link = "down" /\ client.conn + 1 \in Conns
         /\ BrowserTypes(client') /\ client'.page = client.page /\ client'.conn = client.conn + 1
         /\ client'.link = "connecting" /\ client'.store = client.store
         /\ client'.epoch = client.epoch /\ client'.lastSent = client.lastSent
         /\ sessions' = sessions \cup {client.conn + 1}
         /\ down' \in Seq(Messages) /\ Len(down') = 1 /\ down'[1].kind = "snapshot" /\ down'[1].row = row
         /\ UNCHANGED <<row, ackPage, inBattle, battles, up>>
  <1> DEFINE c == client
             msg == [kind |-> "snapshot", row |-> row]
  <1>1. /\ c.link = "down" /\ c.conn < MaxConns
        /\ client' = [client EXCEPT !.conn = @ + 1, !.link = "connecting"]
        /\ sessions' = sessions \cup {c.conn + 1} /\ down' = <<msg>>
        /\ UNCHANGED <<row, ackPage, inBattle, battles, up>>
    BY DEF Connect
  <1>2. BrowserTypes(c) /\ c \in Browsers /\ c.conn \in 0..MaxConns
    BY ClientTyped
  <1>3. c.conn + 1 \in Conns /\ c.conn + 1 \in 0..MaxConns
    BY <1>1, <1>2, MovementBounds DEF Conns
  <1>4. /\ client' \in Browsers /\ client'.page = client.page /\ client'.conn = client.conn + 1
        /\ client'.link = "connecting" /\ client'.store = client.store
        /\ client'.epoch = client.epoch /\ client'.lastSent = client.lastSent
        /\ client'.next = client.next /\ client'.queue = client.queue
        /\ client'.pending = client.pending /\ client'.predicted = client.predicted
    BY <1>1, <1>2, <1>3 DEF Browsers
  <1>5. BrowserTypes(client')
    BY <1>2, <1>4 DEF BrowserTypes
  <1>6. msg \in Messages
    BY DEF Types, Fit, Messages, Snapshots
  <1>7. down' \in Seq(Messages) /\ Len(down') = 1 /\ down'[1] = msg
    BY <1>1, <1>6
  <1> QED BY <1>1, <1>3, <1>4, <1>5, <1>7

(* The line to the browser after its first message was read.                *)
Read ==
  /\ 1 \in 1..Len(down) /\ Head(down) = down[1] /\ Len(down) = Len(down') + 1
  /\ Len(down) \in Nat /\ Len(down') \in Nat /\ down' \in Seq(Messages) /\ Piece(down', down, 1)

LEMMA ReadFacts ==
  ASSUME Types, down # <<>>, down' = Tail(down)
  PROVE  Read
  <1>1. down \in Seq(Messages) /\ down # <<>> /\ down' = Tail(down)
    BY DEF Types
  <1>2. /\ down' \in Seq(Messages) /\ Len(down') \in Nat /\ Len(down) = Len(down') + 1
        /\ Piece(down', down, 1)
    BY ONLY <1>1, TailOf
  <1>3. 1 \in 1..Len(down) /\ Head(down) = down[1] /\ Len(down) \in Nat
    BY ONLY <1>1
  <1> QED BY <1>2, <1>3 DEF Read

LEMMA SnapshotFacts ==
  ASSUME Types, Links, ReceiveSnapshot
  PROVE  /\ Listening /\ client.conn \in Conns /\ Read /\ down[1].kind = "snapshot"
         /\ BrowserTypes(client') /\ client'.page = client.page /\ client'.conn = client.conn
         /\ client'.link = "up" /\ client'.store = down[1].row /\ client'.lastSent = client.lastSent
         /\ client'.epoch > client.epoch /\ client'.pending = <<>>
         /\ client'.store = None => client'.authLen = 0
         /\ client'.store # None => Agreed(client', client'.store)
         /\ up'[client.conn] = Append(up[client.conn], [kind |-> "Join"])
         /\ up' \in [Conns -> Seq(Joins \cup Calls)]
         /\ \A d \in Conns \ {client.conn} : up'[d] = up[d]
         /\ UNCHANGED <<row, ackPage, inBattle, battles, sessions>>
  <1> DEFINE e == Rebuilt(client)
             b == [e EXCEPT !.link = "up", !.store = Head(down).row]
  <1>1. /\ Listening /\ down # <<>> /\ Head(down).kind = "snapshot"
        /\ client' = ReconciledFromStore(b)
        /\ up' = [up EXCEPT ![client.conn] = Append(@, [kind |-> "Join"])]
        /\ down' = Tail(down)
        /\ UNCHANGED <<row, ackPage, inBattle, battles, sessions>>
    BY DEF ReceiveSnapshot
  <1>2. Read /\ client.conn \in Conns
    BY <1>1, ReadFacts, OnConnection
  <1>3. /\ Head(down) = down[1] /\ down[1].kind = "snapshot"
        /\ down[1].row = None \/ Fit(down[1].row)
    BY <1>1, <1>2, DownTyped DEF Read, Telltale
  <1>4. BrowserTypes(client) /\ client.epoch \in Nat
    BY ClientTyped
  <1>5. /\ BrowserTypes(e) /\ Unmoved(client, e) /\ e.epoch = client.epoch + 1
        /\ e.pending = <<>> /\ e.queue = <<>> /\ e.authLen = 0
    BY <1>4, RebuiltFacts
  <1> HIDE DEF e
  <1>6. e \in Browsers /\ down[1].row \in Characters \cup {None}
    BY <1>3, <1>5 DEF BrowserTypes, Fit
  <1>7. /\ b \in Browsers /\ b.page = e.page /\ b.conn = e.conn /\ b.lastSent = e.lastSent
        /\ b.link = "up" /\ b.store = down[1].row /\ b.epoch = e.epoch /\ b.pending = e.pending
        /\ b.queue = e.queue /\ b.authLen = e.authLen /\ b.next = e.next /\ b.predicted = e.predicted
    BY <1>3, <1>6 DEF Browsers
  <1> HIDE DEF b
  <1>8. BrowserTypes(b)
    BY <1>3, <1>5, <1>7 DEF BrowserTypes
  <1>9. /\ BrowserTypes(client') /\ Unmoved(b, client')
        /\ b.store = None => client' = b
        /\ b.store # None => Agreed(client', b.store)
        /\ b.store # None => \/ client'.epoch = b.epoch /\ Keeps(client', b, b.store.ack)
                             \/ client'.epoch = b.epoch + 1 /\ client'.pending = <<>>
    BY <1>1, <1>8, FromStoreFacts
  <1>10. client'.pending = <<>>
    <2>1. CASE b.store = None
      BY <1>5, <1>7, <1>9, <2>1
    <2>2. CASE b.store # None /\ Keeps(client', b, b.store.ack)
      <3>1. \A k \in 1..Len(client'.pending) : FALSE
        BY <1>5, <1>7, <2>2 DEF Keeps
      <3>2. client'.pending \in Seq(Steps)
        BY <1>9 DEF BrowserTypes, Browsers
      <3>3. Len(client'.pending) = 0
        BY <3>1, <3>2
      <3> QED BY <3>2, <3>3
    <2> QED BY <1>9, <2>1, <2>2
  <1>11. client'.epoch > client.epoch
    BY <1>4, <1>5, <1>7, <1>9
  <1>12. /\ client'.page = client.page /\ client'.conn = client.conn
         /\ client'.link = "up" /\ client'.store = down[1].row /\ client'.lastSent = client.lastSent
         /\ client'.store = None => client'.authLen = 0
         /\ client'.store # None => Agreed(client', client'.store)
    BY <1>5, <1>7, <1>9 DEF Unmoved
  <1>13. up \in [Conns -> Seq(Joins \cup Calls)] /\ [kind |-> "Join"] \in Joins
    BY DEF Types, Joins
  <1>14. /\ up'[client.conn] = Append(up[client.conn], [kind |-> "Join"])
         /\ \A d \in Conns \ {client.conn} : up'[d] = up[d]
    BY <1>1, <1>2, <1>13
  <1>15. up' \in [Conns -> Seq(Joins \cup Calls)]
    BY <1>1, <1>2, <1>13
  <1> QED BY <1>1, <1>2, <1>3, <1>9, <1>10, <1>11, <1>12, <1>14, <1>15

LEMMA RowsFacts ==
  ASSUME Types, Links, ReceiveRows
  PROVE  /\ client.link = "up" /\ client.conn \in Conns /\ Read /\ down[1].kind = "rows"
         /\ BrowserTypes(client') /\ client'.page = client.page /\ client'.conn = client.conn
         /\ client'.link = client.link /\ client'.store = down[1].row /\ Fit(client'.store)
         /\ client'.lastSent = client.lastSent /\ Agreed(client', client'.store)
         /\ \/ client'.epoch = client.epoch /\ Keeps(client', client, client'.store.ack)
            \/ client'.epoch = client.epoch + 1 /\ client'.pending = <<>>
         /\ UNCHANGED <<row, ackPage, inBattle, battles, sessions, up>>
  <1> DEFINE c == client
             b == [client EXCEPT !.store = Head(down).row]
  <1>1. /\ Listening /\ down # <<>> /\ Head(down).kind = "rows"
        /\ client' = ReconciledFromStore(b) /\ down' = Tail(down)
        /\ UNCHANGED <<row, ackPage, inBattle, battles, sessions, up>>
    BY DEF ReceiveRows
  <1>2. Read /\ client.conn \in Conns
    BY <1>1, ReadFacts, OnConnection
  <1>3. Head(down) = down[1] /\ down[1].kind = "rows" /\ down[1].row # None /\ Fit(down[1].row)
    BY <1>1, <1>2, DownTyped DEF Read, Telltale
  <1>4. BrowserTypes(c) /\ c \in Browsers /\ c.link \in {"down", "connecting", "up"}
    BY ClientTyped
  <1>5. c.link = "up"
    BY <1>1, <1>2, <1>3, <1>4 DEF Links, Read, Listening
  <1>6. /\ b \in Browsers /\ b.page = c.page /\ b.conn = c.conn /\ b.lastSent = c.lastSent
        /\ b.link = c.link /\ b.store = down[1].row /\ b.epoch = c.epoch /\ b.pending = c.pending
        /\ b.queue = c.queue /\ b.authLen = c.authLen /\ b.next = c.next /\ b.predicted = c.predicted
    BY <1>3, <1>4 DEF Browsers, Fit
  <1> HIDE DEF b
  <1>7. BrowserTypes(b)
    BY <1>3, <1>4, <1>6 DEF BrowserTypes
  <1>8. /\ BrowserTypes(client') /\ Unmoved(b, client')
        /\ b.store # None => Agreed(client', b.store)
        /\ b.store # None => \/ client'.epoch = b.epoch /\ Keeps(client', b, b.store.ack)
                             \/ client'.epoch = b.epoch + 1 /\ client'.pending = <<>>
    BY <1>1, <1>7, FromStoreFacts
  <1>9. client'.store = b.store
    BY <1>8 DEF Unmoved
  <1> QED BY <1>1, <1>2, <1>3, <1>5, <1>6, <1>8, <1>9 DEF Unmoved, Keeps

LEMMA RejectionFacts ==
  ASSUME Types, Links, ReceiveRejection
  PROVE  /\ client.link = "up" /\ client.conn \in Conns /\ Read /\ down[1].kind = "rejected"
         /\ BrowserTypes(client') /\ Unmoved(client, client')
         /\ client'.epoch = client.epoch =>
              /\ \A k \in 1..Len(client'.pending) :
                   /\ \E l \in 1..Len(client.pending) : client'.pending[k] = client.pending[l]
                   /\ down[1].epoch = client.epoch => client'.pending[k].seq # down[1].seq
              /\ \A l \in 1..Len(client.pending) :
                   /\ (down[1].epoch = client.epoch => client.pending[l].seq # down[1].seq)
                   /\ (client.store # None => client.pending[l].seq > client.store.ack)
                   => \E k \in 1..Len(client'.pending) : client'.pending[k] = client.pending[l]
         /\ client'.epoch # client.epoch =>
              client'.epoch = client.epoch + 1 /\ client'.pending = <<>> /\ client.store # None
         /\ \/ /\ client'.pending = client.pending /\ client'.queue = client.queue
               /\ client'.predicted = client.predicted
            \/ client.store = None
            \/ Agreed(client', client.store)
         /\ client'.authLen = client.authLen \/ (client.store # None /\ Agreed(client', client.store))
         /\ UNCHANGED <<row, ackPage, inBattle, battles, sessions, up>>
  <1>1. /\ Listening /\ down # <<>> /\ Head(down).kind = "rejected"
        /\ client' = Dropped(client, Head(down).seq, Head(down).epoch) /\ down' = Tail(down)
        /\ UNCHANGED <<row, ackPage, inBattle, battles, sessions, up>>
    BY DEF ReceiveRejection
  <1>2. Read /\ client.conn \in Conns
    BY <1>1, ReadFacts, OnConnection
  <1>3. Head(down) = down[1] /\ down[1].kind = "rejected"
    BY <1>1, <1>2 DEF Read
  <1>4. BrowserTypes(client) /\ client.link \in {"down", "connecting", "up"}
    BY ClientTyped
  <1>5. client.link = "up"
    BY <1>1, <1>2, <1>3, <1>4 DEF Links, Read, Listening
  <1>6. client' = Dropped(client, down[1].seq, down[1].epoch)
    BY <1>1, <1>3
  <1> DEFINE c == client
             d == client'
             seq == down[1].seq
             epoch == down[1].epoch
  <1>7. BrowserTypes(c) /\ d = Dropped(c, seq, epoch)
    BY <1>4, <1>6
  <1> HIDE DEF c, d, seq, epoch
  <1>8. /\ BrowserTypes(d) /\ Unmoved(c, d)
        /\ d.epoch = c.epoch =>
              /\ \A k \in 1..Len(d.pending) :
                   /\ \E l \in 1..Len(c.pending) : d.pending[k] = c.pending[l]
                   /\ epoch = c.epoch => d.pending[k].seq # seq
              /\ \A l \in 1..Len(c.pending) :
                   /\ (epoch = c.epoch => c.pending[l].seq # seq)
                   /\ (c.store # None => c.pending[l].seq > c.store.ack)
                   => \E k \in 1..Len(d.pending) : d.pending[k] = c.pending[l]
        /\ d.epoch # c.epoch => d.epoch = c.epoch + 1 /\ d.pending = <<>> /\ c.store # None
        /\ \/ d.pending = c.pending /\ d.queue = c.queue /\ d.predicted = c.predicted
           \/ c.store = None
           \/ Agreed(d, c.store)
        /\ d.authLen = c.authLen \/ (c.store # None /\ Agreed(d, c.store))
    BY <1>7, DroppedFacts, SMTT(30)
  <1> QED BY <1>1, <1>2, <1>3, <1>5, <1>8 DEF c, d, seq, epoch

LEMMA LoseFacts ==
  ASSUME Types, Links, Listening, Lose
  PROVE  /\ client.conn \in Conns /\ down' = <<>>
         /\ up' \in [Conns -> Seq(Joins \cup Calls)] /\ Piece(up'[client.conn], up[client.conn], 0)
         /\ Len(up'[client.conn]) \in Nat /\ Len(up[client.conn]) \in Nat
         /\ \A d \in Conns \ {client.conn} : up'[d] = up[d]
         /\ \A d \in Conns : \A i \in 1..Len(up'[d]) : i \in 1..Len(up[d]) /\ up'[d][i] = up[d][i]
         /\ UNCHANGED <<row, ackPage, inBattle, battles, sessions>>
  <1> DEFINE c == client.conn
             s == up[c]
             t == up'[c]
  <1>1. PICK n \in 0..Len(up[client.conn]) : up' = [up EXCEPT ![client.conn] = SubSeq(@, 1, n)]
    BY DEF Lose
  <1>2. c \in Conns /\ down' = <<>> /\ UNCHANGED <<row, ackPage, inBattle, battles, sessions>>
    BY OnConnection DEF Lose
  <1>3. up \in [Conns -> Seq(Joins \cup Calls)]
    BY DEF Types
  <1>4. t = SubSeq(s, 1, n) /\ n \in 0..Len(s) /\ s \in Seq(Joins \cup Calls) /\ Len(s) \in Nat
        /\ \A d \in Conns \ {c} : up'[d] = up[d]
    BY <1>1, <1>2, <1>3
  <1>5. t \in Seq(Joins \cup Calls) /\ Len(t) \in Nat /\ Piece(t, s, 0)
    <2> HIDE DEF s, t
    <2>1. t \in Seq(Joins \cup Calls) /\ Len(t) = n /\ Piece(t, s, 0)
      BY <1>4, FrontOf
    <2> QED BY <2>1, <1>4
  <1>6. up' \in [Conns -> Seq(Joins \cup Calls)]
    BY <1>1, <1>2, <1>3, <1>5
  <1>7. \A d \in Conns : \A i \in 1..Len(up'[d]) : i \in 1..Len(up[d]) /\ up'[d][i] = up[d][i]
    <2> TAKE d \in Conns
    <2>1. CASE d = c
      <3>1. \A i \in 1..Len(t) : i + 0 \in 1..Len(s) /\ t[i] = s[i + 0] /\ i + 0 = i
        BY <1>5 DEF Piece
      <3> QED BY <3>1, <2>1
    <2>2. CASE d # c
      BY <1>4, <2>2
    <2> QED BY <2>1, <2>2
  <1> QED BY <1>2, <1>4, <1>5, <1>6, <1>7

LEMMA DropFacts ==
  ASSUME Types, Drop
  PROVE  /\ Listening /\ Lose /\ BrowserTypes(client') /\ client'.page = client.page
         /\ client'.conn = client.conn /\ client'.link = "down" /\ client'.store = None
         /\ client'.epoch = client.epoch /\ client'.lastSent = client.lastSent
  <1>1. Listening /\ Lose /\ client' = [client EXCEPT !.link = "down", !.store = None]
    BY DEF Drop
  <1>2. BrowserTypes(client) /\ client \in Browsers
    BY ClientTyped
  <1>3. /\ client' \in Browsers /\ client'.page = client.page
        /\ client'.conn = client.conn /\ client'.link = "down" /\ client'.store = None
        /\ client'.epoch = client.epoch /\ client'.lastSent = client.lastSent
        /\ client'.next = client.next /\ client'.queue = client.queue
        /\ client'.pending = client.pending /\ client'.predicted = client.predicted
    BY <1>1, <1>2 DEF Browsers
  <1>4. BrowserTypes(client')
    BY <1>2, <1>3 DEF BrowserTypes
  <1> QED BY <1>1, <1>3, <1>4

LEMMA PageTyped ==
  ASSUME NEW p \in Nat, NEW c \in 0..MaxConns, NEW e \in Nat
  PROVE  BrowserTypes(Page(p, c, e))
  <1> DEFINE b == Page(p, c, e)
  <1>1. /\ Spawn.zone \in Zones /\ <<>> \in Seq(Inputs) /\ <<>> \in Seq(Steps) /\ 0 \in 0..MaxSeq
        /\ Len(<<>>) = 0 /\ 0 <= QueueCap
    BY MovementMaps, MovementBounds
  <1>2. /\ b \in Browsers
    BY <1>1 DEF Page, Browsers
  <1>3. /\ b.store = None /\ b.predicted = None /\ b.queue = <<>> /\ b.pending = <<>>
        /\ b.lastSent = 0 /\ b.next = 0
    BY DEF Page
  <1> HIDE DEF b
  <1>4. BrowserTypes(b)
    BY <1>1, <1>2, <1>3 DEF BrowserTypes
  <1> QED BY <1>4 DEF b

LEMMA ReloadFacts ==
  ASSUME Types, Reload
  PROVE  /\ Listening /\ Lose /\ BrowserTypes(client') /\ client'.page = client.page + 1
         /\ client'.conn = client.conn /\ client'.link = "down" /\ client'.store = None
         /\ client'.epoch = client.epoch + 1 /\ client'.lastSent = 0
  <1>1. Listening /\ Lose /\ client' = Page(client.page + 1, client.conn, client.epoch + 1)
    BY DEF Reload
  <1>2. client.page + 1 \in Nat /\ client.conn \in 0..MaxConns /\ client.epoch + 1 \in Nat
    BY ClientTyped
  <1>3. BrowserTypes(client')
    BY <1>1, <1>2, PageTyped
  <1> QED BY <1>1, <1>3 DEF Page

LEMMA DisconnectFacts ==
  ASSUME Links, NEW c \in Conns, OnDisconnect(c)
  PROVE  /\ c \in sessions /\ sessions' = sessions \ {c}
         /\ Listening => c # client.conn /\ UNCHANGED <<row, inBattle>>
         /\ (row' = None /\ inBattle' = FALSE) \/ UNCHANGED <<row, inBattle>>
         /\ UNCHANGED <<ackPage, battles, up, down, client>>
  <1>1. /\ c \in sessions /\ (c = client.conn => client.link = "down")
        /\ sessions' = sessions \ {c}
        /\ IF sessions' # {} THEN UNCHANGED <<row, inBattle>>
           ELSE row' = None /\ inBattle' = FALSE
        /\ UNCHANGED <<ackPage, battles, up, down, client>>
    BY DEF OnDisconnect
  <1>2. ASSUME Listening PROVE c # client.conn /\ UNCHANGED <<row, inBattle>>
    <2>1. client.conn \in sessions /\ c # client.conn
      BY <1>1, <1>2 DEF Links, Listening
    <2>2. client.conn \in sessions'
      BY <1>1, <2>1
    <2> QED BY <1>1, <2>1, <2>2
  <1> QED BY <1>1, <1>2

LEMMA JoinFacts ==
  ASSUME Types, NEW c \in Conns, JoinGame(c)
  PROVE  /\ Called(c, [kind |-> "Join"])
         /\ \/ row # None /\ UNCHANGED <<row, down>>
            \/ /\ row = None /\ Fit(row') /\ row'.ack = 0 /\ row'.queue = <<>>
               /\ down' = Telling(Rows(row'))
         /\ UNCHANGED <<ackPage, inBattle, battles, sessions, client>>
  <1> DEFINE new == [at |-> Spawn, queue |-> <<>>, ack |-> 0]
  <1>1. /\ Called(c, [kind |-> "Join"])
        /\ IF row # None THEN UNCHANGED <<row, down>>
           ELSE row' = new /\ down' = Telling(Rows(new))
        /\ UNCHANGED <<ackPage, inBattle, battles, sessions, client>>
    BY DEF JoinGame
  <1>2. CASE row # None
    BY <1>1, <1>2
  <1>3. CASE row = None
    <2>1. row' = new /\ down' = Telling(Rows(row'))
      BY <1>1, <1>3
    <2>2. Fit(row')
      BY <2>1, SpawnFit
    <2>3. row'.ack = 0 /\ row'.queue = <<>>
      BY <2>1
    <2> QED BY <1>1, <1>3, <2>1, <2>2, <2>3
  <1> QED BY <1>2, <1>3

Rejected(call) == [kind |-> "rejected", seq |-> call.seq, epoch |-> call.epoch]

LEMMA MoveFacts ==
  ASSUME Types, NEW c \in Conns, NEW call, Move(c, call)
  PROVE  /\ Called(c, call) /\ call \in Calls /\ IsCall(call) /\ Proper(call)
         /\ \/ /\ row # None /\ call.seq > row.ack /\ (call.kind # "Clear" => ~inBattle)
               /\ Fit(row') /\ row'.at = row.at /\ row'.ack = call.seq
               /\ Queued(row'.queue, row.queue, call)
               /\ call.kind = "Clear" => row'.queue = <<>>
               /\ ackPage' = call.page /\ down' = Telling(Rows(row'))
            \/ /\ UNCHANGED <<row, ackPage>>
               /\ down' = IF c = client.conn THEN Telling(Rejected(call)) ELSE down
         /\ UNCHANGED <<inBattle, battles, sessions, client>>
  <1> DEFINE entry == [kind |-> call.kind,
                       input |-> [input |-> call.input, epoch |-> call.epoch, seq |-> call.seq]]
             next == [row EXCEPT !.queue = Replay(@, entry), !.ack = call.seq]
  <1>1. /\ Called(c, call) /\ call.kind # "Join" /\ UNCHANGED <<inBattle, battles, sessions, client>>
        /\ IF Accepts(call) THEN row' = next /\ down' = Telling(Rows(next)) /\ ackPage' = call.page
           ELSE /\ down' = IF c = client.conn THEN Telling(Rejected(call)) ELSE down
                /\ UNCHANGED <<row, ackPage>>
    BY DEF Move, Rejected
  <1>2. call = up[c][1] /\ 1 \in 1..Len(up[c])
    BY <1>1, CalledFacts
  <1>3. IsCall(call) /\ call \in Calls /\ Proper(call)
    BY <1>1, <1>2, CallsTyped DEF IsCall
  <1>4. CASE ~Accepts(call)
    BY <1>1, <1>3, <1>4
  <1>5. CASE Accepts(call)
    <2>1. /\ row # None /\ call.seq > row.ack
          /\ call.kind # "Clear" => ~inBattle
          /\ call.kind = "Enqueue" => Len(row.queue) < QueueCap
      BY <1>5 DEF Accepts
    <2>2. Fit(row)
      BY <2>1 DEF Types
    <2>3. row' = next /\ down' = Telling(Rows(row')) /\ ackPage' = call.page
      BY <1>1, <1>5
    <2> DEFINE q == Replay(row.queue, entry)
    <2>4. entry.kind = call.kind
          /\ entry.input = [input |-> call.input, epoch |-> call.epoch, seq |-> call.seq]
      OBVIOUS
    <2> HIDE DEF entry
    <2>5. /\ q \in Seq(Entries) /\ Len(q) <= QueueCap /\ Queued(q, row.queue, call)
          /\ call.kind = "Clear" => q = <<>>
      BY ONLY <1>3, <2>1, <2>2, <2>4, AcceptedFacts
    <2>6. /\ InPlace(row.at) /\ row = [at |-> row.at, queue |-> row.queue, ack |-> row.ack]
      BY <2>2, FitTyped
    <2>7. row' = [row EXCEPT !.queue = q, !.ack = call.seq]
      BY <2>3
    <2> HIDE DEF q, next
    <2>8. row' = [at |-> row.at, queue |-> q, ack |-> call.seq]
      BY ONLY <2>6, <2>7
    <2>9. call.seq \in 0..MaxSeq
      BY <1>3 DEF Calls
    <2>10. Fit(row')
      BY <2>5, <2>6, <2>8, <2>9, FitMade
    <2>11. row'.at = row.at /\ row'.queue = q /\ row'.ack = call.seq
      BY ONLY <2>8
    <2> QED BY <1>1, <1>3, <2>1, <2>3, <2>5, <2>10, <2>11
  <1> QED BY <1>4, <1>5

LEMMA TypesInit == MovementInit => Types /\ Links
  <1> SUFFICES ASSUME MovementInit PROVE Types /\ Links
    OBVIOUS
  <1>1. /\ row = None /\ ackPage = 1 /\ sessions = {} /\ up = [c \in Conns |-> <<>>] /\ down = <<>>
        /\ client = Page(1, 0, 1)
    BY DEF MovementInit
  <1>2. BrowserTypes(client)
    BY <1>1, PageTyped, MovementBounds
  <1>3. up \in [Conns -> Seq(Joins \cup Calls)] /\ \A c \in Conns : up[c] = <<>> /\ Len(up[c]) = 0
    BY <1>1
  <1>4. down \in Seq(Messages) /\ Len(down) = 0
    BY <1>1
  <1>5. Types
    BY <1>1, <1>2, <1>3, <1>4 DEF Types
  <1>6. client.link = "down" /\ client.store = None
    BY <1>1 DEF Page
  <1>7. Links
    BY <1>1, <1>3, <1>6 DEF Links, Listening
  <1> QED BY <1>5, <1>7

(* The queue to the browser and the rows, after what the server does.       *)
LEMMA RowTold ==
  ASSUME Types, NEW r, Fit(r), NEW d, d = Telling(Rows(r))
  PROVE  /\ d \in Seq(Messages) /\ Len(d) \in Nat /\ Len(down) \in Nat
         /\ Listening => Ends(d, Rows(r))
         /\ ~Listening => d = down
         /\ \A i \in 1..Len(d) : Telltale(d[i]) => d[i].row = None \/ Fit(d[i].row)
  <1>1. Rows(r) \in Messages /\ Rows(r).row = r
    BY RowsTyped
  <1> QED BY <1>1, TellFacts

LEMMA RejectionTold ==
  ASSUME Types, NEW call \in Calls, NEW d, d = Telling(Rejected(call))
  PROVE  /\ d \in Seq(Messages) /\ Len(d) \in Nat /\ Len(down) \in Nat
         /\ Listening => Ends(d, Rejected(call))
         /\ ~Listening => d = down
         /\ \A i \in 1..Len(d) : Telltale(d[i]) => d[i].row = None \/ Fit(d[i].row)
  <1>1. Rejected(call) \in Messages /\ ~Telltale(Rejected(call))
    BY DEF Rejected, Calls, Messages, Rejections, Telltale
  <1> QED BY <1>1, TellFacts

-----------------------------------------------------------------------------
(* The types are kept.                                                      *)

LEMMA TypesStep ==
  ASSUME Types, Links, MovementNext \/ UNCHANGED movementVars
  PROVE  Types'
  <1>1. ASSUME NEW op \in Ops, Send(op) PROVE Types'
    <2>1. up'[client.conn] = Append(up[client.conn], CallOf(op)) /\ client.conn \in Conns
          /\ CallOf(op) \in Calls /\ Proper(CallOf(op))
          /\ (\A d \in Conns \ {client.conn} : up'[d] = up[d])
          /\ UNCHANGED <<row, ackPage, down>> /\ BrowserTypes(client')
          /\ up' \in [Conns -> Seq(Joins \cup Calls)]
      BY <1>1, SendFacts
    <2>2. \A d \in Conns : \A i \in 1..Len(up'[d]) : IsCall(up'[d][i]) => Proper(up'[d][i])
      <3> TAKE d \in Conns
      <3>1. up[d] \in Seq(Joins \cup Calls) /\ \A i \in 1..Len(up[d]) : IsCall(up[d][i]) => Proper(up[d][i])
        BY CallsTyped
      <3>2. CASE d = client.conn
        <4>1. \A i \in 1..Len(up'[d]) : up'[d][i] = CallOf(op) \/ (i \in 1..Len(up[d]) /\ up'[d][i] = up[d][i])
          BY <2>1, <3>1, <3>2
        <4> QED BY <2>1, <3>1, <4>1
      <3>3. CASE d # client.conn
        BY <2>1, <3>1, <3>3
      <3> QED BY <3>2, <3>3
    <2> QED BY <2>1, <2>2 DEF Types
  <1>2. ASSUME Frame PROVE Types'
    BY <1>2, FrameFacts DEF Types
  <1>3. ASSUME Connect PROVE Types'
    <2>1. /\ BrowserTypes(client') /\ UNCHANGED <<row, ackPage, up>>
          /\ down' \in Seq(Messages) /\ Len(down') = 1 /\ down'[1].row = row
      BY <1>3, ConnectFacts
    <2>2. \A i \in 1..Len(down') : down'[i].row = None \/ Fit(down'[i].row)
      BY <2>1 DEF Types
    <2> QED BY <2>1, <2>2 DEF Types
  <1>4. ASSUME ReceiveSnapshot PROVE Types'
    <2>1. up'[client.conn] = Append(up[client.conn], [kind |-> "Join"]) /\ client.conn \in Conns
          /\ (\A d \in Conns \ {client.conn} : up'[d] = up[d]) /\ Read
          /\ UNCHANGED <<row, ackPage>> /\ BrowserTypes(client')
          /\ up' \in [Conns -> Seq(Joins \cup Calls)]
      BY <1>4, SnapshotFacts
    <2>2. \A d \in Conns : \A i \in 1..Len(up'[d]) : IsCall(up'[d][i]) => Proper(up'[d][i])
      <3> TAKE d \in Conns
      <3>1. up[d] \in Seq(Joins \cup Calls) /\ \A i \in 1..Len(up[d]) : IsCall(up[d][i]) => Proper(up[d][i])
        BY CallsTyped
      <3>2. CASE d = client.conn
        <4>1. [kind |-> "Join"] \in Joins \cup Calls
          BY DEF Joins
        <4>2. \A i \in 1..Len(up'[d]) : up'[d][i].kind = "Join" \/ (i \in 1..Len(up[d]) /\ up'[d][i] = up[d][i])
          BY <2>1, <3>1, <3>2, <4>1, SMTT(30)
        <4> QED BY <2>1, <3>1, <4>2 DEF IsCall
      <3>3. CASE d # client.conn
        BY <2>1, <3>1, <3>3
      <3> QED BY <3>2, <3>3
    <2> QED BY <2>1, <2>2, DownTyped DEF Types, Read, Piece
  <1>5. ASSUME ReceiveRows PROVE Types'
    <2>1. Read /\ BrowserTypes(client') /\ UNCHANGED <<row, ackPage, up>>
      BY <1>5, RowsFacts
    <2> QED BY <2>1, DownTyped DEF Types, Read, Piece
  <1>6. ASSUME ReceiveRejection PROVE Types'
    <2>1. Read /\ BrowserTypes(client') /\ UNCHANGED <<row, ackPage, up>>
      BY <1>6, RejectionFacts
    <2> QED BY <2>1, DownTyped DEF Types, Read, Piece
  <1>7. ASSUME Drop PROVE Types'
    <2>1. Listening /\ Lose /\ BrowserTypes(client')
      BY <1>7, DropFacts
    <2>2. /\ down' = <<>> /\ up' \in [Conns -> Seq(Joins \cup Calls)]
          /\ \A d \in Conns : \A i \in 1..Len(up'[d]) : i \in 1..Len(up[d]) /\ up'[d][i] = up[d][i]
          /\ UNCHANGED <<row, ackPage>>
      BY <2>1, LoseFacts
    <2>3. \A d \in Conns : \A i \in 1..Len(up'[d]) : IsCall(up'[d][i]) => Proper(up'[d][i])
      BY <2>2, CallsTyped
    <2> QED BY <2>1, <2>2, <2>3 DEF Types
  <1>8. ASSUME Reload PROVE Types'
    <2>1. Listening /\ Lose /\ BrowserTypes(client')
      BY <1>8, ReloadFacts
    <2>2. /\ down' = <<>> /\ up' \in [Conns -> Seq(Joins \cup Calls)]
          /\ \A d \in Conns : \A i \in 1..Len(up'[d]) : i \in 1..Len(up[d]) /\ up'[d][i] = up[d][i]
          /\ UNCHANGED <<row, ackPage>>
      BY <2>1, LoseFacts
    <2>3. \A d \in Conns : \A i \in 1..Len(up'[d]) : IsCall(up'[d][i]) => Proper(up'[d][i])
      BY <2>2, CallsTyped
    <2> QED BY <2>1, <2>2, <2>3 DEF Types
  <1>9. ASSUME NEW c \in Conns, OnDisconnect(c) PROVE Types'
    BY <1>9, DisconnectFacts DEF Types
  <1>10. ASSUME NEW c \in Conns, JoinGame(c) PROVE Types'
    <2>1. /\ \/ UNCHANGED <<row, down>>
             \/ Fit(row') /\ down' = Telling(Rows(row'))
          /\ UNCHANGED <<ackPage, client>>
      BY <1>10, JoinFacts
    <2>2. /\ up' \in [Conns -> Seq(Joins \cup Calls)]
          /\ \A d \in Conns : \A i \in 1..Len(up'[d]) : IsCall(up'[d][i]) => Proper(up'[d][i])
      <3>1. Called(c, [kind |-> "Join"])
        BY <1>10, JoinFacts
      <3> QED BY <3>1, CalledFacts
    <2>3. /\ down' \in Seq(Messages)
          /\ \A i \in 1..Len(down') : Telltale(down'[i]) => down'[i].row = None \/ Fit(down'[i].row)
      BY <2>1, RowTold DEF Types
    <2> QED BY <2>1, <2>2, <2>3 DEF Types
  <1>11. ASSUME NEW c \in Conns, NEW call, Move(c, call) PROVE Types'
    <2>1. /\ \/ Fit(row') /\ ackPage' = call.page /\ down' = Telling(Rows(row'))
             \/ UNCHANGED <<row, ackPage>> /\ down' = Telling(Rejected(call))
             \/ UNCHANGED <<row, ackPage, down>>
          /\ client' = client /\ call \in Calls /\ call.page \in Nat
      BY <1>11, MoveFacts DEF Calls
    <2>2. /\ up' \in [Conns -> Seq(Joins \cup Calls)]
          /\ \A d \in Conns : \A i \in 1..Len(up'[d]) : IsCall(up'[d][i]) => Proper(up'[d][i])
      BY <1>11, MoveFacts, CalledFacts
    <2>3. /\ down' \in Seq(Messages)
          /\ \A i \in 1..Len(down') : Telltale(down'[i]) => down'[i].row = None \/ Fit(down'[i].row)
      BY <2>1, RowTold, RejectionTold DEF Types
    <2> QED BY <2>1, <2>2, <2>3 DEF Types
  <1>12. ASSUME MovementTick PROVE Types'
    <2>1. Fit(row') /\ down' = Telling(Rows(row')) /\ UNCHANGED <<ackPage, up, client>>
      BY <1>12, TickFacts DEF Types
    <2>2. /\ down' \in Seq(Messages)
          /\ \A i \in 1..Len(down') : Telltale(down'[i]) => down'[i].row = None \/ Fit(down'[i].row)
      BY <2>1, RowTold
    <2> QED BY <2>1, <2>2 DEF Types
  <1>13. ASSUME UNCHANGED <<row, ackPage, sessions, up, down, client>> PROVE Types'
    BY <1>13 DEF Types
  <1> QED BY <1>1, <1>2, <1>3, <1>4, <1>5, <1>6, <1>7, <1>8, <1>9, <1>10, <1>11, <1>12, <1>13 DEF MovementNext, Serve, Challenged, BattleOver, movementVars

-----------------------------------------------------------------------------
(* Connections and what is on their lines.                                  *)

LEMMA LinksStep ==
  ASSUME Types, Links, MovementNext \/ UNCHANGED movementVars
  PROVE  Links'
  <1>1. ASSUME NEW op \in Ops, Send(op) PROVE Links'
    <2>1. /\ client.link = "up" /\ client'.conn = client.conn /\ client'.link = client.link /\ client.conn \in Conns
          /\ (\A d \in Conns \ {client.conn} : up'[d] = up[d]) /\ UNCHANGED <<sessions, down>>
      BY <1>1, SendFacts
    <2>2. \A c \in Conns : c > client.conn => up'[c] = <<>>
      BY <2>1, ClientTyped DEF Links, Conns
    <2> QED BY <2>1, <2>2 DEF Links, Listening
  <1>2. ASSUME Frame PROVE Links'
    <2>1. /\ client.link = "up" /\ client'.conn = client.conn /\ client'.link = client.link
          /\ UNCHANGED <<sessions, down, up>>
      BY <1>2, FrameFacts DEF Unmoved
    <2> QED BY <2>1 DEF Links, Listening
  <1>3. ASSUME Connect PROVE Links'
    <2>1. /\ client.link = "down" /\ client.conn + 1 \in Conns
          /\ client'.conn = client.conn + 1 /\ client'.link = "connecting" /\ client'.store = client.store
          /\ sessions' = sessions \cup {client.conn + 1}
          /\ Len(down') = 1 /\ down'[1].kind = "snapshot" /\ down' \in Seq(Messages) /\ up' = up
      BY <1>3, ConnectFacts
    <2>2. client.conn \in Nat /\ down' # <<>>
      <3>1. client.conn \in 0..MaxConns
        BY ClientTyped
      <3>2. Len(down') = 1
        BY <2>1
      <3> QED BY <3>1, <3>2
    <2>3. sessions' \subseteq 1..client'.conn /\ client'.conn \in sessions'
      <3>1. sessions \subseteq 1..client.conn /\ 1..client.conn \subseteq 1..(client.conn + 1)
        BY <2>2 DEF Links
      <3>2. client.conn + 1 \in 1..(client.conn + 1)
        BY <2>2
      <3>3. client'.conn = client.conn + 1 /\ sessions' = sessions \cup {client.conn + 1}
        BY <2>1
      <3> QED BY <3>1, <3>2, <3>3
    <2>4. \A c \in Conns : c > client.conn => up'[c] = <<>>
      BY <2>1 DEF Links
    <2>5. \A i \in 1..Len(down') : down'[i].kind = IF i = 1 THEN "snapshot" ELSE "rows"
      BY <2>1
    <2>6. up'[client'.conn] = <<>> /\ \A c \in Conns : c > client'.conn => up'[c] = <<>>
      BY <2>1, <2>2, <2>4 DEF Conns
    <2>7. client'.store = None
      BY <2>1 DEF Links
    <2> QED BY <2>1, <2>2, <2>3, <2>5, <2>6, <2>7 DEF Links
  <1>4. ASSUME ReceiveSnapshot PROVE Links'
    <2>1. /\ Read /\ Listening /\ client'.conn = client.conn /\ client'.link = "up" /\ client.conn \in Conns
          /\ (\A d \in Conns \ {client.conn} : up'[d] = up[d]) /\ UNCHANGED sessions
          /\ down[1].kind = "snapshot"
      BY <1>4, SnapshotFacts
    <2>2. \A i \in 1..Len(down') : down'[i].kind \in {"rows", "rejected"}
      <3>1. client.link = "connecting"
        BY <2>1, ClientTyped DEF Links, Listening, Read
      <3>2. \A i \in 1..Len(down') : i + 1 \in 1..Len(down) /\ down'[i] = down[i + 1] /\ i + 1 # 1
        BY <2>1 DEF Read, Piece
      <3> QED BY <3>1, <3>2 DEF Links
    <2>3. \A c \in Conns : c > client.conn => up'[c] = <<>>
      BY <2>1, ClientTyped DEF Links, Conns
    <2> QED BY <2>1, <2>2, <2>3 DEF Links, Listening
  <1>5. ASSUME ReceiveRows PROVE Links'
    <2>1. /\ Read /\ client.link = "up" /\ client'.conn = client.conn /\ client'.link = client.link
          /\ client'.page = client.page /\ UNCHANGED <<sessions, up>>
      BY <1>5, RowsFacts DEF Unmoved
    <2> QED BY <2>1 DEF Links, Listening, Read, Piece
  <1>6. ASSUME ReceiveRejection PROVE Links'
    <2>1. /\ Read /\ client.link = "up" /\ client'.conn = client.conn /\ client'.link = client.link
          /\ client'.page = client.page /\ UNCHANGED <<sessions, up>>
      BY <1>6, RejectionFacts DEF Unmoved
    <2> QED BY <2>1 DEF Links, Listening, Read, Piece
  <1>7. ASSUME Drop PROVE Links'
    <2>1. /\ Listening /\ Lose /\ client'.conn = client.conn /\ client'.link = "down" /\ client'.store = None
      BY <1>7, DropFacts
    <2>2. /\ down' = <<>> /\ client.conn \in Conns /\ UNCHANGED sessions
          /\ \A d \in Conns \ {client.conn} : up'[d] = up[d]
      BY <2>1, LoseFacts
    <2>3. \A c \in Conns : c > client.conn => up'[c] = <<>>
      BY <2>2, ClientTyped DEF Links, Conns
    <2> QED BY <2>1, <2>2, <2>3 DEF Links, Listening
  <1>8. ASSUME Reload PROVE Links'
    <2>1. /\ Listening /\ Lose /\ client'.conn = client.conn /\ client'.link = "down" /\ client'.store = None
      BY <1>8, ReloadFacts
    <2>2. /\ down' = <<>> /\ client.conn \in Conns /\ UNCHANGED sessions
          /\ \A d \in Conns \ {client.conn} : up'[d] = up[d]
      BY <2>1, LoseFacts
    <2>3. \A c \in Conns : c > client.conn => up'[c] = <<>>
      BY <2>2, ClientTyped DEF Links, Conns
    <2> QED BY <2>1, <2>2, <2>3 DEF Links, Listening
  <1>9. ASSUME NEW c \in Conns, OnDisconnect(c) PROVE Links'
    <2>1. /\ sessions' = sessions \ {c} /\ (Listening => c # client.conn)
          /\ UNCHANGED <<up, down, client>>
      BY <1>9, DisconnectFacts
    <2> QED BY <2>1 DEF Links, Listening
  <1>10. ASSUME NEW c \in Conns, JoinGame(c) PROVE Links'
    <2>1. /\ Called(c, [kind |-> "Join"])
          /\ \/ UNCHANGED <<row, down>>
             \/ Fit(row') /\ down' = Telling(Rows(row'))
          /\ UNCHANGED <<sessions, client>>
      BY <1>10, JoinFacts
    <2>2. /\ up[c] # <<>> /\ \A d \in Conns \ {c} : up'[d] = up[d]
      <3>1. Len(up[c]) # 0 /\ \A d \in Conns \ {c} : up'[d] = up[d]
        BY <2>1, CalledFacts
      <3> QED BY <3>1
    <2>3. /\ \A d \in Conns : d > client.conn => up'[d] = <<>>
          /\ client.link = "connecting" => c # client.conn
      BY <2>2 DEF Links
    <2>4. client.link = "connecting" => up'[client.conn] = up[client.conn]
      BY <2>2, <2>3, OnConnection DEF Listening
    <2>5. \/ UNCHANGED down
          \/ Listening /\ Ends(down', Rows(row'))
      BY <2>1, RowTold
    <2> QED BY <2>1, <2>3, <2>4, <2>5, DownTyped DEF Links, Listening, Ends, Rows
  <1>11. ASSUME NEW c \in Conns, NEW call, Move(c, call) PROVE Links'
    <2>1. /\ Called(c, call) /\ UNCHANGED <<sessions, client>> /\ call \in Calls
          /\ \/ Fit(row') /\ down' = Telling(Rows(row'))
             \/ c = client.conn /\ down' = Telling(Rejected(call))
             \/ UNCHANGED down
      BY <1>11, MoveFacts
    <2>2. /\ up[c] # <<>> /\ \A d \in Conns \ {c} : up'[d] = up[d]
      <3>1. Len(up[c]) # 0 /\ \A d \in Conns \ {c} : up'[d] = up[d]
        BY <2>1, CalledFacts
      <3> QED BY <3>1
    <2>3. /\ \A d \in Conns : d > client.conn => up'[d] = <<>>
          /\ client.link = "connecting" => c # client.conn
      BY <2>2 DEF Links
    <2>4. client.link = "connecting" => up'[client.conn] = up[client.conn]
      BY <2>2, <2>3, OnConnection DEF Listening
    <2>5. \/ UNCHANGED down
          \/ Listening /\ Ends(down', Rows(row'))
          \/ Listening /\ c = client.conn /\ Ends(down', Rejected(call))
      BY <2>1, RowTold, RejectionTold
    <2> QED BY <2>1, <2>3, <2>4, <2>5, DownTyped DEF Links, Listening, Ends, Rows, Rejected
  <1>12. ASSUME MovementTick PROVE Links'
    <2>1. Fit(row') /\ down' = Telling(Rows(row')) /\ UNCHANGED <<sessions, up, client>>
      BY <1>12, TickFacts DEF Types
    <2>2. \/ UNCHANGED down
          \/ Listening /\ Ends(down', Rows(row'))
      BY <2>1, RowTold
    <2> QED BY <2>1, <2>2, DownTyped DEF Links, Listening, Ends, Rows
  <1>13. ASSUME UNCHANGED <<row, ackPage, sessions, up, down, client>> PROVE Links'
    BY <1>13 DEF Links, Listening
  <1> QED BY <1>1, <1>2, <1>3, <1>4, <1>5, <1>6, <1>7, <1>8, <1>9, <1>10, <1>11, <1>12, <1>13 DEF MovementNext, Serve, Challenged, BattleOver, movementVars

-----------------------------------------------------------------------------
(* What the browser knows of the row.                                       *)

LEMMA AckTyped == Types => /\ Ack(row) \in Nat /\ Ack(client.store) \in Nat
                           /\ \A i \in 1..Len(down) : Telltale(down[i]) => Ack(down[i].row) \in Nat
  <1> SUFFICES ASSUME Types
               PROVE  /\ Ack(row) \in Nat /\ Ack(client.store) \in Nat
                      /\ \A i \in 1..Len(down) : Telltale(down[i]) => Ack(down[i].row) \in Nat
    OBVIOUS
  <1>1. \A r : r = None \/ Fit(r) => Ack(r) \in Nat
    BY FitTyped DEF Ack
  <1> QED BY <1>1, DownTyped, ClientTyped DEF Types

(* The first message read: what is left is as it was, one place earlier.    *)
LEMMA KnownRead ==
  ASSUME Types, Links, Known, Listening, Read, row' = row, client'.link = "up",
         Telltale(down[1]) => client'.store = down[1].row,
         ~Telltale(down[1]) => client'.store = client.store /\ client.link = "up"
  PROVE  Known'
  <1>1. /\ Len(down) \in Nat /\ Len(down') \in Nat /\ Len(down) = Len(down') + 1 /\ 1 \in 1..Len(down)
        /\ \A i \in 1..Len(down') : i + 1 \in 1..Len(down) /\ down'[i] = down[i + 1]
    BY DEF Read, Piece
  <1>2. \A i \in 1..Len(down') : Telltale(down'[i]) =>
          /\ Ack(client'.store) <= Ack(down'[i].row)
          /\ Ack(down'[i].row) <= Ack(row)
          /\ \A j \in i..Len(down') : Telltale(down'[j]) => Ack(down'[i].row) <= Ack(down'[j].row)
    <2> TAKE i \in 1..Len(down')
    <2> HAVE Telltale(down'[i])
    <2>1. i + 1 \in 1..Len(down) /\ i + 1 \in 1..Len(down) /\ down'[i] = down[i + 1] /\ Telltale(down[i + 1])
      BY <1>1
    <2>2. Ack(down[i + 1].row) <= Ack(row) /\ Ack(client.store) <= Ack(down[i + 1].row)
      BY <2>1 DEF Known
    <2>3. Telltale(down[1]) => Ack(down[1].row) <= Ack(down[i + 1].row)
      BY <1>1, <2>1 DEF Known
    <2>4. ASSUME NEW j \in i..Len(down'), Telltale(down'[j])
          PROVE  Ack(down[i + 1].row) <= Ack(down'[j].row)
      <3>1. j \in 1..Len(down') /\ j + 1 \in (i + 1)..Len(down)
        BY <1>1
      <3>2. down'[j] = down[j + 1]
        BY <1>1, <3>1
      <3> QED BY <2>1, <2>4, <3>1, <3>2 DEF Known
    <2> QED BY <2>1, <2>2, <2>3, <2>4
  <1>3. Ack(client'.store) <= Ack(row)
    BY <1>1 DEF Known
  <1>4. row = None => client'.store = None /\ \A i \in 1..Len(down') : down'[i].kind # "rows"
    <2> HAVE row = None
    <2>1. client.store = None /\ \A i \in 1..Len(down) : down[i].kind # "rows"
      BY DEF Known
    <2>2. ASSUME Telltale(down[1]) PROVE down[1].row = None
      <3>1. PICK k \in 1..Len(down) : /\ Telltale(down[k]) /\ down[k].row = row
                                      /\ \A i \in (k+1)..Len(down) : ~Telltale(down[i])
        BY <1>1, <2>2 DEF Known
      <3>2. \A i \in 1..Len(down) : Telltale(down[i]) => down[i].kind = "snapshot"
        BY <2>1, DownTyped DEF Telltale
      <3>3. client.link = "connecting"
        BY <1>1, <2>2, <3>2, ClientTyped DEF Links, Listening
      <3>4. k = 1
        BY <2>1, <3>1, <3>3 DEF Links
      <3> QED BY <3>1, <3>4
    <2> QED BY <1>1, <2>1, <2>2
  <1>5. \/ \E k \in 1..Len(down') : /\ Telltale(down'[k]) /\ down'[k].row = row
                                    /\ \A i \in (k+1)..Len(down') : ~Telltale(down'[i])
        \/ /\ client'.store = row
           /\ \A i \in 1..Len(down') : ~Telltale(down'[i])
    <2>1. CASE \E k \in 1..Len(down) : /\ Telltale(down[k]) /\ down[k].row = row
                                       /\ \A i \in (k+1)..Len(down) : ~Telltale(down[i])
      <3>1. PICK k \in 1..Len(down) : /\ Telltale(down[k]) /\ down[k].row = row
                                      /\ \A i \in (k+1)..Len(down) : ~Telltale(down[i])
        BY <2>1
      <3>2. CASE k = 1
        <4>1. \A i \in 1..Len(down') : i + 1 \in (k+1)..Len(down)
          BY <1>1, <3>2
        <4> QED BY <1>1, <3>1, <3>2, <4>1
      <3>3. CASE k # 1
        <4>1. k - 1 \in 1..Len(down') /\ (k - 1) + 1 = k
          BY <1>1, <3>3
        <4>2. Telltale(down'[k - 1]) /\ down'[k - 1].row = row
          BY <1>1, <3>1, <4>1
        <4>3. \A i \in ((k - 1) + 1)..Len(down') : ~Telltale(down'[i])
          <5> TAKE i \in ((k - 1) + 1)..Len(down')
          <5>1. i \in 1..Len(down') /\ i + 1 \in (k + 1)..Len(down)
            BY <1>1
          <5> QED BY <1>1, <3>1, <5>1
        <4> QED BY <4>1, <4>2, <4>3
      <3> QED BY <3>2, <3>3
    <2>2. CASE client.store = row /\ \A i \in 1..Len(down) : ~Telltale(down[i])
      BY <1>1, <2>2
    <2> QED BY <2>1, <2>2 DEF Known
  <1> QED BY <1>2, <1>3, <1>4, <1>5 DEF Known

(* A message more: the row, or a rejection.                                 *)
LEMMA KnownTold ==
  ASSUME Types, Known, Listening, client' = client, NEW msg, Ends(down', msg),
         \/ msg.kind = "rows" /\ msg.row = row' /\ row' # None /\ Ack(row) <= Ack(row') /\ Ack(row') \in Nat
         \/ msg.kind = "rejected" /\ row' = row
  PROVE  Known'
  <1>1. /\ Len(down') = Len(down) + 1 /\ Len(down) \in Nat /\ down'[Len(down')] = msg
        /\ \A i \in 1..Len(down) : down'[i] = down[i] /\ i \in 1..Len(down')
        /\ \A i \in 1..Len(down') : i = Len(down') \/ (i \in 1..Len(down) /\ down'[i] = down[i])
    BY DownTyped DEF Ends
  <1>2. /\ Ack(row) \in Nat /\ Ack(client.store) \in Nat
        /\ \A i \in 1..Len(down) : Telltale(down[i]) => Ack(down[i].row) \in Nat
    BY AckTyped
  <1>3. Ack(row) <= Ack(row') /\ (Telltale(msg) => msg.row = row' /\ msg.kind = "rows") /\ Ack(row') \in Nat
    BY <1>2 DEF Telltale
  <1>4. \A i \in 1..Len(down') : Telltale(down'[i]) =>
          /\ Ack(client.store) <= Ack(down'[i].row)
          /\ Ack(down'[i].row) <= Ack(row')
          /\ \A j \in i..Len(down') : Telltale(down'[j]) => Ack(down'[i].row) <= Ack(down'[j].row)
    <2> TAKE i \in 1..Len(down')
    <2> HAVE Telltale(down'[i])
    <2>0. Ack(client.store) <= Ack(row)
      BY DEF Known
    <2>1. CASE i = Len(down')
      <3>1. \A j \in i..Len(down') : j = i
        BY <1>1, <2>1
      <3>2. down'[i].row = row'
        BY <1>1, <1>3, <2>1
      <3> QED BY <1>2, <1>3, <2>0, <3>1, <3>2
    <2>2. CASE i \in 1..Len(down) /\ down'[i] = down[i]
      <3>1. /\ Ack(client.store) <= Ack(down[i].row) /\ Ack(down[i].row) <= Ack(row)
            /\ \A j \in i..Len(down) : Telltale(down[j]) => Ack(down[i].row) <= Ack(down[j].row)
        BY <2>2 DEF Known
      <3>2. Ack(down[i].row) <= Ack(row') /\ Ack(down[i].row) \in Nat
        BY <1>2, <1>3, <2>2, <3>1
      <3>3. ASSUME NEW j \in i..Len(down'), Telltale(down'[j])
            PROVE  Ack(down'[i].row) <= Ack(down'[j].row)
        <4>1. CASE j = Len(down')
          BY <1>1, <1>3, <2>2, <3>2, <3>3, <4>1
        <4>2. CASE j # Len(down')
          <5>1. j \in i..Len(down) /\ j \in 1..Len(down')
            BY <1>1, <4>2
          <5>2. down'[j] = down[j]
            BY <1>1, <4>2, <5>1
          <5> QED BY <2>2, <3>1, <3>3, <5>1, <5>2
        <4> QED BY <4>1, <4>2
      <3> QED BY <2>2, <3>1, <3>2, <3>3
    <2> QED BY <1>1, <2>1, <2>2
  <1>5. Ack(client.store) <= Ack(row')
    BY <1>2, <1>3 DEF Known
  <1>6. row' = None => client.store = None /\ \A i \in 1..Len(down') : down'[i].kind # "rows"
    <2> HAVE row' = None
    <2>1. msg.kind = "rejected" /\ row = None
      OBVIOUS
    <2> QED BY <1>1, <2>1 DEF Known
  <1>7. CASE Telltale(msg)
    <2>1. Len(down') \in 1..Len(down') /\ \A i \in (Len(down') + 1)..Len(down') : FALSE
      BY <1>1
    <2>2. Telltale(down'[Len(down')]) /\ down'[Len(down')].row = row'
      BY <1>1, <1>3, <1>7
    <2>3. \E k \in 1..Len(down') : /\ Telltale(down'[k]) /\ down'[k].row = row'
                                   /\ \A i \in (k+1)..Len(down') : ~Telltale(down'[i])
      BY <2>1, <2>2
    <2> QED BY <1>4, <1>5, <1>6, <2>3 DEF Known
  <1>8. CASE ~Telltale(msg)
    <2>0. row' = row
      BY <1>8 DEF Telltale
    <2>1. CASE \E k \in 1..Len(down) : /\ Telltale(down[k]) /\ down[k].row = row
                                       /\ \A i \in (k+1)..Len(down) : ~Telltale(down[i])
      <3>1. PICK k \in 1..Len(down) : /\ Telltale(down[k]) /\ down[k].row = row
                                      /\ \A i \in (k+1)..Len(down) : ~Telltale(down[i])
        BY <2>1
      <3>2. k \in 1..Len(down') /\ Telltale(down'[k]) /\ down'[k].row = row'
        BY <1>1, <2>0, <3>1
      <3>3. ASSUME NEW i \in (k+1)..Len(down') PROVE ~Telltale(down'[i])
        <4>1. CASE i = Len(down')
          BY <1>1, <1>8, <4>1
        <4>2. CASE i # Len(down')
          <5>1. i \in (k+1)..Len(down) /\ i \in 1..Len(down')
            BY <1>1, <4>2
          <5> QED BY <1>1, <3>1, <4>2, <5>1
        <4> QED BY <4>1, <4>2
      <3>4. \E l \in 1..Len(down') : /\ Telltale(down'[l]) /\ down'[l].row = row'
                                   /\ \A i \in (l+1)..Len(down') : ~Telltale(down'[i])
        BY <3>2, <3>3
      <3> QED BY <1>4, <1>5, <1>6, <3>4 DEF Known
    <2>2. CASE client.link = "up" /\ client.store = row /\ \A i \in 1..Len(down) : ~Telltale(down[i])
      <3>1. \A i \in 1..Len(down') : ~Telltale(down'[i])
        BY <1>1, <1>8, <2>2
      <3> QED BY <1>4, <1>5, <1>6, <2>0, <2>2, <3>1 DEF Known
    <2> QED BY <2>1, <2>2 DEF Known
  <1> QED BY <1>7, <1>8

(* Nobody listens: nothing is on its way and nothing known.                 *)
LEMMA KnownDeaf ==
  ASSUME Types, Links, ~Listening', client'.store = None, down' = <<>>, row' = None \/ Fit(row')
  PROVE  Known'
  <1>1. Ack(row') \in Nat /\ Ack(client'.store) = 0
    BY FitTyped DEF Ack
  <1>2. Len(down') = 0
    OBVIOUS
  <1> QED BY <1>1, <1>2 DEF Known

LEMMA KnownStep ==
  ASSUME Types, Links, Known, MovementNext \/ UNCHANGED movementVars
  PROVE  Known'
  <1>1. ASSUME NEW op \in Ops, Send(op) PROVE Known'
    <2>1. client'.link = client.link /\ client'.store = client.store /\ UNCHANGED <<row, down>>
      BY <1>1, SendFacts
    <2> QED BY <2>1 DEF Known, Listening
  <1>2. ASSUME Frame PROVE Known'
    <2>1. client'.link = client.link /\ client'.store = client.store /\ UNCHANGED <<row, down>>
      BY <1>2, FrameFacts DEF Unmoved
    <2> QED BY <2>1 DEF Known, Listening
  <1>3. ASSUME Connect PROVE Known'
    <2>1. /\ client.link = "down" /\ client'.link = "connecting" /\ client'.store = client.store /\ row' = row
          /\ Len(down') = 1 /\ down'[1].kind = "snapshot" /\ down'[1].row = row
      BY <1>3, ConnectFacts
    <2>2. client'.store = None /\ Ack(client'.store) = 0 /\ Ack(row) \in Nat
      BY <2>1, AckTyped DEF Links, Ack
    <2>3. 1 \in 1..Len(down') /\ (\A i \in 1..Len(down') : i = 1) /\ (\A i \in (1 + 1)..Len(down') : FALSE)
      BY <2>1
    <2>4. \A i \in 1..Len(down') : \A j \in i..Len(down') : j = i
      BY <2>1
    <2>5. \E k \in 1..Len(down') : /\ Telltale(down'[k]) /\ down'[k].row = row
                                   /\ \A i \in (k+1)..Len(down') : ~Telltale(down'[i])
      BY <2>1, <2>3 DEF Telltale
    <2>6. \A i \in 1..Len(down') : Telltale(down'[i]) =>
          /\ Ack(client'.store) <= Ack(down'[i].row)
          /\ Ack(down'[i].row) <= Ack(row)
          /\ \A j \in i..Len(down') : Telltale(down'[j]) => Ack(down'[i].row) <= Ack(down'[j].row)
      BY <2>1, <2>2, <2>3, <2>4
    <2>7. \A i \in 1..Len(down') : down'[i].kind # "rows"
      BY <2>1, <2>3
    <2>8. Ack(client'.store) <= Ack(row)
      BY <2>2
    <2> QED BY <2>1, <2>2, <2>5, <2>6, <2>7, <2>8 DEF Known
  <1>4. ASSUME ReceiveSnapshot PROVE Known'
    <2>1. /\ Listening /\ Read /\ down[1].kind = "snapshot" /\ client'.link = "up"
          /\ client'.store = down[1].row /\ row' = row
      BY <1>4, SnapshotFacts
    <2> QED BY <2>1, KnownRead DEF Telltale
  <1>5. ASSUME ReceiveRows PROVE Known'
    <2>1. /\ client.link = "up" /\ Read /\ down[1].kind = "rows" /\ client'.link = client.link
          /\ client'.store = down[1].row /\ row' = row
      BY <1>5, RowsFacts
    <2> QED BY <2>1, KnownRead DEF Telltale, Listening
  <1>6. ASSUME ReceiveRejection PROVE Known'
    <2>1. /\ client.link = "up" /\ Read /\ down[1].kind = "rejected" /\ client'.link = client.link
          /\ client'.store = client.store /\ row' = row
      BY <1>6, RejectionFacts DEF Unmoved
    <2> QED BY <2>1, KnownRead DEF Telltale, Listening
  <1>7. ASSUME Drop PROVE Known'
    <2>1. Listening /\ Lose /\ client'.link = "down" /\ client'.store = None
      BY <1>7, DropFacts
    <2>2. down' = <<>> /\ row' = row
      BY <2>1, LoseFacts
    <2> QED BY <2>1, <2>2, KnownDeaf DEF Types, Listening
  <1>8. ASSUME Reload PROVE Known'
    <2>1. Listening /\ Lose /\ client'.link = "down" /\ client'.store = None
      BY <1>8, ReloadFacts
    <2>2. down' = <<>> /\ row' = row
      BY <2>1, LoseFacts
    <2> QED BY <2>1, <2>2, KnownDeaf DEF Types, Listening
  <1>9. ASSUME NEW c \in Conns, OnDisconnect(c) PROVE Known'
    <2>1. /\ Listening => row' = row
          /\ row' = None \/ row' = row
          /\ UNCHANGED <<down, client>>
      BY <1>9, DisconnectFacts
    <2>2. CASE Listening
      BY <2>1, <2>2 DEF Known, Listening
    <2>3. CASE ~Listening
      <3>1. down = <<>> /\ client.store = None
        BY <2>3, ClientTyped DEF Links, Listening
      <3> QED BY <2>1, <2>3, <3>1, KnownDeaf DEF Types, Listening
    <2> QED BY <2>2, <2>3
  <1>10. ASSUME NEW c \in Conns, JoinGame(c) PROVE Known'
    <2>0. /\ \/ UNCHANGED <<row, down>>
             \/ row = None /\ Fit(row') /\ down' = Telling(Rows(row'))
          /\ client' = client
      BY <1>10, JoinFacts
    <2>5. CASE UNCHANGED <<row, down>>
      BY <2>0, <2>5 DEF Known, Listening
    <2>6. CASE row = None /\ Fit(row') /\ down' = Telling(Rows(row'))
      <3>1. Fit(row') /\ down' = Telling(Rows(row')) /\ client' = client
        BY <2>0, <2>6
      <3>2. Ack(row) <= Ack(row') /\ Ack(row') \in Nat
        BY <2>6, FitTyped DEF Ack
      <3>3. CASE Listening
        <4>1. Ends(down', Rows(row'))
          BY <3>1, <3>3, RowTold
        <4>2. Rows(row').kind = "rows" /\ Rows(row').row = row' /\ row' # None
          BY <3>1, RowsTyped, FitTyped
        <4> QED BY <3>1, <3>2, <3>3, <4>1, <4>2, KnownTold
      <3>4. CASE ~Listening
        <4>1. down' = down
          BY <3>1, <3>4, RowTold
        <4>2. down = <<>> /\ client.store = None
          BY <3>4, ClientTyped DEF Links, Listening
        <4> QED BY <3>1, <3>4, <4>1, <4>2, KnownDeaf DEF Listening
      <3> QED BY <3>3, <3>4
    <2> QED BY <2>0, <2>5, <2>6
  <1>11. ASSUME NEW c \in Conns, NEW call, Move(c, call) PROVE Known'
    <2>0. /\ \/ /\ row # None /\ call.seq > row.ack /\ row'.ack = call.seq /\ Fit(row')
                /\ down' = Telling(Rows(row'))
             \/ row' = row /\ down' = Telling(Rejected(call))
             \/ UNCHANGED <<row, down>>
          /\ client' = client /\ call \in Calls
      BY <1>11, MoveFacts
    <2>5. CASE UNCHANGED <<row, down>>
      BY <2>0, <2>5 DEF Known, Listening
    <2>6. CASE /\ row # None /\ call.seq > row.ack /\ row'.ack = call.seq /\ Fit(row')
               /\ down' = Telling(Rows(row'))
      <3>1. Fit(row') /\ down' = Telling(Rows(row')) /\ client' = client
        BY <2>0, <2>6
      <3>2. Ack(row) <= Ack(row') /\ Ack(row') \in Nat
        <4>1. Fit(row) /\ row.ack \in Nat /\ row'.ack \in Nat /\ row' # None
          BY <2>6, FitTyped DEF Types
        <4> QED BY <2>6, <4>1 DEF Ack
      <3>3. CASE Listening
        <4>1. Ends(down', Rows(row'))
          BY <3>1, <3>3, RowTold
        <4>2. Rows(row').kind = "rows" /\ Rows(row').row = row' /\ row' # None
          BY <3>1, RowsTyped, FitTyped
        <4> QED BY <3>1, <3>2, <3>3, <4>1, <4>2, KnownTold
      <3>4. CASE ~Listening
        <4>1. down' = down
          BY <3>1, <3>4, RowTold
        <4>2. down = <<>> /\ client.store = None
          BY <3>4, ClientTyped DEF Links, Listening
        <4> QED BY <3>1, <3>4, <4>1, <4>2, KnownDeaf DEF Listening
      <3> QED BY <3>3, <3>4
    <2>7. CASE row' = row /\ down' = Telling(Rejected(call))
      <3>1. CASE ~Listening
        <4>1. down' = down
          BY <2>0, <2>7, <3>1, RejectionTold
        <4> QED BY <2>0, <2>7, <4>1 DEF Known, Listening
      <3>2. CASE Listening
        <4>1. Ends(down', Rejected(call)) /\ Rejected(call).kind = "rejected"
          BY <2>0, <2>7, <3>2, RejectionTold DEF Rejected
        <4> QED BY <2>0, <2>7, <3>2, <4>1, KnownTold
      <3> QED BY <3>1, <3>2
    <2> QED BY <2>0, <2>5, <2>6, <2>7
  <1>12. ASSUME MovementTick PROVE Known'
    <2>1. Fit(row') /\ down' = Telling(Rows(row')) /\ client' = client /\ row # None /\ row'.ack = row.ack
      BY <1>12, TickFacts DEF Types
    <2>2. Ack(row) <= Ack(row') /\ Ack(row') \in Nat
      BY <2>1, FitTyped, AckTyped DEF Ack
    <2>3. CASE Listening
      <3>1. Ends(down', Rows(row'))
        BY <2>1, <2>3, RowTold
      <3>2. Rows(row').kind = "rows" /\ Rows(row').row = row' /\ row' # None
        BY <2>1, RowsTyped, FitTyped
      <3> QED BY <2>1, <2>2, <2>3, <3>1, <3>2, KnownTold
    <2>4. CASE ~Listening
      <3>1. down' = down
        BY <2>1, <2>4, RowTold
      <3>2. down = <<>> /\ client.store = None
        BY <2>4, ClientTyped DEF Links, Listening
      <3> QED BY <2>1, <2>4, <3>1, <3>2, KnownDeaf DEF Listening
    <2> QED BY <2>3, <2>4
  <1>13. ASSUME UNCHANGED <<row, ackPage, sessions, up, down, client>> PROVE Known'
    BY <1>13 DEF Known, Listening
  <1> QED BY <1>1, <1>2, <1>3, <1>4, <1>5, <1>6, <1>7, <1>8, <1>9, <1>10, <1>11, <1>12, <1>13 DEF MovementNext, Serve, Challenged, BattleOver, movementVars

-----------------------------------------------------------------------------
(* Numbers are used once.                                                   *)

(* Calls that were under way before.                                        *)
NoNewCalls ==
  \A d \in Conns : \A i \in 1..Len(up'[d]) :
    IsCall(up'[d][i]) => \E j \in 1..Len(up[d]) : up'[d][i] = up[d][j]

LEMMA CalledNoNew ==
  ASSUME Types, NEW c \in Conns, NEW call, Called(c, call)
  PROVE  NoNewCalls
  <1>1. Piece(up'[c], up[c], 1) /\ \A d \in Conns \ {c} : up'[d] = up[d]
    BY CalledFacts
  <1>2. \A i \in 1..Len(up'[c]) : \E j \in 1..Len(up[c]) : up'[c][i] = up[c][j]
    BY <1>1 DEF Piece
  <1> QED BY <1>1, <1>2 DEF NoNewCalls

LEMMA SnapshotNoNew ==
  ASSUME Types, Links, ReceiveSnapshot
  PROVE  NoNewCalls
  <1>1. /\ up'[client.conn] = Append(up[client.conn], [kind |-> "Join"]) /\ client.conn \in Conns
        /\ \A d \in Conns \ {client.conn} : up'[d] = up[d]
    BY SnapshotFacts
  <1>2. up[client.conn] \in Seq(Joins \cup Calls) /\ [kind |-> "Join"] \in Joins \cup Calls
    BY <1>1, CallsTyped DEF Joins
  <1>3. \A i \in 1..Len(up'[client.conn]) : \/ up'[client.conn][i].kind = "Join"
                                            \/ i \in 1..Len(up[client.conn]) /\ up'[client.conn][i] = up[client.conn][i]
    BY <1>1, <1>2
  <1> QED BY <1>1, <1>3 DEF NoNewCalls, IsCall

LEMMA LoseNoNew ==
  ASSUME Types, Links, Listening, Lose
  PROVE  NoNewCalls
  BY LoseFacts DEF NoNewCalls

LEMMA NumbersKept ==
  ASSUME Types, Numbers, NoNewCalls, client'.page = client.page, client'.lastSent = client.lastSent,
         client'.epoch >= client.epoch, client'.epoch \in Nat,
         ackPage' <= client.page,
         row' # None /\ ackPage' = client.page => row'.ack <= client.lastSent,
         row' = None \/ Fit(row'),
         row' # None => \A i \in 1..Len(row'.queue) : row'.queue[i].epoch <= client.epoch,
         \A i \in 1..Len(down') : down'[i].kind = "rejected" => down'[i].epoch \in Nat /\ down'[i].epoch <= client.epoch
  PROVE  Numbers'
  <1>1. client.epoch \in Nat /\ client.page \in Nat /\ client.lastSent \in 0..MaxSeq
    BY ClientTyped
  <1>2. \A c \in Conns : \A i \in 1..Len(up'[c]) : IsCall(up'[c][i]) =>
       /\ up'[c][i].page <= client.page
       /\ up'[c][i].epoch <= client'.epoch
       /\ up'[c][i].epoch = client'.epoch => up'[c][i].page = client.page
       /\ up'[c][i].page = client.page => up'[c][i].seq <= client.lastSent
    <2> TAKE c \in Conns
    <2> TAKE i \in 1..Len(up'[c])
    <2> HAVE IsCall(up'[c][i])
    <2>1. PICK j \in 1..Len(up[c]) : up'[c][i] = up[c][j]
      BY DEF NoNewCalls
    <2>2. IsCall(up[c][j]) /\ up[c][j].epoch \in Nat
      BY <2>1, CallsTyped
    <2>3. /\ up[c][j].page <= client.page
          /\ up[c][j].epoch <= client.epoch
          /\ up[c][j].epoch = client.epoch => up[c][j].page = client.page
          /\ up[c][j].page = client.page => up[c][j].seq <= client.lastSent
      BY <2>2 DEF Numbers, OfPage
    <2> QED BY <1>1, <2>1, <2>2, <2>3
  <1>3. row' # None => \A i \in 1..Len(row'.queue) : row'.queue[i].epoch <= client'.epoch
    BY <1>1, FitTyped
  <1>4. \A i \in 1..Len(down') : down'[i].kind = "rejected" => down'[i].epoch <= client'.epoch
    BY <1>1
  <1> QED BY <1>2, <1>3, <1>4 DEF Numbers

LEMMA NumbersStep ==
  ASSUME Types, Links, Numbers, MovementNext \/ UNCHANGED movementVars
  PROVE  Numbers'
  <1>1. ASSUME NEW op \in Ops, Send(op) PROVE Numbers'
    <2>1. /\ client.conn \in Conns /\ CallOf(op) \in Calls /\ client.next + 1 \in 1..MaxSeq
          /\ client'.page = client.page /\ client'.epoch = client.epoch /\ client'.lastSent = client.next + 1
          /\ up'[client.conn] = Append(up[client.conn], CallOf(op))
          /\ (\A d \in Conns \ {client.conn} : up'[d] = up[d]) /\ UNCHANGED <<row, ackPage, down>>
      BY <1>1, SendFacts
    <2>2. /\ client.lastSent \in 0..MaxSeq /\ client.next \in 0..MaxSeq /\ client.lastSent <= client.next
          /\ client.page \in Nat /\ client.epoch \in Nat
      BY ClientTyped
    <2>3. \A c \in Conns : \A i \in 1..Len(up'[c]) :
            \/ up'[c][i] = CallOf(op)
            \/ i \in 1..Len(up[c]) /\ up'[c][i] = up[c][i]
      <3>1. up[client.conn] \in Seq(Joins \cup Calls)
        BY <2>1, CallsTyped
      <3>2. \A i \in 1..Len(up'[client.conn]) :
              \/ up'[client.conn][i] = CallOf(op)
              \/ i \in 1..Len(up[client.conn]) /\ up'[client.conn][i] = up[client.conn][i]
        BY <2>1, <3>1
      <3> QED BY <2>1, <3>2
    <2>4. \A c \in Conns : \A i \in 1..Len(up'[c]) : IsCall(up'[c][i]) =>
            /\ up'[c][i].page <= client.page
            /\ up'[c][i].epoch <= client.epoch
            /\ up'[c][i].epoch = client.epoch => up'[c][i].page = client.page
            /\ up'[c][i].page = client.page => up'[c][i].seq <= client'.lastSent
      <3> TAKE c \in Conns
      <3> TAKE i \in 1..Len(up'[c])
      <3> HAVE IsCall(up'[c][i])
      <3>1. CASE up'[c][i] = CallOf(op)
        BY <2>1, <2>2, <3>1 DEF CallOf
      <3>2. CASE i \in 1..Len(up[c]) /\ up'[c][i] = up[c][i]
        <4>1. up[c][i].seq \in 1..MaxSeq
          BY <3>2, CallsTyped
        <4>2. /\ up[c][i].page <= client.page
              /\ up[c][i].epoch <= client.epoch
              /\ up[c][i].epoch = client.epoch => up[c][i].page = client.page
              /\ up[c][i].page = client.page => up[c][i].seq <= client.lastSent
          BY <3>2 DEF Numbers, OfPage
        <4> QED BY <2>1, <2>2, <3>2, <4>1, <4>2
      <3> QED BY <2>3, <3>1, <3>2
    <2>5. row # None => row.ack \in 0..MaxSeq
      BY FitTyped DEF Types
    <2>6. row # None /\ ackPage = client.page => row.ack <= client'.lastSent
      BY <2>1, <2>2, <2>5 DEF Numbers
    <2> QED BY <2>1, <2>4, <2>6 DEF Numbers
  <1>2. ASSUME Frame PROVE Numbers'
    <2>1. /\ client'.page = client.page /\ client'.epoch = client.epoch /\ client'.lastSent = client.lastSent
          /\ UNCHANGED <<row, ackPage, up, down>>
      BY <1>2, FrameFacts DEF Unmoved
    <2> QED BY <2>1 DEF Numbers, OfPage
  <1>3. ASSUME Connect PROVE Numbers'
    <2>1. /\ client'.page = client.page /\ client'.epoch = client.epoch /\ client'.lastSent = client.lastSent
          /\ UNCHANGED <<row, ackPage, up>> /\ Len(down') = 1 /\ down'[1].kind = "snapshot"
      BY <1>3, ConnectFacts
    <2> QED BY <2>1 DEF Numbers, OfPage
  <1>4. ASSUME ReceiveSnapshot PROVE Numbers'
    <2>1. /\ Read /\ client'.page = client.page /\ client'.lastSent = client.lastSent
          /\ UNCHANGED <<row, ackPage>> /\ BrowserTypes(client')
          /\ client'.epoch = client.epoch \/ client'.epoch = client.epoch + 1 \/ client'.epoch > client.epoch
      BY <1>4, SnapshotFacts DEF Unmoved
    <2>2. client.epoch \in Nat /\ (row = None \/ Fit(row))
      BY ClientTyped DEF Types
    <2>3. /\ ackPage <= client.page
          /\ row # None /\ ackPage = client.page => row.ack <= client.lastSent
          /\ row # None => \A i \in 1..Len(row.queue) : row.queue[i].epoch <= client.epoch
          /\ \A i \in 1..Len(down) : down[i].kind = "rejected" => down[i].epoch <= client.epoch
      BY DEF Numbers
    <2>4. NoNewCalls
      BY <1>4, SnapshotNoNew
    <2>5. client'.epoch \in Nat
      BY <2>1 DEF BrowserTypes, Browsers
    <2>6. client'.epoch >= client.epoch
      BY <2>1, <2>2, <2>5
    <2>7. \A i \in 1..Len(down') : down'[i].kind = "rejected" => down'[i].epoch \in Nat /\ down'[i].epoch <= client.epoch
      BY <2>1, <2>3, DownTyped DEF Read, Piece
    <2> QED BY <2>1, <2>2, <2>3, <2>4, <2>5, <2>6, <2>7, NumbersKept
  <1>5. ASSUME ReceiveRows PROVE Numbers'
    <2>1. /\ Read /\ client'.page = client.page /\ client'.lastSent = client.lastSent
          /\ UNCHANGED <<row, ackPage>> /\ BrowserTypes(client')
          /\ client'.epoch = client.epoch \/ client'.epoch = client.epoch + 1 \/ client'.epoch > client.epoch
          /\ up' = up
      BY <1>5, RowsFacts DEF Unmoved
    <2>2. client.epoch \in Nat /\ (row = None \/ Fit(row))
      BY ClientTyped DEF Types
    <2>3. /\ ackPage <= client.page
          /\ row # None /\ ackPage = client.page => row.ack <= client.lastSent
          /\ row # None => \A i \in 1..Len(row.queue) : row.queue[i].epoch <= client.epoch
          /\ \A i \in 1..Len(down) : down[i].kind = "rejected" => down[i].epoch <= client.epoch
      BY DEF Numbers
    <2>4. NoNewCalls
      BY <2>1 DEF NoNewCalls
    <2>5. client'.epoch \in Nat
      BY <2>1 DEF BrowserTypes, Browsers
    <2>6. client'.epoch >= client.epoch
      BY <2>1, <2>2, <2>5
    <2>7. \A i \in 1..Len(down') : down'[i].kind = "rejected" => down'[i].epoch \in Nat /\ down'[i].epoch <= client.epoch
      BY <2>1, <2>3, DownTyped DEF Read, Piece
    <2> QED BY <2>1, <2>2, <2>3, <2>4, <2>5, <2>6, <2>7, NumbersKept
  <1>6. ASSUME ReceiveRejection PROVE Numbers'
    <2>1. /\ Read /\ client'.page = client.page /\ client'.lastSent = client.lastSent
          /\ UNCHANGED <<row, ackPage>> /\ BrowserTypes(client')
          /\ client'.epoch = client.epoch \/ client'.epoch = client.epoch + 1 \/ client'.epoch > client.epoch
          /\ up' = up
      BY <1>6, RejectionFacts DEF Unmoved
    <2>2. client.epoch \in Nat /\ (row = None \/ Fit(row))
      BY ClientTyped DEF Types
    <2>3. /\ ackPage <= client.page
          /\ row # None /\ ackPage = client.page => row.ack <= client.lastSent
          /\ row # None => \A i \in 1..Len(row.queue) : row.queue[i].epoch <= client.epoch
          /\ \A i \in 1..Len(down) : down[i].kind = "rejected" => down[i].epoch <= client.epoch
      BY DEF Numbers
    <2>4. NoNewCalls
      BY <2>1 DEF NoNewCalls
    <2>5. client'.epoch \in Nat
      BY <2>1 DEF BrowserTypes, Browsers
    <2>6. client'.epoch >= client.epoch
      BY <2>1, <2>2, <2>5
    <2>7. \A i \in 1..Len(down') : down'[i].kind = "rejected" => down'[i].epoch \in Nat /\ down'[i].epoch <= client.epoch
      BY <2>1, <2>3, DownTyped DEF Read, Piece
    <2> QED BY <2>1, <2>2, <2>3, <2>4, <2>5, <2>6, <2>7, NumbersKept
  <1>7. ASSUME Drop PROVE Numbers'
    <2>1. /\ client'.page = client.page /\ client'.lastSent = client.lastSent /\ client'.epoch = client.epoch
          /\ Listening /\ Lose
      BY <1>7, DropFacts
    <2>2. client.epoch \in Nat /\ (row = None \/ Fit(row))
      BY ClientTyped DEF Types
    <2>3. /\ ackPage <= client.page
          /\ row # None /\ ackPage = client.page => row.ack <= client.lastSent
          /\ row # None => \A i \in 1..Len(row.queue) : row.queue[i].epoch <= client.epoch
          /\ \A i \in 1..Len(down) : down[i].kind = "rejected" => down[i].epoch <= client.epoch
      BY DEF Numbers
    <2>4. NoNewCalls /\ down' = <<>> /\ UNCHANGED <<row, ackPage>>
      BY <2>1, LoseFacts, LoseNoNew
    <2>5. \A i \in 1..Len(down') : FALSE
      BY <2>4
    <2> QED BY <2>1, <2>2, <2>3, <2>4, <2>5, NumbersKept
  <1>8. ASSUME Reload PROVE Numbers'
    <2>1. /\ client'.page = client.page + 1 /\ client'.epoch = client.epoch + 1
          /\ Listening /\ Lose
      BY <1>8, ReloadFacts
    <2>2. client.epoch \in Nat /\ (row = None \/ Fit(row))
      BY ClientTyped DEF Types
    <2>3. /\ ackPage <= client.page
          /\ row # None /\ ackPage = client.page => row.ack <= client.lastSent
          /\ row # None => \A i \in 1..Len(row.queue) : row.queue[i].epoch <= client.epoch
          /\ \A i \in 1..Len(down) : down[i].kind = "rejected" => down[i].epoch <= client.epoch
      BY DEF Numbers
    <2>4. NoNewCalls /\ down' = <<>> /\ UNCHANGED <<row, ackPage>>
      BY <2>1, LoseFacts, LoseNoNew
    <2>5. \A i \in 1..Len(down') : FALSE
      BY <2>4
    <2>6. client.page \in Nat /\ ackPage \in Nat
      BY ClientTyped DEF Types
    <2>7. \A c \in Conns : \A i \in 1..Len(up'[c]) : IsCall(up'[c][i]) =>
            /\ up'[c][i].page < client'.page
            /\ up'[c][i].epoch < client'.epoch
            /\ up'[c][i].page \in Nat /\ up'[c][i].epoch \in Nat
      <3> TAKE c \in Conns
      <3> TAKE i \in 1..Len(up'[c])
      <3> HAVE IsCall(up'[c][i])
      <3>1. PICK j \in 1..Len(up[c]) : up'[c][i] = up[c][j]
        BY <2>4 DEF NoNewCalls
      <3>2. IsCall(up[c][j]) /\ up[c][j].epoch \in Nat /\ up[c][j].page \in Nat
        BY <3>1, CallsTyped
      <3>3. up[c][j].page <= client.page /\ up[c][j].epoch <= client.epoch
        BY <3>2 DEF Numbers
      <3> QED BY <2>1, <2>2, <2>6, <3>1, <3>2, <3>3
    <2>8. \A c \in Conns : \A i \in 1..Len(up'[c]) : IsCall(up'[c][i]) =>
            /\ up'[c][i].page <= client'.page
            /\ up'[c][i].epoch <= client'.epoch
            /\ up'[c][i].epoch # client'.epoch
            /\ up'[c][i].page # client'.page
      <3>1. client'.page \in Nat /\ client'.epoch \in Nat
        BY <2>1, <2>2, <2>6
      <3>2. \A x, y \in Nat : x < y => x <= y /\ x # y
        OBVIOUS
      <3> QED BY <2>7, <3>1, <3>2
    <2>9. ackPage' <= client'.page /\ ackPage' # client'.page
      BY <2>1, <2>3, <2>4, <2>6
    <2>10. row' # None => \A i \in 1..Len(row'.queue) : row'.queue[i].epoch <= client'.epoch
      BY <2>1, <2>2, <2>3, <2>4, FitTyped
    <2> QED BY <2>5, <2>8, <2>9, <2>10 DEF Numbers, OfPage
  <1>9. ASSUME NEW c \in Conns, OnDisconnect(c) PROVE Numbers'
    <2>1. (row' = None \/ row' = row) /\ UNCHANGED <<ackPage, up, down, client>>
      BY <1>9, DisconnectFacts
    <2> QED BY <2>1 DEF Numbers, OfPage
  <1>10. ASSUME NEW c \in Conns, JoinGame(c) PROVE Numbers'
    <2>1. /\ Called(c, [kind |-> "Join"]) /\ UNCHANGED <<ackPage, client>>
          /\ \/ UNCHANGED <<row, down>>
             \/ Fit(row') /\ row'.ack = 0 /\ row'.queue = <<>> /\ down' = Telling(Rows(row'))
      BY <1>10, JoinFacts
    <2>2. client.epoch \in Nat /\ (row = None \/ Fit(row))
      BY ClientTyped DEF Types
    <2>3. /\ ackPage <= client.page
          /\ row # None /\ ackPage = client.page => row.ack <= client.lastSent
          /\ row # None => \A i \in 1..Len(row.queue) : row.queue[i].epoch <= client.epoch
          /\ \A i \in 1..Len(down) : down[i].kind = "rejected" => down[i].epoch <= client.epoch
      BY DEF Numbers
    <2>4. NoNewCalls
      BY <2>1, CalledNoNew
    <2>5. \A i \in 1..Len(down') : down'[i].kind = "rejected" => down'[i].epoch \in Nat /\ down'[i].epoch <= client.epoch
      <3>1. \A i \in 1..Len(down) : down[i].kind = "rejected" => down[i].epoch \in Nat /\ down[i].epoch <= client.epoch
        BY <2>3, DownTyped
      <3>2. CASE down' = down
        BY <3>1, <3>2
      <3>3. CASE Listening /\ Ends(down', Rows(row'))
        BY <3>1, <3>3, DownTyped DEF Ends, Rows
      <3> QED BY <2>1, <3>2, <3>3, RowTold
    <2>6. row' # None /\ ackPage' = client.page => row'.ack <= client.lastSent
      BY <2>1, <2>3, ClientTyped
    <2>7. row' # None => \A i \in 1..Len(row'.queue) : row'.queue[i].epoch <= client.epoch
      BY <2>1, <2>3
    <2>8. client'.epoch >= client.epoch
      BY <2>1, <2>2
    <2> QED BY <2>1, <2>2, <2>3, <2>4, <2>5, <2>6, <2>7, <2>8, NumbersKept
  <1>11. ASSUME NEW c \in Conns, NEW call, Move(c, call) PROVE Numbers'
    <2>1. /\ Called(c, call) /\ client' = client /\ call \in Calls /\ IsCall(call)
          /\ \/ /\ row # None /\ Fit(row') /\ row'.ack = call.seq /\ Queued(row'.queue, row.queue, call)
                /\ ackPage' = call.page /\ down' = Telling(Rows(row'))
             \/ UNCHANGED <<row, ackPage>> /\ (down' = Telling(Rejected(call)) \/ down' = down)
      BY <1>11, MoveFacts
    <2>2. client.epoch \in Nat /\ (row = None \/ Fit(row))
      BY ClientTyped DEF Types
    <2>3. /\ ackPage <= client.page
          /\ row # None /\ ackPage = client.page => row.ack <= client.lastSent
          /\ row # None => \A i \in 1..Len(row.queue) : row.queue[i].epoch <= client.epoch
          /\ \A i \in 1..Len(down) : down[i].kind = "rejected" => down[i].epoch <= client.epoch
      BY DEF Numbers
    <2>4. NoNewCalls
      BY <2>1, CalledNoNew
    <2>5. /\ call.page <= client.page /\ call.epoch <= client.epoch /\ call.epoch \in Nat
          /\ call.page = client.page => call.seq <= client.lastSent
      <3>1. call = up[c][1] /\ 1 \in 1..Len(up[c])
        BY <2>1, CalledFacts
      <3> QED BY <2>1, <3>1, CallsTyped DEF Numbers, OfPage
    <2>6. \A i \in 1..Len(down') : down'[i].kind = "rejected" => down'[i].epoch \in Nat /\ down'[i].epoch <= client.epoch
      <3>1. \A i \in 1..Len(down) : down[i].kind = "rejected" => down[i].epoch \in Nat /\ down[i].epoch <= client.epoch
        BY <2>3, DownTyped
      <3>2. CASE down' = down
        BY <3>1, <3>2
      <3>3. CASE Listening /\ Ends(down', Rows(row'))
        BY <3>1, <3>3, DownTyped DEF Ends, Rows
      <3>4. CASE Listening /\ Ends(down', Rejected(call))
        BY <2>5, <3>1, <3>4, DownTyped DEF Ends, Rejected
      <3> QED BY <2>1, <3>2, <3>3, <3>4, RowTold, RejectionTold
    <2>7. /\ ackPage' <= client.page
          /\ row' # None /\ ackPage' = client.page => row'.ack <= client.lastSent
      BY <2>1, <2>3, <2>5
    <2>8. row' # None => \A i \in 1..Len(row'.queue) : row'.queue[i].epoch <= client.epoch
      <3>1. CASE row' = row
        BY <2>3, <3>1
      <3>2. CASE row # None /\ Queued(row'.queue, row.queue, call)
        BY <2>3, <2>5, <3>2 DEF Queued
      <3> QED BY <2>1, <3>1, <3>2
    <2>9. client'.epoch >= client.epoch
      BY <2>1, <2>2
    <2> QED BY <2>1, <2>2, <2>4, <2>6, <2>7, <2>8, <2>9, NumbersKept
  <1>12. ASSUME MovementTick PROVE Numbers'
    <2>1. /\ row # None /\ Fit(row') /\ down' = Telling(Rows(row')) /\ row'.ack = row.ack
          /\ Piece(row'.queue, row.queue, 1) /\ UNCHANGED <<ackPage, up, client>>
      BY <1>12, TickFacts DEF Types
    <2>2. client.epoch \in Nat /\ (row = None \/ Fit(row))
      BY ClientTyped DEF Types
    <2>3. /\ ackPage <= client.page
          /\ row # None /\ ackPage = client.page => row.ack <= client.lastSent
          /\ row # None => \A i \in 1..Len(row.queue) : row.queue[i].epoch <= client.epoch
          /\ \A i \in 1..Len(down) : down[i].kind = "rejected" => down[i].epoch <= client.epoch
      BY DEF Numbers
    <2>4. NoNewCalls
      BY <2>1 DEF NoNewCalls
    <2>5. \A i \in 1..Len(down') : down'[i].kind = "rejected" => down'[i].epoch \in Nat /\ down'[i].epoch <= client.epoch
      <3>1. \A i \in 1..Len(down) : down[i].kind = "rejected" => down[i].epoch \in Nat /\ down[i].epoch <= client.epoch
        BY <2>3, DownTyped
      <3>2. CASE down' = down
        BY <3>1, <3>2
      <3>3. CASE Listening /\ Ends(down', Rows(row'))
        BY <3>1, <3>3, DownTyped DEF Ends, Rows
      <3> QED BY <2>1, <3>2, <3>3, RowTold
    <2>6. row' # None => \A i \in 1..Len(row'.queue) : row'.queue[i].epoch <= client.epoch
      BY <2>1, <2>3 DEF Piece
    <2>7. client'.epoch >= client.epoch
      BY <2>1, <2>2
    <2> QED BY <2>1, <2>2, <2>3, <2>4, <2>5, <2>6, <2>7, NumbersKept
  <1>13. ASSUME UNCHANGED <<row, ackPage, sessions, up, down, client>> PROVE Numbers'
    BY <1>13 DEF Numbers, OfPage
  <1> QED BY <1>1, <1>2, <1>3, <1>4, <1>5, <1>6, <1>7, <1>8, <1>9, <1>10, <1>11, <1>12, <1>13 DEF MovementNext, Serve, Challenged, BattleOver, movementVars

-----------------------------------------------------------------------------
(* The numbers on a line ascend.                                            *)

(* Lines from which something was taken off the front or lost at the end.   *)
Shrunk == \A d \in Conns : \E k \in Nat : Piece(up'[d], up[d], k)

LEMMA CalledShrunk ==
  ASSUME Types, NEW c \in Conns, NEW call, Called(c, call)
  PROVE  Shrunk
  <1>1. Piece(up'[c], up[c], 1) /\ \A d \in Conns \ {c} : up'[d] = up[d]
    BY CalledFacts
  <1>2. \A d \in Conns \ {c} : Piece(up'[d], up[d], 0)
    BY <1>1, CallsTyped DEF Piece
  <1>3. \A d \in Conns : Piece(up'[d], up[d], IF d = c THEN 1 ELSE 0)
    BY <1>1, <1>2
  <1> QED BY <1>3 DEF Shrunk

LEMMA LoseShrunk ==
  ASSUME Types, Links, Listening, Lose
  PROVE  Shrunk
  <1>1. Piece(up'[client.conn], up[client.conn], 0) /\ \A d \in Conns \ {client.conn} : up'[d] = up[d]
    BY LoseFacts
  <1>2. \A d \in Conns \ {client.conn} : Piece(up'[d], up[d], 0)
    BY <1>1, CallsTyped DEF Piece
  <1> QED BY <1>1, <1>2 DEF Shrunk

LEMMA SameShrunk ==
  ASSUME Types, up' = up
  PROVE  Shrunk
  <1>1. \A d \in Conns : Piece(up'[d], up[d], 0)
    BY CallsTyped DEF Piece
  <1> QED BY <1>1 DEF Shrunk

LEMMA InOrderKept ==
  ASSUME Types, InOrder, Shrunk, client'.conn = client.conn, client'.page = client.page,
         client.conn \in Conns, client'.link = "up" => client.link = "up",
         ackPage # client.page /\ (\A c \in Conns : \A i \in 1..Len(up[c]) : ~OfPage(up[c][i]))
           => ackPage' # client.page,
         row' # None /\ ackPage' = client.page =>
           \A j \in 1..Len(up'[client.conn]) :
             OfPage(up'[client.conn][j]) => row'.ack < up'[client.conn][j].seq
  PROVE  InOrder'
  <1> DEFINE C == client.conn
             P(x) == IsCall(x) /\ x.page = client.page
  <1>1. \A x : OfPage(x)' <=> (IsCall(x') /\ x'.page = client.page)
    BY DEF OfPage, IsCall
  <1>2. /\ \A i, j \in 1..Len(up[C]) : i < j /\ P(up[C][i]) /\ P(up[C][j]) => up[C][i].seq < up[C][j].seq
        /\ \A c \in Conns \ {C} : \A i \in 1..Len(up[c]), j \in 1..Len(up[C]) :
             P(up[c][i]) /\ P(up[C][j]) => up[c][i].seq < up[C][j].seq
        /\ \/ \A j \in 1..Len(up[C]) : IsCall(up[C][j]) => P(up[C][j])
           \/ /\ client.link # "up" /\ ackPage # client.page
              /\ \A c \in Conns : \A i \in 1..Len(up[c]) : ~P(up[c][i])
    <2>1. \A x : P(x) <=> OfPage(x)
      BY DEF OfPage
    <2> HIDE DEF P
    <2>2. C # 0
      BY DEF Conns
    <2>3. \A i, j \in 1..Len(up[C]) :
            i < j /\ OfPage(up[C][i]) /\ OfPage(up[C][j]) => up[C][i].seq < up[C][j].seq
      BY ONLY <2>2, InOrder DEF InOrder
    <2>4. \A c \in Conns \ {C} : \A i \in 1..Len(up[c]), j \in 1..Len(up[C]) :
            OfPage(up[c][i]) /\ OfPage(up[C][j]) => up[c][i].seq < up[C][j].seq
      BY ONLY <2>2, InOrder DEF InOrder
    <2>5. \/ \A j \in 1..Len(up[C]) : IsCall(up[C][j]) => OfPage(up[C][j])
          \/ /\ client.link # "up" /\ ackPage # client.page
             /\ \A c \in Conns : \A i \in 1..Len(up[c]) : ~OfPage(up[c][i])
      BY ONLY <2>2, InOrder DEF InOrder
    <2> HIDE DEF C
    <2> QED BY ONLY <2>1, <2>3, <2>4, <2>5
  <1>3. PICK k \in Nat : Piece(up'[C], up[C], k)
    BY DEF Shrunk
  <1>4. \A i \in 1..Len(up'[C]) : i + k \in 1..Len(up[C]) /\ up'[C][i] = up[C][i + k]
    BY <1>3 DEF Piece
  <1>5. ASSUME NEW i \in 1..Len(up'[C]), NEW j \in 1..Len(up'[C]), i < j, P(up'[C][i]), P(up'[C][j])
        PROVE  up'[C][i].seq < up'[C][j].seq
    <2>1. i + k \in 1..Len(up[C]) /\ j + k \in 1..Len(up[C]) /\ i + k < j + k
      BY <1>4, <1>5
    <2> QED BY <1>2, <1>4, <1>5, <2>1
  <1>6. ASSUME NEW c \in Conns \ {C}, NEW i \in 1..Len(up'[c]), NEW j \in 1..Len(up'[C]),
               P(up'[c][i]), P(up'[C][j])
        PROVE  up'[c][i].seq < up'[C][j].seq
    <2>1. PICK l \in Nat : Piece(up'[c], up[c], l)
      BY DEF Shrunk
    <2>2. i + l \in 1..Len(up[c]) /\ up'[c][i] = up[c][i + l]
      BY <2>1 DEF Piece
    <2> QED BY <1>2, <1>4, <1>6, <2>2
  <1>7. \/ \A j \in 1..Len(up'[C]) : IsCall(up'[C][j]) => P(up'[C][j])
        \/ /\ client'.link # "up" /\ ackPage' # client.page
           /\ \A c \in Conns : \A i \in 1..Len(up'[c]) : ~P(up'[c][i])
    <2>1. CASE \A j \in 1..Len(up[C]) : IsCall(up[C][j]) => P(up[C][j])
      BY <1>4, <2>1
    <2>2. CASE /\ client.link # "up" /\ ackPage # client.page
               /\ \A c \in Conns : \A i \in 1..Len(up[c]) : ~P(up[c][i])
      <3>1. ackPage' # client.page
        BY <2>2 DEF OfPage
      <3>2. ASSUME NEW c \in Conns, NEW i \in 1..Len(up'[c]) PROVE ~P(up'[c][i])
        <4>1. PICK l \in Nat : Piece(up'[c], up[c], l)
          BY DEF Shrunk
        <4>2. i + l \in 1..Len(up[c]) /\ up'[c][i] = up[c][i + l]
          BY <4>1 DEF Piece
        <4> QED BY <2>2, <4>2
      <3> QED BY <2>2, <3>1, <3>2
    <2> QED BY <1>2, <2>1, <2>2
  <1> QED BY <1>5, <1>6, <1>7 DEF InOrder, OfPage

LEMMA InOrderStep ==
  ASSUME Types, Links, Numbers, InOrder, MovementNext \/ UNCHANGED movementVars
  PROVE  InOrder'
  <1>1. ASSUME NEW op \in Ops, Send(op) PROVE InOrder'
    <2> DEFINE C == client.conn
               P(x) == IsCall(x) /\ x.page = client.page
    <2>1. /\ client.link = "up" /\ C \in Conns /\ CallOf(op) \in Calls /\ client.next + 1 \in 1..MaxSeq
          /\ client'.page = client.page /\ client'.conn = C
          /\ up'[C] = Append(up[C], CallOf(op)) /\ IsCall(CallOf(op))
          /\ (\A d \in Conns \ {C} : up'[d] = up[d]) /\ UNCHANGED <<row, ackPage, down>>
      BY <1>1, SendFacts
    <2>2. /\ client.lastSent \in 0..MaxSeq /\ client.next \in 0..MaxSeq /\ client.lastSent <= client.next
      BY ClientTyped
    <2>3. /\ \A i, j \in 1..Len(up[C]) : i < j /\ P(up[C][i]) /\ P(up[C][j]) => up[C][i].seq < up[C][j].seq
          /\ \A c \in Conns \ {C} : \A i \in 1..Len(up[c]), j \in 1..Len(up[C]) :
               P(up[c][i]) /\ P(up[C][j]) => up[c][i].seq < up[C][j].seq
          /\ row # None /\ ackPage = client.page =>
               \A j \in 1..Len(up[C]) : P(up[C][j]) => row.ack < up[C][j].seq
          /\ \A j \in 1..Len(up[C]) : IsCall(up[C][j]) => P(up[C][j])
      BY <2>1 DEF InOrder, OfPage, Conns
    <2>4. /\ Len(up'[C]) = Len(up[C]) + 1 /\ Len(up[C]) \in Nat /\ up'[C][Len(up[C]) + 1] = CallOf(op)
          /\ \A i \in 1..Len(up[C]) : up'[C][i] = up[C][i]
          /\ \A i \in 1..Len(up'[C]) : i = Len(up[C]) + 1 \/ i \in 1..Len(up[C])
      <3>1. up[C] \in Seq(Joins \cup Calls) /\ CallOf(op) \in Joins \cup Calls
        BY <2>1, CallsTyped
      <3> QED BY <2>1, <3>1
    <2>5. CallOf(op).seq = client.next + 1 /\ CallOf(op).page = client.page
      BY DEF CallOf
    <2>6. \A c \in Conns : \A i \in 1..Len(up[c]) : P(up[c][i]) => up[c][i].seq < client.next + 1
      <3> TAKE c \in Conns
      <3> TAKE i \in 1..Len(up[c])
      <3> HAVE P(up[c][i])
      <3>1. up[c][i].seq \in 1..MaxSeq /\ up[c][i].seq <= client.lastSent
        BY CallsTyped DEF Numbers, OfPage
      <3> QED BY <2>2, <3>1
    <2>7. ASSUME NEW i \in 1..Len(up'[C]), NEW j \in 1..Len(up'[C]), i < j, P(up'[C][i]), P(up'[C][j])
          PROVE  up'[C][i].seq < up'[C][j].seq
      <3>1. i \in 1..Len(up[C])
        BY <2>4, <2>7
      <3>2. CASE j = Len(up[C]) + 1
        BY <2>1, <2>4, <2>5, <2>6, <2>7, <3>1, <3>2
      <3>3. CASE j \in 1..Len(up[C])
        BY <2>3, <2>4, <2>7, <3>1, <3>3
      <3> QED BY <2>4, <3>2, <3>3
    <2>8. ASSUME NEW c \in Conns \ {C}, NEW i \in 1..Len(up'[c]), NEW j \in 1..Len(up'[C]),
                 P(up'[c][i]), P(up'[C][j])
          PROVE  up'[c][i].seq < up'[C][j].seq
      <3>1. up'[c] = up[c]
        BY <2>1
      <3>2. CASE j = Len(up[C]) + 1
        BY <2>4, <2>5, <2>6, <2>8, <3>1, <3>2
      <3>3. CASE j \in 1..Len(up[C])
        BY <2>3, <2>4, <2>8, <3>1, <3>3
      <3> QED BY <2>4, <3>2, <3>3
    <2>9. ASSUME row # None, ackPage = client.page, NEW j \in 1..Len(up'[C]), P(up'[C][j])
          PROVE  row.ack < up'[C][j].seq
      <3>1. row.ack \in 0..MaxSeq /\ row.ack <= client.lastSent
        BY <2>9, FitTyped DEF Types, Numbers
      <3>2. CASE j = Len(up[C]) + 1
        BY <2>2, <2>4, <2>5, <3>1, <3>2, SMTT(30)
      <3>3. CASE j \in 1..Len(up[C])
        BY <2>3, <2>4, <2>9, <3>3
      <3> QED BY <2>4, <3>2, <3>3
    <2>10. \A j \in 1..Len(up'[C]) : IsCall(up'[C][j]) => P(up'[C][j])
      BY <2>1, <2>3, <2>4, <2>5
    <2> QED BY <2>1, <2>7, <2>8, <2>9, <2>10 DEF InOrder, OfPage
  <1>2. ASSUME Frame PROVE InOrder'
    <2>1. client'.page = client.page /\ client'.conn = client.conn /\ client'.link = client.link
          /\ UNCHANGED <<row, ackPage, up>>
      BY <1>2, FrameFacts DEF Unmoved
    <2> QED BY <2>1 DEF InOrder, OfPage
  <1>3. ASSUME Connect PROVE InOrder'
    <2>1. /\ client.conn + 1 \in Conns /\ client'.conn = client.conn + 1 /\ up' = up
      BY <1>3, ConnectFacts
    <2>2. client.conn \in Nat
      BY ClientTyped, MovementBounds
    <2>3. up'[client'.conn] = <<>>
      BY <2>1, <2>2 DEF Links
    <2>4. Len(up'[client'.conn]) = 0
      BY <2>3
    <2>5. \A j \in 1..Len(up'[client'.conn]) : FALSE
      BY <2>4
    <2> QED BY <2>5 DEF InOrder
  <1>4. ASSUME ReceiveSnapshot PROVE InOrder'
    <2>1. /\ Listening /\ Read /\ client.conn \in Conns /\ client'.conn = client.conn
          /\ down[1].kind = "snapshot" /\ client'.page = client.page
          /\ up'[client.conn] = Append(up[client.conn], [kind |-> "Join"])
      BY <1>4, SnapshotFacts
    <2>2. client.link = "connecting"
      BY <2>1, ClientTyped DEF Links, Listening, Read
    <2>3. up[client.conn] = <<>>
      BY <2>2 DEF Links
    <2>4. \A j \in 1..Len(up'[client.conn]) : ~IsCall(up'[client.conn][j])
      <3> DEFINE e == [kind |-> "Join"]
      <3>1. e.kind = "Join"
        OBVIOUS
      <3>2. up'[client.conn] = Append(<<>>, e)
        BY <2>1, <2>3
      <3> HIDE DEF e
      <3>3. Append(<<>>, e) = <<e>>
        OBVIOUS
      <3>4. \A j \in 1..Len(<<e>>) : <<e>>[j] = e
        OBVIOUS
      <3> QED BY <3>1, <3>2, <3>3, <3>4 DEF IsCall
    <2> QED BY <2>1, <2>4 DEF InOrder, OfPage
  <1>5. ASSUME ReceiveRows PROVE InOrder'
    <2>1. client'.page = client.page /\ client'.conn = client.conn /\ client'.link = client.link
          /\ UNCHANGED <<row, ackPage, up>>
      BY <1>5, RowsFacts DEF Unmoved
    <2> QED BY <2>1 DEF InOrder, OfPage
  <1>6. ASSUME ReceiveRejection PROVE InOrder'
    <2>1. client'.page = client.page /\ client'.conn = client.conn /\ client'.link = client.link
          /\ UNCHANGED <<row, ackPage, up>>
      BY <1>6, RejectionFacts DEF Unmoved
    <2> QED BY <2>1 DEF InOrder, OfPage
  <1>7. ASSUME Drop PROVE InOrder'
    <2>1. /\ Listening /\ Lose /\ client'.page = client.page /\ client'.conn = client.conn
          /\ client'.link = "down"
      BY <1>7, DropFacts
    <2>2. /\ client.conn \in Conns /\ client.conn # 0 /\ Shrunk /\ UNCHANGED <<row, ackPage>>
          /\ \A i \in 1..Len(up'[client.conn]) :
               i \in 1..Len(up[client.conn]) /\ up'[client.conn][i] = up[client.conn][i]
      BY <2>1, LoseFacts, LoseShrunk, OnConnection
    <2>3. row' # None /\ ackPage' = client.page =>
           \A j \in 1..Len(up'[client.conn]) :
             OfPage(up'[client.conn][j]) => row'.ack < up'[client.conn][j].seq
      BY <2>2 DEF InOrder
    <2> QED BY <2>1, <2>2, <2>3, InOrderKept
  <1>8. ASSUME Reload PROVE InOrder'
    <2>1. /\ Listening /\ Lose /\ client'.page = client.page + 1 /\ client'.link = "down"
          /\ client'.conn = client.conn
      BY <1>8, ReloadFacts
    <2>2. NoNewCalls /\ UNCHANGED <<row, ackPage>> /\ client.conn \in Conns
      BY <2>1, LoseFacts, LoseNoNew
    <2>3. client.page \in Nat /\ ackPage \in Nat /\ ackPage <= client.page
      BY ClientTyped DEF Types, Numbers
    <2>4. ackPage' # client'.page
      BY <2>1, <2>2, <2>3
    <2>5. \A c \in Conns : \A i \in 1..Len(up'[c]) : ~(IsCall(up'[c][i]) /\ up'[c][i].page = client'.page)
      <3> TAKE c \in Conns
      <3> TAKE i \in 1..Len(up'[c])
      <3>1. SUFFICES ASSUME IsCall(up'[c][i]) PROVE up'[c][i].page # client'.page
        OBVIOUS
      <3>2. PICK j \in 1..Len(up[c]) : up'[c][i] = up[c][j]
        BY <2>2, <3>1 DEF NoNewCalls
      <3>3. up[c][j].page \in Nat /\ up[c][j].page <= client.page
        BY <3>1, <3>2, CallsTyped DEF Numbers
      <3> QED BY <2>1, <2>3, <3>2, <3>3
    <2> QED BY <2>1, <2>2, <2>4, <2>5 DEF InOrder, OfPage
  <1>9. ASSUME NEW c \in Conns, OnDisconnect(c) PROVE InOrder'
    <2>1. (row' = None \/ row' = row) /\ UNCHANGED <<ackPage, up, client>>
      BY <1>9, DisconnectFacts
    <2> QED BY <2>1 DEF InOrder, OfPage
  <1>10. ASSUME NEW c \in Conns, JoinGame(c) PROVE InOrder'
    <2>1. /\ Called(c, [kind |-> "Join"]) /\ UNCHANGED <<ackPage, client>>
          /\ row' = row \/ row'.ack = 0
      BY <1>10, JoinFacts
    <2>2. Shrunk /\ c \in sessions
      BY <2>1, CalledShrunk, CalledFacts
    <2>3. client.conn \in Conns /\ client.conn # 0 /\ ackPage' = ackPage
      BY <2>1, <2>2, ClientTyped, MovementBounds DEF Links, Conns
    <2>4. PICK k \in Nat : Piece(up'[client.conn], up[client.conn], k)
      BY <2>2, <2>3 DEF Shrunk
    <2>5. ASSUME row' # None, ackPage' = client.page,
                 NEW j \in 1..Len(up'[client.conn]), OfPage(up'[client.conn][j])
          PROVE  row'.ack < up'[client.conn][j].seq
      <3>1. j + k \in 1..Len(up[client.conn]) /\ up'[client.conn][j] = up[client.conn][j + k]
        BY <2>4 DEF Piece
      <3>2. CASE row' = row
        BY <2>3, <2>5, <3>1, <3>2 DEF InOrder
      <3>3. CASE row'.ack = 0
        <4>1. up[client.conn][j + k].seq \in 1..MaxSeq
          BY <2>3, <2>5, <3>1, CallsTyped DEF OfPage
        <4> QED BY <3>1, <3>3, <4>1
      <3> QED BY <2>1, <3>2, <3>3
    <2> QED BY <2>1, <2>2, <2>3, <2>5, InOrderKept
  <1>11. ASSUME NEW c \in Conns, NEW call, Move(c, call) PROVE InOrder'
    <2>1. /\ Called(c, call) /\ client' = client /\ IsCall(call)
          /\ \/ row # None /\ row'.ack = call.seq /\ ackPage' = call.page
             \/ UNCHANGED <<row, ackPage>>
      BY <1>11, MoveFacts
    <2>2. Shrunk /\ c \in sessions /\ call = up[c][1] /\ 1 \in 1..Len(up[c])
      BY <2>1, CalledShrunk, CalledFacts
    <2>3. client.conn \in Conns /\ client.conn # 0
      BY <2>2, ClientTyped, MovementBounds, SMTT(30) DEF Links, Conns
    <2>4. PICK k \in Nat : Piece(up'[client.conn], up[client.conn], k) /\ (c = client.conn => k = 1)
      <3>1. CASE c = client.conn
        BY <2>1, <3>1, CalledFacts
      <3>2. CASE c # client.conn
        BY <2>2, <2>3, <3>2 DEF Shrunk
      <3> QED BY <3>1, <3>2
    <2>5. ASSUME row' # None, ackPage' = client.page,
                 NEW j \in 1..Len(up'[client.conn]), OfPage(up'[client.conn][j])
          PROVE  row'.ack < up'[client.conn][j].seq
      <3>1. j + k \in 1..Len(up[client.conn]) /\ up'[client.conn][j] = up[client.conn][j + k]
        BY <2>4 DEF Piece
      <3>2. CASE UNCHANGED <<row, ackPage>>
        BY <2>1, <2>3, <2>5, <3>1, <3>2 DEF InOrder
      <3>3. CASE row'.ack = call.seq /\ ackPage' = call.page
        <4>1. OfPage(call)
          BY <2>1, <2>5, <3>3 DEF OfPage
        <4>2. CASE c = client.conn
          <5>1. 1 < j + k
            BY <2>4, <4>2
          <5> QED BY <2>2, <2>3, <2>5, <3>1, <3>3, <4>1, <4>2, <5>1 DEF InOrder
        <4>3. CASE c # client.conn
          BY <2>2, <2>3, <2>5, <3>1, <3>3, <4>1, <4>3 DEF InOrder
        <4> QED BY <4>2, <4>3
      <3> QED BY <2>1, <3>2, <3>3
    <2>6. ackPage # client.page /\ (\A d \in Conns : \A i \in 1..Len(up[d]) : ~OfPage(up[d][i]))
            => ackPage' # client.page
      BY <2>1, <2>2 DEF OfPage
    <2>7. client'.conn = client.conn /\ client'.page = client.page /\ client'.link = client.link
      BY <2>1
    <2> QED BY <2>2, <2>3, <2>5, <2>6, <2>7, InOrderKept
  <1>12. ASSUME MovementTick PROVE InOrder'
    <2>1. row # None /\ row'.ack = row.ack /\ UNCHANGED <<ackPage, up, client>>
      BY <1>12, TickFacts DEF Types
    <2> QED BY <2>1 DEF InOrder, OfPage
  <1>13. ASSUME UNCHANGED <<row, ackPage, sessions, up, down, client>> PROVE InOrder'
    BY <1>13 DEF InOrder, OfPage
  <1> QED BY <1>1, <1>2, <1>3, <1>4, <1>5, <1>6, <1>7, <1>8, <1>9, <1>10, <1>11, <1>12, <1>13 DEF MovementNext, Serve, Challenged, BattleOver, movementVars

-----------------------------------------------------------------------------
(* The browser's own calls under way.                                       *)

(* With a new predictor, nothing that is under way is its own.              *)
LEMMA FreshEpoch ==
  ASSUME Types, Numbers, NoNewCalls, row' = row, Read,
         client'.epoch \in Nat, client'.epoch > client.epoch
  PROVE  /\ \A c \in Conns : \A i \in 1..Len(up'[c]) :
              ~(IsCall(up'[c][i]) /\ up'[c][i].epoch = client'.epoch)
         /\ \A i \in 1..Len(down') : down'[i].kind = "rejected" => down'[i].epoch # client'.epoch
         /\ row' # None => \A i \in 1..Len(row'.queue) : row'.queue[i].epoch # client'.epoch
  <1>1. client.epoch \in Nat
    BY ClientTyped
  <1>2. ASSUME NEW c \in Conns, NEW i \in 1..Len(up'[c]), IsCall(up'[c][i])
        PROVE  up'[c][i].epoch # client'.epoch
    <2>1. PICK j \in 1..Len(up[c]) : up'[c][i] = up[c][j]
      BY <1>2 DEF NoNewCalls
    <2>2. up[c][j].epoch \in Nat /\ up[c][j].epoch <= client.epoch
      BY <1>2, <2>1, CallsTyped DEF Numbers
    <2> QED BY <1>1, <2>1, <2>2
  <1>3. ASSUME NEW i \in 1..Len(down'), down'[i].kind = "rejected"
        PROVE  down'[i].epoch # client'.epoch
    <2>1. i + 1 \in 1..Len(down) /\ down'[i] = down[i + 1]
      BY DEF Read, Piece
    <2>2. down[i + 1].epoch \in Nat /\ down[i + 1].epoch <= client.epoch
      BY <1>3, <2>1, DownTyped DEF Numbers
    <2> QED BY <1>1, <2>1, <2>2
  <1>4. ASSUME row # None, NEW i \in 1..Len(row.queue) PROVE row.queue[i].epoch # client'.epoch
    <2>1. row.queue[i].epoch \in Nat /\ row.queue[i].epoch <= client.epoch
      BY <1>4, FitTyped DEF Types, Numbers
    <2> QED BY <1>1, <2>1
  <1> QED BY <1>2, <1>3, <1>4

LEMMA AckNat == \A r : r = None \/ Fit(r) => Ack(r) \in Nat
  BY FitTyped DEF Ack

LEMMA OwnCallsKept ==
  ASSUME Types, OwnCalls, Shrunk, client.link = "up", client.conn \in Conns,
         client'.conn = client.conn, client'.epoch = client.epoch, client'.lastSent = client.lastSent,
         \A i \in 1..Len(down') : down'[i].kind = "rejected" /\ down'[i].epoch = client.epoch =>
           \/ \E l \in 1..Len(down) : down'[i] = down[l]
           \/ /\ down'[i].seq <= client.lastSent
              /\ \A j \in 1..Len(up'[client.conn]) : Own(up'[client.conn][j])
                    => down'[i].seq < up'[client.conn][j].seq,
         client'.store = None \/ Fit(client'.store), Ack(client.store) <= Ack(client'.store),
         \A j \in 1..Len(up[client.conn]), l \in 1..Len(client.pending) :
           /\ Own(up[client.conn][j]) /\ client.pending[l].seq = up[client.conn][j].seq
           /\ Ack(client'.store) < up[client.conn][j].seq
           => \E k \in 1..Len(client'.pending) : client'.pending[k].seq = up[client.conn][j].seq
  PROVE  OwnCalls'
  <1> DEFINE C == client.conn
             P(x) == IsCall(x) /\ x.epoch = client.epoch
  <1>1. /\ \A c \in Conns \ {C} : \A i \in 1..Len(up[c]) : ~P(up[c][i])
        /\ \A i \in 1..Len(down) : down[i].kind = "rejected" /\ down[i].epoch = client.epoch =>
             /\ down[i].seq <= client.lastSent
             /\ \A j \in 1..Len(up[C]) : P(up[C][j]) => down[i].seq < up[C][j].seq
        /\ \A i \in 1..Len(up[C]) : P(up[C][i]) /\ Ack(client.store) < up[C][i].seq =>
             \E k \in 1..Len(client.pending) : client.pending[k].seq = up[C][i].seq
    BY DEF OwnCalls, Own
  <1>2. PICK k \in Nat : Piece(up'[C], up[C], k)
    BY DEF Shrunk
  <1>3. \A i \in 1..Len(up'[C]) : i + k \in 1..Len(up[C]) /\ up'[C][i] = up[C][i + k]
    BY <1>2 DEF Piece
  <1>4. ASSUME NEW c \in Conns \ {C}, NEW i \in 1..Len(up'[c]) PROVE ~P(up'[c][i])
    <2>1. PICK l \in Nat : Piece(up'[c], up[c], l)
      BY DEF Shrunk
    <2>2. i + l \in 1..Len(up[c]) /\ up'[c][i] = up[c][i + l]
      BY <2>1 DEF Piece
    <2> QED BY <1>1, <2>2
  <1>5. ASSUME NEW i \in 1..Len(down'), down'[i].kind = "rejected", down'[i].epoch = client.epoch
        PROVE  /\ down'[i].seq <= client.lastSent
               /\ \A j \in 1..Len(up'[C]) : P(up'[C][j]) => down'[i].seq < up'[C][j].seq
    <2>1. CASE \E l \in 1..Len(down) : down'[i] = down[l]
      BY <1>1, <1>3, <1>5, <2>1, ZenonT(40)
    <2>2. CASE /\ down'[i].seq <= client.lastSent
               /\ \A j \in 1..Len(up'[client.conn]) : Own(up'[client.conn][j])
                    => down'[i].seq < up'[client.conn][j].seq
      BY <2>2 DEF Own
    <2> QED BY <1>5, <2>1, <2>2
  <1>6. ASSUME NEW i \in 1..Len(up'[C]), P(up'[C][i]), Ack(client'.store) < up'[C][i].seq
        PROVE  \E n \in 1..Len(client'.pending) : client'.pending[n].seq = up'[C][i].seq
    <2>1. i + k \in 1..Len(up[C]) /\ up'[C][i] = up[C][i + k] /\ P(up[C][i + k])
      BY <1>3, <1>6
    <2>2. up[C][i + k].seq \in Nat /\ Ack(client.store) \in Nat /\ Ack(client'.store) \in Nat
      <3>1. up[C][i + k].seq \in 1..MaxSeq
        BY <2>1, CallsTyped
      <3>2. client.store = None \/ Fit(client.store)
        BY ClientTyped
      <3> QED BY <3>1, <3>2, AckNat
    <2>3. Ack(client.store) < up[C][i + k].seq /\ Ack(client'.store) < up[C][i + k].seq
      BY <1>6, <2>1, <2>2
    <2>4. PICK l \in 1..Len(client.pending) : client.pending[l].seq = up[C][i + k].seq
      BY <1>1, <2>1, <2>3
    <2> QED BY <2>1, <2>3, <2>4 DEF Own
  <1> QED BY <1>4, <1>5, <1>6 DEF OwnCalls, Own

LEMMA OwnCallsStep ==
  ASSUME Types, Links, Known, Numbers, InOrder, OwnCalls, MovementNext \/ UNCHANGED movementVars
  PROVE  OwnCalls'
  <1>1. ASSUME NEW op \in Ops, Send(op) PROVE OwnCalls'
    <2> DEFINE C == client.conn
               P(x) == IsCall(x) /\ x.epoch = client.epoch
    <2>1. /\ client.link = "up" /\ C \in Conns /\ CallOf(op) \in Calls /\ client.next + 1 \in 1..MaxSeq
          /\ client'.conn = C /\ client'.epoch = client.epoch /\ client'.store = client.store
          /\ client'.lastSent = client.next + 1
          /\ up'[C] = Append(up[C], CallOf(op)) /\ UNCHANGED down
          /\ (\A d \in Conns \ {C} : up'[d] = up[d])
          /\ client'.pending = Append(client.pending, StepOf(op)) /\ StepOf(op) \in Steps
      BY <1>1, SendFacts
    <2>2. /\ client.lastSent \in 0..MaxSeq /\ client.next \in 0..MaxSeq /\ client.lastSent <= client.next
          /\ client.pending \in Seq(Steps) /\ client.epoch \in Nat
      BY ClientTyped
    <2>3. /\ \A c \in Conns \ {C} : \A i \in 1..Len(up[c]) : ~P(up[c][i])
          /\ \A i \in 1..Len(down) : down[i].kind = "rejected" /\ down[i].epoch = client.epoch =>
               /\ down[i].seq <= client.lastSent
               /\ \A j \in 1..Len(up[C]) : P(up[C][j]) => down[i].seq < up[C][j].seq
          /\ \A i \in 1..Len(up[C]) : P(up[C][i]) /\ Ack(client.store) < up[C][i].seq =>
               \E k \in 1..Len(client.pending) : client.pending[k].seq = up[C][i].seq
      BY <2>1 DEF OwnCalls, Own
    <2>4. /\ up'[C][Len(up[C]) + 1] = CallOf(op) /\ Len(up[C]) \in Nat
          /\ \A i \in 1..Len(up[C]) : up'[C][i] = up[C][i]
          /\ \A i \in 1..Len(up'[C]) : i = Len(up[C]) + 1 \/ i \in 1..Len(up[C])
      <3>1. up[C] \in Seq(Joins \cup Calls) /\ CallOf(op) \in Joins \cup Calls
        BY <2>1, CallsTyped
      <3> QED BY <2>1, <3>1
    <2>5. CallOf(op).seq = client.next + 1 /\ StepOf(op).seq = client.next + 1
      BY DEF CallOf, StepOf
    <2>6. /\ Len(client'.pending) = Len(client.pending) + 1 /\ Len(client.pending) \in Nat
          /\ client'.pending[Len(client.pending) + 1] = StepOf(op)
          /\ \A k \in 1..Len(client.pending) : client'.pending[k] = client.pending[k]
      BY ONLY <2>1, <2>2
    <2>7. ASSUME NEW i \in 1..Len(down), down[i].kind = "rejected", down[i].epoch = client.epoch
          PROVE  /\ down[i].seq <= client.next + 1
                 /\ \A j \in 1..Len(up'[C]) : P(up'[C][j]) => down[i].seq < up'[C][j].seq
      <3>1. down[i].seq \in Nat /\ down[i].seq <= client.lastSent /\ down[i].seq < client.next + 1
        BY <2>2, <2>3, <2>7, DownTyped
      <3>2. ASSUME NEW j \in 1..Len(up'[C]), P(up'[C][j]) PROVE down[i].seq < up'[C][j].seq
        <4>1. CASE j = Len(up[C]) + 1
          BY <2>4, <2>5, <3>1, <4>1
        <4>2. CASE j \in 1..Len(up[C])
          BY <2>3, <2>4, <2>7, <3>2, <4>2
        <4> QED BY <2>4, <4>1, <4>2
      <3>3. down[i].seq <= client.next + 1
        BY <2>2, <3>1
      <3> QED BY <3>2, <3>3
    <2>8. ASSUME NEW i \in 1..Len(up'[C]), P(up'[C][i]), Ack(client.store) < up'[C][i].seq
          PROVE  \E k \in 1..Len(client'.pending) : client'.pending[k].seq = up'[C][i].seq
      <3>1. CASE i = Len(up[C]) + 1
        <4>1. Len(client.pending) + 1 \in 1..Len(client'.pending)
          BY <2>6
        <4> QED BY <2>4, <2>5, <2>6, <3>1, <4>1
      <3>2. CASE i \in 1..Len(up[C])
        <4>1. PICK k \in 1..Len(client.pending) : client.pending[k].seq = up[C][i].seq
          BY <2>3, <2>4, <2>8, <3>2
        <4>2. k \in 1..Len(client'.pending)
          BY <2>6
        <4> QED BY <2>4, <2>6, <3>2, <4>1, <4>2
      <3> QED BY <2>4, <3>1, <3>2
    <2>9. \A c \in Conns \ {C} : \A i \in 1..Len(up'[c]) : ~P(up'[c][i])
      BY <2>1, <2>3
    <2>10. /\ client'.conn = C /\ client'.epoch = client.epoch /\ client'.store = client.store
           /\ client'.lastSent = client.next + 1 /\ down' = down
      BY <2>1
    <2> QED BY <2>7, <2>8, <2>9, <2>10 DEF OwnCalls, Own
  <1>2. ASSUME Frame PROVE OwnCalls'
    <2>1. /\ client'.conn = client.conn /\ client'.link = client.link /\ client'.epoch = client.epoch
          /\ client'.store = client.store /\ client'.lastSent = client.lastSent
          /\ client'.pending = client.pending /\ UNCHANGED <<up, down>>
      BY <1>2, FrameFacts DEF Unmoved
    <2> QED BY <2>1 DEF OwnCalls, Own
  <1>3. ASSUME Connect PROVE OwnCalls'
    <2>1. client'.link = "connecting"
      BY <1>3, ConnectFacts
    <2> QED BY <2>1 DEF OwnCalls
  <1>4. ASSUME ReceiveSnapshot PROVE OwnCalls'
    <2>1. /\ Read /\ client'.epoch > client.epoch /\ BrowserTypes(client') /\ row' = row
          /\ client'.conn = client.conn /\ client.conn \in Conns
      BY <1>4, SnapshotFacts
    <2>2. NoNewCalls /\ client'.epoch \in Nat
      BY <1>4, <2>1, SnapshotNoNew DEF BrowserTypes, Browsers
    <2> QED BY <2>1, <2>2, FreshEpoch DEF OwnCalls, Own
  <1>5. ASSUME ReceiveRows PROVE OwnCalls'
    <2>1. /\ client.link = "up" /\ Read /\ BrowserTypes(client') /\ UNCHANGED <<row, up>>
          /\ client'.conn = client.conn /\ client.conn \in Conns /\ client'.lastSent = client.lastSent
          /\ Fit(client'.store) /\ client'.store = down[1].row /\ down[1].kind = "rows"
          /\ \/ client'.epoch = client.epoch /\ Keeps(client', client, client'.store.ack)
             \/ client'.epoch = client.epoch + 1
      BY <1>5, RowsFacts
    <2>2. client.epoch \in Nat
      BY ClientTyped
    <2>3. CASE client'.epoch = client.epoch + 1
      <3>1. client'.epoch \in Nat /\ client'.epoch > client.epoch /\ NoNewCalls
        BY <2>1, <2>2, <2>3 DEF NoNewCalls
      <3> QED BY <2>1, <3>1, FreshEpoch DEF OwnCalls, Own
    <2>4. CASE client'.epoch = client.epoch /\ Keeps(client', client, client'.store.ack)
      <3>1. Shrunk
        BY <2>1, SameShrunk
      <3>2. Ack(client.store) <= Ack(client'.store) /\ Ack(client'.store) = client'.store.ack
        <4>1. Ack(client.store) <= Ack(down[1].row)
          BY <2>1 DEF Known, Read, Telltale
        <4> QED BY <2>1, <4>1, FitTyped DEF Ack
      <3>3. \A i \in 1..Len(down') : \E l \in 1..Len(down) : down'[i] = down[l]
        BY <2>1 DEF Read, Piece
      <3>4. ASSUME NEW j \in 1..Len(up[client.conn]), NEW l \in 1..Len(client.pending),
                   client.pending[l].seq = up[client.conn][j].seq,
                   Ack(client'.store) < up[client.conn][j].seq
            PROVE  \E k \in 1..Len(client'.pending) : client'.pending[k].seq = up[client.conn][j].seq
        <4>1. client.pending[l].seq \in Nat /\ client'.store.ack \in Nat
          BY <2>1, ClientTyped, FitTyped, SMTT(30)
        <4>2. client.pending[l].seq > client'.store.ack
          BY <3>2, <3>4, <4>1
        <4> QED BY <2>4, <3>4, <4>2 DEF Keeps
      <3> QED BY <2>1, <2>4, <3>1, <3>2, <3>3, <3>4, OwnCallsKept
    <2> QED BY <2>1, <2>3, <2>4
  <1>6. ASSUME ReceiveRejection PROVE OwnCalls'
    <2>1. /\ client.link = "up" /\ Read /\ BrowserTypes(client') /\ Unmoved(client, client') /\ UNCHANGED <<row, up>>
          /\ client.conn \in Conns /\ down[1].kind = "rejected"
          /\ client'.epoch = client.epoch =>
              \A l \in 1..Len(client.pending) :
                   /\ (down[1].epoch = client.epoch => client.pending[l].seq # down[1].seq)
                   /\ (client.store # None => client.pending[l].seq > client.store.ack)
                   => \E k \in 1..Len(client'.pending) : client'.pending[k] = client.pending[l]
          /\ client'.epoch # client.epoch => client'.epoch = client.epoch + 1
      BY <1>6, RejectionFacts
    <2>2. client.epoch \in Nat /\ (client.store = None \/ Fit(client.store))
      BY ClientTyped
    <2>3. /\ client'.conn = client.conn /\ client'.lastSent = client.lastSent
          /\ client'.store = client.store /\ client'.link = client.link
      BY <2>1 DEF Unmoved
    <2>4. CASE client'.epoch = client.epoch + 1
      <3>1. client'.epoch \in Nat /\ client'.epoch > client.epoch /\ NoNewCalls
        BY <2>1, <2>2, <2>4 DEF NoNewCalls
      <3> QED BY <2>1, <2>3, <3>1, FreshEpoch DEF OwnCalls, Own
    <2>5. CASE client'.epoch = client.epoch
      <3>1. Shrunk
        BY <2>1, SameShrunk
      <3>2. Ack(client.store) \in Nat /\ Ack(client.store) <= Ack(client'.store)
        BY <2>2, <2>3, AckNat
      <3>3. \A i \in 1..Len(down') : \E l \in 1..Len(down) : down'[i] = down[l]
        BY <2>1 DEF Read, Piece
      <3>4. ASSUME NEW j \in 1..Len(up[client.conn]), NEW l \in 1..Len(client.pending),
                   Own(up[client.conn][j]), client.pending[l].seq = up[client.conn][j].seq,
                   Ack(client'.store) < up[client.conn][j].seq
            PROVE  \E k \in 1..Len(client'.pending) : client'.pending[k].seq = up[client.conn][j].seq
        <4>1. client.pending[l].seq \in Nat
          BY ClientTyped, SMTT(30)
        <4>2. client.store # None => client.pending[l].seq > client.store.ack
          BY <2>2, <2>3, <3>2, <3>4, <4>1 DEF Ack
        <4>3. down[1].epoch = client.epoch => client.pending[l].seq # down[1].seq
          <5> HAVE down[1].epoch = client.epoch
          <5>1. 1 \in 1..Len(down)
            BY <2>1 DEF Read
          <5>2. down[1].seq < up[client.conn][j].seq
            BY <2>1, <3>4, <5>1 DEF OwnCalls
          <5>3. down[1].seq \in 1..MaxSeq
            BY <2>1, <5>1, DownTyped
          <5> QED BY <3>4, <4>1, <5>2, <5>3
        <4> QED BY <2>1, <2>5, <3>4, <4>2, <4>3
      <3>5. client'.store = None \/ Fit(client'.store)
        BY <2>2, <2>3
      <3> QED BY <2>1, <2>3, <2>5, <3>1, <3>2, <3>3, <3>4, <3>5, OwnCallsKept
    <2> QED BY <2>1, <2>4, <2>5
  <1>7. ASSUME Drop PROVE OwnCalls'
    <2>1. client'.link = "down"
      BY <1>7, DropFacts
    <2> QED BY <2>1 DEF OwnCalls
  <1>8. ASSUME Reload PROVE OwnCalls'
    <2>1. client'.link = "down"
      BY <1>8, ReloadFacts
    <2> QED BY <2>1 DEF OwnCalls
  <1>9. ASSUME NEW c \in Conns, OnDisconnect(c) PROVE OwnCalls'
    <2>1. UNCHANGED <<up, down, client>>
      BY <1>9, DisconnectFacts
    <2> QED BY <2>1 DEF OwnCalls, Own
  <1>10. ASSUME NEW c \in Conns, JoinGame(c) PROVE OwnCalls'
    <2>1. /\ Called(c, [kind |-> "Join"]) /\ client' = client
          /\ \/ UNCHANGED <<row, down>>
             \/ Fit(row') /\ down' = Telling(Rows(row'))
      BY <1>10, JoinFacts
    <2>2. Shrunk
      BY <2>1, CalledShrunk
    <2>3. CASE client.link # "up"
      BY <2>1, <2>3 DEF OwnCalls
    <2>4. CASE client.link = "up"
      <3>1. Listening /\ client.conn \in Conns /\ (client.store = None \/ Fit(client.store))
        BY <2>4, OnConnection, ClientTyped DEF Listening
      <3>2. Ack(client.store) \in Nat /\ Ack(client.store) <= Ack(client'.store)
        BY <2>1, <3>1, AckNat
      <3>3. \A i \in 1..Len(down') : down'[i].kind = "rejected" => \E l \in 1..Len(down) : down'[i] = down[l]
        <4>1. CASE down' = down
          BY <4>1
        <4>2. CASE Ends(down', Rows(row'))
          BY <4>2 DEF Ends, Rows
        <4> QED BY <2>1, <3>1, <4>1, <4>2, RowTold
      <3> QED BY <2>1, <2>2, <2>4, <3>1, <3>2, <3>3, OwnCallsKept
    <2> QED BY <2>3, <2>4
  <1>11. ASSUME NEW c \in Conns, NEW call, Move(c, call) PROVE OwnCalls'
    <2>1. /\ Called(c, call) /\ client' = client /\ call \in Calls /\ IsCall(call)
          /\ \/ row # None /\ Fit(row') /\ down' = Telling(Rows(row'))
             \/ down' = IF c = client.conn THEN Telling(Rejected(call)) ELSE down
      BY <1>11, MoveFacts
    <2>2. Shrunk /\ call = up[c][1] /\ 1 \in 1..Len(up[c])
      BY <2>1, CalledShrunk, CalledFacts
    <2>3. CASE client.link # "up"
      BY <2>1, <2>3 DEF OwnCalls
    <2>4. CASE client.link = "up"
      <3>1. Listening /\ client.conn \in Conns /\ (client.store = None \/ Fit(client.store))
        BY <2>4, OnConnection, ClientTyped DEF Listening
      <3>2. Ack(client.store) \in Nat /\ Ack(client.store) <= Ack(client'.store)
        BY <2>1, <3>1, AckNat
      <3>3. ASSUME NEW i \in 1..Len(down'), down'[i].kind = "rejected", down'[i].epoch = client.epoch
            PROVE  \/ \E l \in 1..Len(down) : down'[i] = down[l]
                   \/ /\ down'[i].seq <= client.lastSent
                      /\ \A j \in 1..Len(up'[client.conn]) : Own(up'[client.conn][j])
                            => down'[i].seq < up'[client.conn][j].seq
        <4>1. CASE down' = down
          BY <4>1
        <4>2. CASE Ends(down', Rows(row'))
          BY <3>3, <4>2 DEF Ends, Rows
        <4>3. CASE c = client.conn /\ Ends(down', Rejected(call))
          <5>1. CASE i \in 1..Len(down) /\ down'[i] = down[i]
            BY <5>1
          <5>2. CASE down'[i] = Rejected(call)
            <6>1. down'[i].seq = call.seq /\ call.epoch = client.epoch
              BY <3>3, <5>2 DEF Rejected
            <6>2. call.page = client.page /\ call.seq <= client.lastSent
              BY <2>1, <2>2, <6>1 DEF Numbers, OfPage
            <6>3. ASSUME NEW j \in 1..Len(up'[client.conn]), Own(up'[client.conn][j])
                  PROVE  call.seq < up'[client.conn][j].seq
              <7>1. j + 1 \in 1..Len(up[c]) /\ up'[c][j] = up[c][j + 1] /\ 1 < j + 1
                BY <2>1, <4>3, CalledFacts DEF Piece
              <7>2. up[c][j + 1].page = client.page /\ IsCall(up[c][j + 1])
                BY <4>3, <6>3, <7>1 DEF Numbers, Own
              <7>3. client.conn # 0
                BY <3>1, OnConnection
              <7> QED BY <2>1, <2>2, <4>3, <6>2, <7>1, <7>2, <7>3 DEF InOrder, OfPage
            <6> QED BY <6>1, <6>2, <6>3
          <5> QED BY <4>3, <5>1, <5>2 DEF Ends
        <4> QED BY <2>1, <3>1, <4>1, <4>2, <4>3, RowTold, RejectionTold
      <3> QED BY <2>1, <2>2, <2>4, <3>1, <3>2, <3>3, OwnCallsKept
    <2> QED BY <2>3, <2>4
  <1>12. ASSUME MovementTick PROVE OwnCalls'
    <2>1. /\ Fit(row') /\ down' = Telling(Rows(row')) /\ UNCHANGED <<up, client>>
      BY <1>12, TickFacts DEF Types
    <2>2. Shrunk
      BY <2>1, SameShrunk
    <2>3. CASE client.link # "up"
      BY <2>1, <2>3 DEF OwnCalls
    <2>4. CASE client.link = "up"
      <3>1. Listening /\ client.conn \in Conns /\ (client.store = None \/ Fit(client.store))
        BY <2>4, OnConnection, ClientTyped DEF Listening
      <3>2. Ack(client.store) \in Nat /\ Ack(client.store) <= Ack(client'.store)
        BY <2>1, <3>1, AckNat
      <3>3. \A i \in 1..Len(down') : down'[i].kind = "rejected" => \E l \in 1..Len(down) : down'[i] = down[l]
        <4>1. Ends(down', Rows(row'))
          BY <2>1, <3>1, RowTold
        <4> QED BY <4>1 DEF Ends, Rows
      <3> QED BY <2>1, <2>2, <2>4, <3>1, <3>2, <3>3, OwnCallsKept
    <2> QED BY <2>3, <2>4
  <1>13. ASSUME UNCHANGED <<row, ackPage, sessions, up, down, client>> PROVE OwnCalls'
    BY <1>13 DEF OwnCalls, Own
  <1> QED BY <1>1, <1>2, <1>3, <1>4, <1>5, <1>6, <1>7, <1>8, <1>9, <1>10, <1>11, <1>12, <1>13 DEF MovementNext, Serve, Challenged, BattleOver, movementVars

-----------------------------------------------------------------------------
(* The browser's own entries of the queue.                                  *)

LEMMA OwnEntriesKept ==
  ASSUME Types, OwnEntries, Shrunk, client.link = "up", client.conn \in Conns,
         client'.conn = client.conn, client'.epoch = client.epoch, client'.lastSent = client.lastSent,
         row # None, row' # None, Fit(row'), row'.ack = row.ack,
         NEW n \in Nat, Piece(row'.queue, row.queue, n),
         \A j \in 1..Len(down') : down'[j].kind = "rejected" /\ down'[j].epoch = client.epoch =>
           \/ \E l \in 1..Len(down) : down'[j] = down[l]
           \/ \A i \in 1..Len(row.queue) : Ours(row.queue[i]) => down'[j].seq # row.queue[i].seq,
         client'.store = None \/ Fit(client'.store), Ack(client.store) <= Ack(client'.store),
         \A i \in 1..Len(row.queue), l \in 1..Len(client.pending) :
           /\ Ours(row.queue[i]) /\ client.pending[l].seq = row.queue[i].seq
           /\ Ack(client'.store) < row.queue[i].seq
           => \E k \in 1..Len(client'.pending) : client'.pending[k].seq = row.queue[i].seq
  PROVE  OwnEntries'
  <1> DEFINE C == client.conn
             P(x) == IsCall(x) /\ x.epoch = client.epoch
             Q(e) == e.epoch = client.epoch
  <1>1. \A i \in 1..Len(row.queue) : Q(row.queue[i]) =>
          /\ row.queue[i].seq <= row.ack /\ row.queue[i].seq <= client.lastSent
          /\ \A j \in 1..Len(row.queue) : i < j /\ Q(row.queue[j]) => row.queue[i].seq < row.queue[j].seq
          /\ \A j \in 1..Len(up[C]) : P(up[C][j]) => row.queue[i].seq < up[C][j].seq
          /\ \A j \in 1..Len(down) :
               down[j].kind = "rejected" /\ down[j].epoch = client.epoch => down[j].seq # row.queue[i].seq
          /\ Ack(client.store) < row.queue[i].seq =>
               \E k \in 1..Len(client.pending) : client.pending[k].seq = row.queue[i].seq
    BY DEF OwnEntries, Own, Ours
  <1>2. PICK k \in Nat : Piece(up'[C], up[C], k)
    BY DEF Shrunk
  <1>3. \A j \in 1..Len(up'[C]) : j + k \in 1..Len(up[C]) /\ up'[C][j] = up[C][j + k]
    BY <1>2 DEF Piece
  <1>4. \A i \in 1..Len(row'.queue) : i + n \in 1..Len(row.queue) /\ row'.queue[i] = row.queue[i + n]
    BY DEF Piece
  <1>5. ASSUME NEW i \in 1..Len(row'.queue), Q(row'.queue[i])
        PROVE  /\ row'.queue[i].seq <= row'.ack /\ row'.queue[i].seq <= client.lastSent
               /\ \A j \in 1..Len(row'.queue) : i < j /\ Q(row'.queue[j]) => row'.queue[i].seq < row'.queue[j].seq
               /\ \A j \in 1..Len(up'[C]) : P(up'[C][j]) => row'.queue[i].seq < up'[C][j].seq
               /\ \A j \in 1..Len(down') :
                    down'[j].kind = "rejected" /\ down'[j].epoch = client.epoch => down'[j].seq # row'.queue[i].seq
               /\ Ack(client'.store) < row'.queue[i].seq =>
                    \E l \in 1..Len(client'.pending) : client'.pending[l].seq = row'.queue[i].seq
    <2> DEFINE m == i + n
    <2>1. m \in 1..Len(row.queue) /\ row'.queue[i] = row.queue[m] /\ Q(row.queue[m])
      BY <1>4, <1>5
    <2>2. /\ row.queue[m].seq <= row.ack /\ row.queue[m].seq <= client.lastSent
      BY <1>1, <2>1
    <2>3. ASSUME NEW j \in 1..Len(row'.queue), i < j, Q(row'.queue[j]) PROVE row.queue[m].seq < row'.queue[j].seq
      <3>1. j + n \in 1..Len(row.queue) /\ row'.queue[j] = row.queue[j + n] /\ m < j + n
        BY <1>4, <2>3
      <3> QED BY <1>1, <2>1, <2>3, <3>1
    <2>4. ASSUME NEW j \in 1..Len(up'[C]), P(up'[C][j]) PROVE row.queue[m].seq < up'[C][j].seq
      <3>1. j + k \in 1..Len(up[C]) /\ up'[C][j] = up[C][j + k]
        BY <1>3
      <3>2. \A o \in 1..Len(up[C]) : P(up[C][o]) => row.queue[m].seq < up[C][o].seq
        BY <1>1, <2>1
      <3> QED BY <2>4, <3>1, <3>2
    <2>5. ASSUME NEW j \in 1..Len(down'), down'[j].kind = "rejected", down'[j].epoch = client.epoch
          PROVE  down'[j].seq # row.queue[m].seq
      <3>1. CASE \E l \in 1..Len(down) : down'[j] = down[l]
        BY <1>1, <2>1, <2>5, <3>1
      <3>2. CASE \A o \in 1..Len(row.queue) : Ours(row.queue[o]) => down'[j].seq # row.queue[o].seq
        BY <2>1, <3>2 DEF Ours
      <3> QED BY <2>5, <3>1, <3>2
    <2>6. ASSUME Ack(client'.store) < row.queue[m].seq
          PROVE  \E l \in 1..Len(client'.pending) : client'.pending[l].seq = row.queue[m].seq
      <3>1. row.queue[m].seq \in 1..MaxSeq
        BY <2>1, FitTyped DEF Types
      <3>2. client.store = None \/ Fit(client.store)
        BY ClientTyped
      <3>3. Ack(client.store) < row.queue[m].seq
        BY <2>6, <3>1, <3>2, AckNat
      <3>4. PICK l \in 1..Len(client.pending) : client.pending[l].seq = row.queue[m].seq
        BY <1>1, <2>1, <3>3
      <3> QED BY <2>1, <2>6, <3>4 DEF Ours
    <2> QED BY <2>1, <2>2, <2>3, <2>4, <2>5, <2>6
  <1> QED BY <1>5 DEF OwnEntries, Own, Ours

LEMMA NoEntries ==
  ASSUME row' = None \/ row'.queue = <<>>
  PROVE  OwnEntries' /\ OwnSeen'
  <1>1. row' # None => \A i \in 1..Len(row'.queue) : FALSE
    <2> HAVE row' # None
    <2>1. Len(row'.queue) = 0
      OBVIOUS
    <2> QED BY <2>1
  <1> QED BY <1>1 DEF OwnEntries, OwnSeen

LEMMA OwnEntriesStep ==
  ASSUME Types, Links, Known, Numbers, InOrder, OwnCalls, OwnEntries, MovementNext \/ UNCHANGED movementVars
  PROVE  OwnEntries'
  <1>1. ASSUME NEW op \in Ops, Send(op) PROVE OwnEntries'
    <2> DEFINE C == client.conn
    <2>1. /\ client.link = "up" /\ C \in Conns /\ CallOf(op) \in Calls /\ client.next + 1 \in 1..MaxSeq
          /\ client'.conn = C /\ client'.epoch = client.epoch /\ client'.store = client.store
          /\ client'.lastSent = client.next + 1
          /\ up'[C] = Append(up[C], CallOf(op)) /\ UNCHANGED <<row, down>>
          /\ client'.pending = Append(client.pending, StepOf(op)) /\ StepOf(op) \in Steps
      BY <1>1, SendFacts
    <2>2. /\ client.lastSent \in 0..MaxSeq /\ client.next \in 0..MaxSeq /\ client.lastSent <= client.next
          /\ client.pending \in Seq(Steps) /\ client.epoch \in Nat
      BY ClientTyped
    <2>3. /\ up'[C][Len(up[C]) + 1] = CallOf(op) /\ Len(up[C]) \in Nat
          /\ \A i \in 1..Len(up[C]) : up'[C][i] = up[C][i]
          /\ \A i \in 1..Len(up'[C]) : i = Len(up[C]) + 1 \/ i \in 1..Len(up[C])
      <3>1. up[C] \in Seq(Joins \cup Calls) /\ CallOf(op) \in Joins \cup Calls
        BY <2>1, CallsTyped
      <3> QED BY <2>1, <3>1
    <2>4. CallOf(op).seq = client.next + 1
      BY DEF CallOf
    <2>5. /\ Len(client'.pending) = Len(client.pending) + 1 /\ Len(client.pending) \in Nat
          /\ \A k \in 1..Len(client.pending) : client'.pending[k] = client.pending[k]
      BY ONLY <2>1, <2>2
    <2>6. ASSUME row # None, NEW i \in 1..Len(row.queue), row.queue[i].epoch = client.epoch
          PROVE  /\ row.queue[i].seq <= row.ack /\ row.queue[i].seq <= client.lastSent
                 /\ \A j \in 1..Len(row.queue) : i < j /\ row.queue[j].epoch = client.epoch
                       => row.queue[i].seq < row.queue[j].seq
                 /\ \A j \in 1..Len(up[C]) : IsCall(up[C][j]) /\ up[C][j].epoch = client.epoch
                       => row.queue[i].seq < up[C][j].seq
                 /\ \A j \in 1..Len(down) :
                      down[j].kind = "rejected" /\ down[j].epoch = client.epoch => down[j].seq # row.queue[i].seq
                 /\ Ack(client.store) < row.queue[i].seq =>
                      \E k \in 1..Len(client.pending) : client.pending[k].seq = row.queue[i].seq
      BY <2>1, <2>6 DEF OwnEntries, Own, Ours
    <2>7. ASSUME row # None, NEW i \in 1..Len(row.queue), row.queue[i].epoch = client.epoch
          PROVE  /\ row.queue[i].seq <= client.next + 1
                 /\ \A j \in 1..Len(up'[C]) : IsCall(up'[C][j]) /\ up'[C][j].epoch = client.epoch
                       => row.queue[i].seq < up'[C][j].seq
                 /\ Ack(client.store) < row.queue[i].seq =>
                      \E k \in 1..Len(client'.pending) : client'.pending[k].seq = row.queue[i].seq
      <3>1. row.queue[i].seq \in 1..MaxSeq
        BY <2>7, FitTyped DEF Types
      <3>2. row.queue[i].seq <= client.lastSent
        BY <2>6, <2>7
      <3>3. row.queue[i].seq < client.next + 1
        BY <2>2, <3>1, <3>2
      <3>4. ASSUME NEW j \in 1..Len(up'[C]), IsCall(up'[C][j]), up'[C][j].epoch = client.epoch
            PROVE  row.queue[i].seq < up'[C][j].seq
        <4>1. CASE j = Len(up[C]) + 1
          BY <2>3, <2>4, <3>3, <4>1
        <4>2. CASE j \in 1..Len(up[C])
          BY <2>3, <2>6, <2>7, <3>4, <4>2
        <4> QED BY <2>3, <4>1, <4>2
      <3>5. ASSUME Ack(client.store) < row.queue[i].seq
            PROVE  \E k \in 1..Len(client'.pending) : client'.pending[k].seq = row.queue[i].seq
        <4>1. PICK k \in 1..Len(client.pending) : client.pending[k].seq = row.queue[i].seq
          BY <2>6, <2>7, <3>5
        <4>2. k \in 1..Len(client'.pending)
          BY <2>5
        <4> QED BY <2>5, <4>1, <4>2
      <3>6. row.queue[i].seq <= client.next + 1
        BY <2>2, <3>1, <3>3
      <3> QED BY <3>4, <3>5, <3>6
    <2>8. /\ client'.conn = C /\ client'.epoch = client.epoch /\ client'.store = client.store
          /\ client'.lastSent = client.next + 1 /\ down' = down /\ row' = row
      BY <2>1
    <2> QED BY <2>6, <2>7, <2>8 DEF OwnEntries, Own, Ours
  <1>2. ASSUME Frame PROVE OwnEntries'
    <2>1. /\ client'.conn = client.conn /\ client'.link = client.link /\ client'.epoch = client.epoch
          /\ client'.store = client.store /\ client'.lastSent = client.lastSent
          /\ client'.pending = client.pending /\ UNCHANGED <<row, up, down>>
      BY <1>2, FrameFacts DEF Unmoved
    <2> QED BY <2>1 DEF OwnEntries, Own, Ours
  <1>3. ASSUME Connect PROVE OwnEntries'
    <2>1. client'.link = "connecting"
      BY <1>3, ConnectFacts
    <2> QED BY <2>1 DEF OwnEntries
  <1>4. ASSUME ReceiveSnapshot PROVE OwnEntries'
    <2>1. /\ Read /\ client'.epoch > client.epoch /\ BrowserTypes(client') /\ row' = row
      BY <1>4, SnapshotFacts
    <2>2. NoNewCalls /\ client'.epoch \in Nat
      BY <1>4, <2>1, SnapshotNoNew DEF BrowserTypes, Browsers
    <2>3. row' # None => \A i \in 1..Len(row'.queue) : row'.queue[i].epoch # client'.epoch
      BY <2>1, <2>2, FreshEpoch
    <2> QED BY <2>3 DEF OwnEntries, Ours
  <1>5. ASSUME ReceiveRows PROVE OwnEntries'
    <2>1. /\ client.link = "up" /\ Read /\ BrowserTypes(client') /\ UNCHANGED <<row, up>>
          /\ client'.conn = client.conn /\ client.conn \in Conns /\ client'.lastSent = client.lastSent
          /\ Fit(client'.store) /\ client'.store = down[1].row /\ down[1].kind = "rows"
          /\ \/ client'.epoch = client.epoch /\ Keeps(client', client, client'.store.ack)
             \/ client'.epoch = client.epoch + 1
      BY <1>5, RowsFacts
    <2>2. client.epoch \in Nat /\ (row = None \/ Fit(row))
      BY ClientTyped DEF Types
    <2>3. CASE client'.epoch = client.epoch + 1
      <3>1. client'.epoch \in Nat /\ client'.epoch > client.epoch /\ NoNewCalls
        BY <2>1, <2>2, <2>3 DEF NoNewCalls
      <3>2. row' # None => \A i \in 1..Len(row'.queue) : row'.queue[i].epoch # client'.epoch
        BY <2>1, <3>1, FreshEpoch
      <3> QED BY <3>2 DEF OwnEntries, Ours
    <2>4. CASE row = None
      BY <2>1, <2>4, NoEntries
    <2>5. CASE row # None /\ client'.epoch = client.epoch /\ Keeps(client', client, client'.store.ack)
      <3>1. Shrunk /\ Piece(row'.queue, row.queue, 0)
        BY <2>1, <2>2, <2>5, SameShrunk, FitTyped DEF Piece
      <3>2. Ack(client.store) <= Ack(client'.store) /\ Ack(client'.store) = client'.store.ack
        <4>1. Ack(client.store) <= Ack(down[1].row)
          BY <2>1 DEF Known, Read, Telltale
        <4> QED BY <2>1, <4>1, FitTyped DEF Ack
      <3>3. \A i \in 1..Len(down') : \E l \in 1..Len(down) : down'[i] = down[l]
        BY <2>1 DEF Read, Piece
      <3>4. ASSUME NEW j \in 1..Len(row.queue), NEW l \in 1..Len(client.pending),
                   client.pending[l].seq = row.queue[j].seq,
                   Ack(client'.store) < row.queue[j].seq
            PROVE  \E k \in 1..Len(client'.pending) : client'.pending[k].seq = row.queue[j].seq
        <4>1. client.pending[l].seq \in Nat /\ client'.store.ack \in Nat
          BY <2>1, ClientTyped, FitTyped, SMTT(30)
        <4>2. client.pending[l].seq > client'.store.ack
          BY <3>2, <3>4, <4>1
        <4>3. PICK k \in 1..Len(client'.pending) : client'.pending[k] = client.pending[l]
          BY <2>5, <4>2 DEF Keeps
        <4> QED BY <3>4, <4>3
      <3>5. row # None /\ row' # None /\ Fit(row') /\ row'.ack = row.ack
        BY <2>1, <2>2, <2>5
      <3> QED BY <2>1, <2>5, <3>1, <3>2, <3>3, <3>4, <3>5, OwnEntriesKept
    <2> QED BY <2>1, <2>3, <2>4, <2>5
  <1>6. ASSUME ReceiveRejection PROVE OwnEntries'
    <2>1. /\ client.link = "up" /\ Read /\ BrowserTypes(client') /\ Unmoved(client, client') /\ UNCHANGED <<row, up>>
          /\ client.conn \in Conns /\ down[1].kind = "rejected"
          /\ client'.epoch = client.epoch =>
              \A l \in 1..Len(client.pending) :
                   /\ (down[1].epoch = client.epoch => client.pending[l].seq # down[1].seq)
                   /\ (client.store # None => client.pending[l].seq > client.store.ack)
                   => \E k \in 1..Len(client'.pending) : client'.pending[k] = client.pending[l]
          /\ client'.epoch # client.epoch => client'.epoch = client.epoch + 1
      BY <1>6, RejectionFacts
    <2>2. client.epoch \in Nat /\ (client.store = None \/ Fit(client.store)) /\ (row = None \/ Fit(row))
      BY ClientTyped DEF Types
    <2>3. /\ client'.conn = client.conn /\ client'.lastSent = client.lastSent
          /\ client'.store = client.store /\ client'.link = client.link
      BY <2>1 DEF Unmoved
    <2>4. CASE client'.epoch = client.epoch + 1
      <3>1. client'.epoch \in Nat /\ client'.epoch > client.epoch /\ NoNewCalls
        BY <2>1, <2>2, <2>4 DEF NoNewCalls
      <3>2. row' # None => \A i \in 1..Len(row'.queue) : row'.queue[i].epoch # client'.epoch
        BY <2>1, <3>1, FreshEpoch
      <3> QED BY <3>2 DEF OwnEntries, Ours
    <2>5. CASE row = None
      BY <2>1, <2>5, NoEntries
    <2>6. CASE row # None /\ client'.epoch = client.epoch
      <3>1. Shrunk /\ Piece(row'.queue, row.queue, 0)
        BY <2>1, <2>2, <2>6, SameShrunk, FitTyped DEF Piece
      <3>2. Ack(client.store) \in Nat /\ Ack(client.store) <= Ack(client'.store)
        BY <2>2, <2>3, AckNat
      <3>3. \A i \in 1..Len(down') : \E l \in 1..Len(down) : down'[i] = down[l]
        BY <2>1 DEF Read, Piece
      <3>4. ASSUME NEW j \in 1..Len(row.queue), NEW l \in 1..Len(client.pending),
                   Ours(row.queue[j]), client.pending[l].seq = row.queue[j].seq,
                   Ack(client'.store) < row.queue[j].seq
            PROVE  \E k \in 1..Len(client'.pending) : client'.pending[k].seq = row.queue[j].seq
        <4>1. client.pending[l].seq \in Nat
          BY ClientTyped
        <4>2. client.store # None => client.pending[l].seq > client.store.ack
          BY <2>2, <2>3, <3>2, <3>4, <4>1 DEF Ack
        <4>3. down[1].epoch = client.epoch => client.pending[l].seq # down[1].seq
          <5>1. 1 \in 1..Len(down)
            BY <2>1 DEF Read
          <5> QED BY <2>1, <2>6, <3>4, <5>1 DEF OwnEntries
        <4> QED BY <2>1, <2>6, <3>4, <4>2, <4>3
      <3>5. client'.store = None \/ Fit(client'.store)
        BY <2>2, <2>3
      <3>6. row # None /\ row' # None /\ Fit(row') /\ row'.ack = row.ack
        BY <2>1, <2>2, <2>6
      <3> QED BY <2>1, <2>3, <2>6, <3>1, <3>2, <3>3, <3>4, <3>5, <3>6, OwnEntriesKept
    <2> QED BY <2>1, <2>4, <2>5, <2>6
  <1>7. ASSUME Drop PROVE OwnEntries'
    <2>1. client'.link = "down"
      BY <1>7, DropFacts
    <2> QED BY <2>1 DEF OwnEntries
  <1>8. ASSUME Reload PROVE OwnEntries'
    <2>1. client'.link = "down"
      BY <1>8, ReloadFacts
    <2> QED BY <2>1 DEF OwnEntries
  <1>9. ASSUME NEW c \in Conns, OnDisconnect(c) PROVE OwnEntries'
    <2>1. UNCHANGED <<up, down, client>> /\ (row' = None \/ row' = row)
      BY <1>9, DisconnectFacts
    <2> QED BY <2>1 DEF OwnEntries, Own, Ours
  <1>10. ASSUME NEW c \in Conns, JoinGame(c) PROVE OwnEntries'
    <2>1. /\ Called(c, [kind |-> "Join"]) /\ client' = client
          /\ \/ row # None /\ UNCHANGED <<row, down>>
             \/ row = None /\ row'.queue = <<>>
      BY <1>10, JoinFacts
    <2>2. Shrunk
      BY <2>1, CalledShrunk
    <2>3. CASE client.link # "up"
      BY <2>1, <2>3 DEF OwnEntries
    <2>4. CASE row = None /\ (row' = None \/ row'.queue = <<>>)
      BY <2>4, NoEntries
    <2>5. CASE client.link = "up" /\ row # None /\ row' # None
      <3>1. Listening /\ client.conn \in Conns /\ (client.store = None \/ Fit(client.store)) /\ Fit(row)
        BY <2>5, OnConnection, ClientTyped DEF Listening, Types
      <3>2. Ack(client.store) \in Nat /\ Ack(client.store) <= Ack(client'.store)
        BY <2>1, <3>1, AckNat
      <3>3. row' = row /\ down' = down
        BY <2>1, <2>5
      <3>4. Piece(row'.queue, row.queue, 0)
        BY <3>1, <3>3, FitTyped DEF Piece
      <3>5. \A i \in 1..Len(down') : \E l \in 1..Len(down) : down'[i] = down[l]
        BY <3>3
      <3>6. Fit(row') /\ row'.ack = row.ack
        BY <3>1, <3>3
      <3> QED BY <2>1, <2>2, <2>5, <3>1, <3>2, <3>4, <3>5, <3>6, OwnEntriesKept
    <2> QED BY <2>1, <2>3, <2>4, <2>5
  <1>11. ASSUME NEW c \in Conns, NEW call, Move(c, call) PROVE OwnEntries'
    <2>1. /\ Called(c, call) /\ client' = client /\ call \in Calls /\ IsCall(call)
      BY <1>11, MoveFacts
    <2>2. Shrunk /\ call = up[c][1] /\ 1 \in 1..Len(up[c]) /\ Piece(up'[c], up[c], 1)
      BY <2>1, CalledShrunk, CalledFacts
    <2>3. CASE client.link # "up"
      BY <2>1, <2>3 DEF OwnEntries
    <2>4. CASE /\ client.link = "up" /\ UNCHANGED row
               /\ down' = IF c = client.conn THEN Telling(Rejected(call)) ELSE down
      <3>0. CASE row = None
        BY <2>4, <3>0, NoEntries
      <3>1. CASE row # None
        <4>1. Listening /\ client.conn \in Conns /\ (client.store = None \/ Fit(client.store)) /\ Fit(row)
          BY <2>4, <3>1, OnConnection, ClientTyped DEF Listening, Types
        <4>2. Ack(client.store) \in Nat /\ Ack(client.store) <= Ack(client'.store)
          BY <2>1, <4>1, AckNat
        <4>3. ASSUME NEW j \in 1..Len(down'), down'[j].kind = "rejected", down'[j].epoch = client.epoch
              PROVE  \/ \E l \in 1..Len(down) : down'[j] = down[l]
                     \/ \A i \in 1..Len(row.queue) : Ours(row.queue[i]) => down'[j].seq # row.queue[i].seq
          <5>1. CASE down' = down
            BY <5>1
          <5>2. CASE c = client.conn /\ Ends(down', Rejected(call))
            <6>1. CASE j \in 1..Len(down) /\ down'[j] = down[j]
              BY <6>1
            <6>2. CASE down'[j] = Rejected(call)
              <7>1. down'[j].seq = call.seq /\ call.epoch = client.epoch
                BY <4>3, <6>2 DEF Rejected
              <7>2. ASSUME NEW i \in 1..Len(row.queue), Ours(row.queue[i]) PROVE call.seq # row.queue[i].seq
                <8>1. row.queue[i].seq < call.seq
                  BY <2>1, <2>2, <2>4, <3>1, <5>2, <7>1, <7>2 DEF OwnEntries, Own
                <8>2. call.seq \in 1..MaxSeq /\ row.queue[i].seq \in 1..MaxSeq
                  BY <2>1, <4>1, FitTyped DEF Calls
                <8> QED BY <8>1, <8>2
              <7> QED BY <7>1, <7>2
            <6> QED BY <5>2, <6>1, <6>2 DEF Ends
          <5> QED BY <2>1, <2>4, <4>1, <5>1, <5>2, RejectionTold
        <4>4. Piece(row'.queue, row.queue, 0) /\ Fit(row') /\ row'.ack = row.ack /\ row' # None
          BY <2>4, <3>1, <4>1, FitTyped DEF Piece
        <4> QED BY <2>1, <2>2, <2>4, <3>1, <4>1, <4>2, <4>3, <4>4, OwnEntriesKept
      <3> QED BY <3>0, <3>1
    <2>5. CASE /\ client.link = "up" /\ row # None /\ call.seq > row.ack /\ Fit(row') /\ row'.ack = call.seq
               /\ Queued(row'.queue, row.queue, call) /\ down' = Telling(Rows(row'))
      <3>1. /\ Listening /\ client.conn \in Conns /\ client.conn # 0
            /\ (client.store = None \/ Fit(client.store)) /\ Fit(row)
        BY <2>5, OnConnection, ClientTyped DEF Listening, Types
      <3> DEFINE C == client.conn
                 q == row.queue
                 t == row'.queue
                 P(x) == IsCall(x) /\ x.epoch = client.epoch
                 Q(e) == e.epoch = client.epoch
      <3>2. \A i \in 1..Len(q) : Q(q[i]) =>
              /\ q[i].seq <= row.ack /\ q[i].seq <= client.lastSent
              /\ \A j \in 1..Len(q) : i < j /\ Q(q[j]) => q[i].seq < q[j].seq
              /\ \A j \in 1..Len(up[C]) : P(up[C][j]) => q[i].seq < up[C][j].seq
              /\ \A j \in 1..Len(down) :
                   down[j].kind = "rejected" /\ down[j].epoch = client.epoch => down[j].seq # q[i].seq
              /\ Ack(client.store) < q[i].seq =>
                   \E k \in 1..Len(client.pending) : client.pending[k].seq = q[i].seq
        BY <2>5 DEF OwnEntries, Own, Ours
      <3>3. /\ call.seq \in 1..MaxSeq /\ row.ack \in 0..MaxSeq /\ Len(t) \in Nat
            /\ \A i \in 1..Len(q) : q[i].seq \in 1..MaxSeq
        BY <2>1, <2>5, <3>1, FitTyped DEF Calls
      <3>4. \A i \in 1..Len(t) :
              \/ i = Len(t) /\ t[i].seq = call.seq /\ t[i].epoch = call.epoch
              \/ i \in 1..Len(q) /\ t[i] = q[i]
        <4>1. \A i \in 1..Len(t) :
                \/ i = Len(t) /\ t[i] = [input |-> call.input, epoch |-> call.epoch, seq |-> call.seq]
                \/ i \in 1..Len(q) /\ t[i] = q[i]
          BY <2>5 DEF Queued
        <4> QED BY <4>1
      <3>5. \A j \in 1..Len(down') : down'[j].kind = "rejected" => \E l \in 1..Len(down) : down'[j] = down[l]
        <4>1. Ends(down', Rows(row'))
          BY <2>5, <3>1, RowTold
        <4> QED BY <4>1 DEF Ends, Rows
      <3>6. PICK k \in Nat : Piece(up'[C], up[C], k) /\ (c = C => k = 1)
        <4>1. CASE c = C
          BY <2>2, <4>1
        <4>2. CASE c # C
          BY <2>2, <3>1, <4>2 DEF Shrunk
        <4> QED BY <4>1, <4>2
      <3>7. \A j \in 1..Len(up'[C]) : j + k \in 1..Len(up[C]) /\ up'[C][j] = up[C][j + k]
        BY <3>6 DEF Piece
      <3>8. ASSUME NEW i \in 1..Len(t), Q(t[i])
            PROVE  /\ t[i].seq <= row'.ack /\ t[i].seq <= client.lastSent
                   /\ \A j \in 1..Len(t) : i < j /\ Q(t[j]) => t[i].seq < t[j].seq
                   /\ \A j \in 1..Len(up'[C]) : P(up'[C][j]) => t[i].seq < up'[C][j].seq
                   /\ \A j \in 1..Len(down') :
                        down'[j].kind = "rejected" /\ down'[j].epoch = client.epoch => down'[j].seq # t[i].seq
                   /\ Ack(client.store) < t[i].seq =>
                        \E l \in 1..Len(client.pending) : client.pending[l].seq = t[i].seq
        <4>1. CASE i \in 1..Len(q) /\ t[i] = q[i]
          <5>1. q[i].seq <= row.ack /\ q[i].seq <= client.lastSent /\ q[i].seq < call.seq /\ q[i].seq <= row'.ack
            BY <2>5, <3>2, <3>3, <3>8, <4>1
          <5>2. ASSUME NEW j \in 1..Len(t), i < j, Q(t[j]) PROVE q[i].seq < t[j].seq
            <6>1. CASE t[j].seq = call.seq
              BY <5>1, <6>1
            <6>2. CASE j \in 1..Len(q) /\ t[j] = q[j]
              BY <3>2, <3>8, <4>1, <5>2, <6>2
            <6> QED BY <3>4, <6>1, <6>2
          <5>3. \A j \in 1..Len(up'[C]) : P(up'[C][j]) => q[i].seq < up'[C][j].seq
            BY <3>2, <3>7, <3>8, <4>1, ZenonT(40)
          <5>4. ASSUME NEW j \in 1..Len(down'), down'[j].kind = "rejected", down'[j].epoch = client.epoch
                PROVE  down'[j].seq # q[i].seq
            <6>1. PICK l \in 1..Len(down) : down'[j] = down[l]
              BY <3>5, <5>4
            <6> QED BY <3>2, <3>8, <4>1, <5>4, <6>1
          <5>5. Ack(client.store) < q[i].seq =>
                  \E l \in 1..Len(client.pending) : client.pending[l].seq = q[i].seq
            BY <3>2, <3>8, <4>1
          <5> QED BY <4>1, <5>1, <5>2, <5>3, <5>4, <5>5
        <4>2. CASE i = Len(t) /\ t[i].seq = call.seq /\ t[i].epoch = call.epoch
          <5>1. P(call) /\ c = C
            <6>1. P(call)
              BY <2>1, <3>8, <4>2
            <6> QED BY <2>2, <2>5, <6>1 DEF OwnCalls, Own
          <5>2. call.page = client.page /\ call.seq <= client.lastSent
            BY <2>2, <3>1, <5>1 DEF Numbers, OfPage
          <5>3. ASSUME NEW j \in 1..Len(up'[C]), P(up'[C][j]) PROVE call.seq < up'[C][j].seq
            <6>1. j + 1 \in 1..Len(up[C]) /\ up'[C][j] = up[C][j + 1] /\ 1 < j + 1
              BY <3>6, <3>7, <5>1
            <6>2. up[C][j + 1].page = client.page /\ IsCall(up[C][j + 1])
              BY <3>1, <5>3, <6>1 DEF Numbers
            <6> QED BY <2>1, <2>2, <3>1, <5>1, <5>2, <6>1, <6>2 DEF InOrder, OfPage
          <5>4. ASSUME NEW j \in 1..Len(down'), down'[j].kind = "rejected", down'[j].epoch = client.epoch
                PROVE  down'[j].seq # call.seq
            <6>1. PICK l \in 1..Len(down) : down'[j] = down[l]
              BY <3>5, <5>4
            <6>2. down[l].seq < call.seq
              BY <2>2, <2>5, <5>1, <5>4, <6>1 DEF OwnCalls, Own
            <6>3. down[l].seq \in 1..MaxSeq
              BY <5>4, <6>1, DownTyped
            <6> QED BY <3>3, <6>1, <6>2, <6>3
          <5>5. Ack(client.store) < call.seq =>
                  \E l \in 1..Len(client.pending) : client.pending[l].seq = call.seq
            BY <2>2, <2>5, <5>1 DEF OwnCalls, Own
          <5>6. call.seq <= row'.ack
            BY <2>5, <3>3
          <5>7. ~\E j \in 1..Len(t) : i < j
            BY <3>3, <4>2
          <5> QED BY <4>2, <5>2, <5>3, <5>4, <5>5, <5>6, <5>7
        <4> QED BY <3>4, <4>1, <4>2
      <3> QED BY <2>1, <3>8 DEF OwnEntries, Own, Ours
    <2> QED BY <1>11, <2>1, <2>3, <2>4, <2>5, MoveFacts
  <1>12. ASSUME MovementTick PROVE OwnEntries'
    <2>1. /\ Fit(row') /\ row # None /\ row'.ack = row.ack /\ Piece(row'.queue, row.queue, 1)
          /\ down' = Telling(Rows(row')) /\ UNCHANGED <<up, client>>
      BY <1>12, TickFacts DEF Types
    <2>2. Shrunk
      BY <2>1, SameShrunk
    <2>3. CASE client.link # "up"
      BY <2>1, <2>3 DEF OwnEntries
    <2>4. CASE row = None /\ (row' = None \/ row'.queue = <<>>)
      BY <2>4, NoEntries
    <2>5. CASE client.link = "up" /\ row # None /\ row' # None
      <3>1. Listening /\ client.conn \in Conns /\ (client.store = None \/ Fit(client.store)) /\ Fit(row)
        BY <2>5, OnConnection, ClientTyped DEF Listening, Types
      <3>2. Ack(client.store) \in Nat /\ Ack(client.store) <= Ack(client'.store)
        BY <2>1, <3>1, AckNat
      <3>3. \A i \in 1..Len(down') : down'[i].kind = "rejected" => \E l \in 1..Len(down) : down'[i] = down[l]
        <4>1. Ends(down', Rows(row'))
          BY <2>1, <3>1, RowTold
        <4> QED BY <4>1 DEF Ends, Rows
      <3> QED BY <2>1, <2>2, <2>5, <3>1, <3>2, <3>3, OwnEntriesKept
    <2>6. row' # None
      BY <2>1, FitTyped
    <2> QED BY <2>1, <2>3, <2>5, <2>6
  <1>13. ASSUME UNCHANGED <<row, ackPage, sessions, up, down, client>> PROVE OwnEntries'
    BY <1>13 DEF OwnEntries, Own, Ours
  <1> QED BY <1>1, <1>2, <1>3, <1>4, <1>5, <1>6, <1>7, <1>8, <1>9, <1>10, <1>11, <1>12, <1>13 DEF MovementNext, Serve, Challenged, BattleOver, movementVars

-----------------------------------------------------------------------------
(* The rows under way.                                                      *)

(* A message more, of a row with only such own entries as were known before *)
(* or are beyond every known ack.                                           *)
LEMMA OwnSeenTold ==
  ASSUME Types, Known, OwnSeen, client.link = "up", client' = client, row # None, Fit(row'),
         NEW msg, Ends(down', msg), msg.kind = "rejected" \/ (msg.kind = "rows" /\ msg.row = row'),
         \A i \in 1..Len(row'.queue) :
           (\E k \in 1..Len(row.queue) : row'.queue[i] = row.queue[k]) \/ row'.queue[i].seq > row.ack
  PROVE  OwnSeen'
  <1>1. /\ Fit(row) /\ row.ack \in 0..MaxSeq /\ Ack(row) = row.ack
        /\ \A i \in 1..Len(row'.queue) : row'.queue[i].seq \in 1..MaxSeq
    BY FitTyped DEF Types, Ack
  <1>2. /\ \A i \in 1..Len(down') : down'[i] = msg \/ (i \in 1..Len(down) /\ down'[i] = down[i])
    BY DEF Ends
  <1>3. ASSUME NEW r, Fit(r), Ack(r) <= Ack(row), NEW i \in 1..Len(row'.queue), row'.queue[i].seq > row.ack
        PROVE  Has(r, row'.queue[i])
    <2>1. r.ack \in 0..MaxSeq /\ Ack(r) = r.ack
      BY <1>3, FitTyped DEF Ack
    <2>2. ~(row'.queue[i].seq <= r.ack)
      BY <1>1, <1>3, <2>1
    <2> QED BY <2>2 DEF Has
  <1>4. ASSUME NEW i \in 1..Len(row'.queue), row'.queue[i].epoch = client.epoch
        PROVE  /\ \A j \in 1..Len(down') : down'[j].kind = "rows" => Has(down'[j].row, row'.queue[i])
               /\ client.store # None => Has(client.store, row'.queue[i])
    <2>1. ASSUME NEW j \in 1..Len(down), down[j].kind = "rows" PROVE Has(down[j].row, row'.queue[i])
      <3>1. Fit(down[j].row) /\ Ack(down[j].row) <= Ack(row)
        BY <2>1, DownTyped DEF Known, Telltale
      <3>2. CASE \E k \in 1..Len(row.queue) : row'.queue[i] = row.queue[k]
        BY <1>4, <2>1, <3>2 DEF OwnSeen, Ours
      <3>3. CASE row'.queue[i].seq > row.ack
        BY <1>3, <3>1, <3>3
      <3> QED BY <3>2, <3>3
    <2>2. ASSUME client.store # None PROVE Has(client.store, row'.queue[i])
      <3>1. Fit(client.store) /\ Ack(client.store) <= Ack(row)
        BY <2>2, ClientTyped DEF Known
      <3>2. CASE \E k \in 1..Len(row.queue) : row'.queue[i] = row.queue[k]
        BY <1>4, <2>2, <3>2 DEF OwnSeen, Ours
      <3>3. CASE row'.queue[i].seq > row.ack
        BY <1>3, <3>1, <3>3
      <3> QED BY <3>2, <3>3
    <2>3. Has(row', row'.queue[i])
      BY DEF Has
    <2>4. ASSUME NEW j \in 1..Len(down'), down'[j].kind = "rows" PROVE Has(down'[j].row, row'.queue[i])
      <3>1. CASE down'[j] = msg
        BY <2>3, <2>4, <3>1
      <3>2. CASE j \in 1..Len(down) /\ down'[j] = down[j]
        BY <2>1, <2>4, <3>2
      <3> QED BY <1>2, <3>1, <3>2
    <2> QED BY <2>2, <2>4
  <1> QED BY <1>4 DEF OwnSeen, Ours

(* A message less: it may have become the store.                            *)
LEMMA OwnSeenRead ==
  ASSUME OwnSeen, Read, client.link = "up", client'.epoch = client.epoch, row' = row,
         client'.store = client.store \/ (down[1].kind = "rows" /\ client'.store = down[1].row)
  PROVE  OwnSeen'
  <1>1. 1 \in 1..Len(down) /\ \A i \in 1..Len(down') : i + 1 \in 1..Len(down) /\ down'[i] = down[i + 1]
    BY DEF Read, Piece
  <1>2. ASSUME row # None, NEW i \in 1..Len(row.queue), row.queue[i].epoch = client.epoch
        PROVE  /\ \A j \in 1..Len(down') : down'[j].kind = "rows" => Has(down'[j].row, row.queue[i])
               /\ client'.store # None => Has(client'.store, row.queue[i])
    <2>1. /\ \A j \in 1..Len(down) : down[j].kind = "rows" => Has(down[j].row, row.queue[i])
          /\ client.store # None => Has(client.store, row.queue[i])
      BY <1>2 DEF OwnSeen, Ours
    <2> QED BY <1>1, <2>1
  <1> QED BY <1>2 DEF OwnSeen, Ours

LEMMA OwnSeenStep ==
  ASSUME Types, Links, Known, Numbers, OwnSeen, MovementNext \/ UNCHANGED movementVars
  PROVE  OwnSeen'
  <1>1. ASSUME NEW op \in Ops, Send(op) PROVE OwnSeen'
    <2>1. /\ client'.link = client.link /\ client'.epoch = client.epoch /\ client'.store = client.store
          /\ UNCHANGED <<row, down>>
      BY <1>1, SendFacts
    <2> QED BY <2>1 DEF OwnSeen, Ours
  <1>2. ASSUME Frame PROVE OwnSeen'
    <2>1. /\ client'.link = client.link /\ client'.epoch = client.epoch /\ client'.store = client.store
          /\ UNCHANGED <<row, down>>
      BY <1>2, FrameFacts DEF Unmoved
    <2> QED BY <2>1 DEF OwnSeen, Ours
  <1>3. ASSUME Connect PROVE OwnSeen'
    <2>1. client'.link = "connecting"
      BY <1>3, ConnectFacts
    <2> QED BY <2>1 DEF OwnSeen
  <1>4. ASSUME ReceiveSnapshot PROVE OwnSeen'
    <2>1. /\ Read /\ client'.epoch > client.epoch /\ BrowserTypes(client') /\ row' = row
      BY <1>4, SnapshotFacts
    <2>2. NoNewCalls /\ client'.epoch \in Nat
      BY <1>4, <2>1, SnapshotNoNew DEF BrowserTypes, Browsers
    <2>3. row' # None => \A i \in 1..Len(row'.queue) : row'.queue[i].epoch # client'.epoch
      BY <2>1, <2>2, FreshEpoch
    <2> QED BY <2>3 DEF OwnSeen, Ours
  <1>5. ASSUME ReceiveRows PROVE OwnSeen'
    <2>1. /\ client.link = "up" /\ Read /\ UNCHANGED <<row, up>>
          /\ client'.store = down[1].row /\ down[1].kind = "rows"
          /\ client'.epoch = client.epoch \/ client'.epoch = client.epoch + 1
      BY <1>5, RowsFacts
    <2>2. client.epoch \in Nat
      BY ClientTyped
    <2>3. CASE client'.epoch = client.epoch + 1
      <3>1. client'.epoch \in Nat /\ client'.epoch > client.epoch /\ NoNewCalls
        BY <2>1, <2>2, <2>3 DEF NoNewCalls
      <3>2. row' # None => \A i \in 1..Len(row'.queue) : row'.queue[i].epoch # client'.epoch
        BY <2>1, <3>1, FreshEpoch
      <3> QED BY <3>2 DEF OwnSeen, Ours
    <2>4. CASE client'.epoch = client.epoch
      BY <2>1, <2>4, OwnSeenRead
    <2> QED BY <2>1, <2>3, <2>4
  <1>6. ASSUME ReceiveRejection PROVE OwnSeen'
    <2>1. /\ client.link = "up" /\ Read /\ UNCHANGED <<row, up>>
          /\ client'.store = client.store
          /\ client'.epoch = client.epoch \/ client'.epoch = client.epoch + 1
      BY <1>6, RejectionFacts DEF Unmoved
    <2>2. client.epoch \in Nat
      BY ClientTyped
    <2>3. CASE client'.epoch = client.epoch + 1
      <3>1. client'.epoch \in Nat /\ client'.epoch > client.epoch /\ NoNewCalls
        BY <2>1, <2>2, <2>3 DEF NoNewCalls
      <3>2. row' # None => \A i \in 1..Len(row'.queue) : row'.queue[i].epoch # client'.epoch
        BY <2>1, <3>1, FreshEpoch
      <3> QED BY <3>2 DEF OwnSeen, Ours
    <2>4. CASE client'.epoch = client.epoch
      BY <2>1, <2>4, OwnSeenRead
    <2> QED BY <2>1, <2>3, <2>4
  <1>7. ASSUME Drop PROVE OwnSeen'
    <2>1. client'.link = "down"
      BY <1>7, DropFacts
    <2> QED BY <2>1 DEF OwnSeen
  <1>8. ASSUME Reload PROVE OwnSeen'
    <2>1. client'.link = "down"
      BY <1>8, ReloadFacts
    <2> QED BY <2>1 DEF OwnSeen
  <1>9. ASSUME NEW c \in Conns, OnDisconnect(c) PROVE OwnSeen'
    <2>1. UNCHANGED <<up, down, client>> /\ (row' = None \/ row' = row)
      BY <1>9, DisconnectFacts
    <2> QED BY <2>1 DEF OwnSeen, Ours
  <1>10. ASSUME NEW c \in Conns, JoinGame(c) PROVE OwnSeen'
    <2>1. /\ client' = client
          /\ \/ row # None /\ UNCHANGED <<row, down>>
             \/ row = None /\ row'.queue = <<>>
      BY <1>10, JoinFacts
    <2>2. CASE row'.queue = <<>>
      BY <2>2, NoEntries
    <2>3. CASE UNCHANGED <<row, down>>
      BY <2>1, <2>3 DEF OwnSeen, Ours
    <2> QED BY <2>1, <2>2, <2>3
  <1>11. ASSUME NEW c \in Conns, NEW call, Move(c, call) PROVE OwnSeen'
    <2>1. /\ client' = client /\ call \in Calls
          /\ \/ /\ row # None /\ call.seq > row.ack /\ Fit(row')
                /\ Queued(row'.queue, row.queue, call) /\ down' = Telling(Rows(row'))
             \/ UNCHANGED row /\ down' = IF c = client.conn THEN Telling(Rejected(call)) ELSE down
      BY <1>11, MoveFacts
    <2>2. CASE client.link # "up"
      BY <2>1, <2>2 DEF OwnSeen
    <2>3. CASE row = None /\ UNCHANGED row
      BY <2>3, NoEntries
    <2>4. CASE client.link = "up" /\ row # None /\ UNCHANGED <<row, down>>
      BY <2>1, <2>4 DEF OwnSeen, Ours
    <2>5. CASE client.link = "up" /\ row # None /\ UNCHANGED row /\ down' = Telling(Rejected(call))
      <3>1. Ends(down', Rejected(call))
        BY <2>1, <2>5, RejectionTold DEF Listening
      <3>2. Rejected(call).kind = "rejected"
        BY DEF Rejected
      <3>3. Fit(row')
        BY <2>5 DEF Types
      <3>4. \A i \in 1..Len(row'.queue) : \E k \in 1..Len(row.queue) : row'.queue[i] = row.queue[k]
        BY <2>5
      <3> QED BY <2>1, <2>5, <3>1, <3>2, <3>3, <3>4, OwnSeenTold
    <2>6. CASE /\ client.link = "up" /\ row # None /\ call.seq > row.ack /\ Fit(row')
               /\ Queued(row'.queue, row.queue, call) /\ down' = Telling(Rows(row'))
      <3>1. Ends(down', Rows(row'))
        BY <2>6, RowTold DEF Listening
      <3>2. Rows(row').kind = "rows" /\ Rows(row').row = row'
        BY DEF Rows
      <3>3. \A i \in 1..Len(row'.queue) :
              (\E k \in 1..Len(row.queue) : row'.queue[i] = row.queue[k]) \/ row'.queue[i].seq = call.seq
        BY <2>6 DEF Queued
      <3> QED BY <2>1, <2>6, <3>1, <3>2, <3>3, OwnSeenTold
    <2> QED BY <2>1, <2>2, <2>3, <2>4, <2>5, <2>6
  <1>12. ASSUME MovementTick PROVE OwnSeen'
    <2>1. /\ Fit(row') /\ row # None /\ Piece(row'.queue, row.queue, 1)
          /\ down' = Telling(Rows(row')) /\ UNCHANGED client
      BY <1>12, TickFacts DEF Types
    <2>2. CASE client.link # "up"
      BY <2>1, <2>2 DEF OwnSeen
    <2>3. CASE client.link = "up"
      <3>1. Ends(down', Rows(row'))
        BY <2>1, <2>3, RowTold DEF Listening
      <3>2. Rows(row').kind = "rows" /\ Rows(row').row = row'
        BY DEF Rows
      <3>3. \A i \in 1..Len(row'.queue) : \E k \in 1..Len(row.queue) : row'.queue[i] = row.queue[k]
        BY <2>1 DEF Piece
      <3> QED BY <2>1, <2>3, <3>1, <3>2, <3>3, OwnSeenTold
    <2> QED BY <2>2, <2>3
  <1>13. ASSUME UNCHANGED <<row, ackPage, sessions, up, down, client>> PROVE OwnSeen'
    BY <1>13 DEF OwnSeen, Ours
  <1> QED BY <1>1, <1>2, <1>3, <1>4, <1>5, <1>6, <1>7, <1>8, <1>9, <1>10, <1>11, <1>12, <1>13 DEF MovementNext, Serve, Challenged, BattleOver, movementVars

-----------------------------------------------------------------------------
(* Each pending intent is still under way or answered.                      *)

(* A message that answers the intent numbered seq.                          *)
Answers(msg, seq) ==
  \/ msg.kind = "rejected" /\ msg.seq = seq /\ msg.epoch = client.epoch
  \/ msg.kind = "rows" /\ msg.row.ack >= seq

LEMMA UnderWayIs ==
  ASSUME client.link = "up", UnderWay
  PROVE  \A k \in 1..Len(client.pending) :
           \/ \E i \in 1..Len(up[client.conn]) :
                Own(up[client.conn][i]) /\ up[client.conn][i].seq = client.pending[k].seq
           \/ \E i \in 1..Len(down) : Answers(down[i], client.pending[k].seq)
  BY DEF UnderWay, Answers

LEMMA UnderWayTold ==
  ASSUME UnderWay, client.link = "up", client' = client,
         \A i \in 1..Len(down) : \E j \in 1..Len(down') : down'[j] = down[i],
         \A i \in 1..Len(up[client.conn]) : Own(up[client.conn][i]) =>
           \/ \E j \in 1..Len(up'[client.conn]) : up'[client.conn][j] = up[client.conn][i]
           \/ \E j \in 1..Len(down') : Answers(down'[j], up[client.conn][i].seq)
  PROVE  UnderWay'
  <1>1. ASSUME NEW k \in 1..Len(client.pending)
        PROVE  \/ \E i \in 1..Len(up'[client.conn]) :
                    /\ IsCall(up'[client.conn][i]) /\ up'[client.conn][i].epoch = client.epoch
                    /\ up'[client.conn][i].seq = client.pending[k].seq
               \/ \E i \in 1..Len(down') : Answers(down'[i], client.pending[k].seq)
    <2>1. CASE \E i \in 1..Len(up[client.conn]) :
                 Own(up[client.conn][i]) /\ up[client.conn][i].seq = client.pending[k].seq
      <3>1. PICK i \in 1..Len(up[client.conn]) :
              Own(up[client.conn][i]) /\ up[client.conn][i].seq = client.pending[k].seq
        BY <2>1
      <3>2. CASE \E j \in 1..Len(up'[client.conn]) : up'[client.conn][j] = up[client.conn][i]
        BY <3>1, <3>2 DEF Own
      <3>3. CASE \E j \in 1..Len(down') : Answers(down'[j], up[client.conn][i].seq)
        BY <3>1, <3>3
      <3> QED BY <3>1, <3>2, <3>3
    <2>2. CASE \E i \in 1..Len(down) : Answers(down[i], client.pending[k].seq)
      <3>1. PICK i \in 1..Len(down) : Answers(down[i], client.pending[k].seq)
        BY <2>2
      <3>2. PICK j \in 1..Len(down') : down'[j] = down[i]
        OBVIOUS
      <3> QED BY <3>1, <3>2
    <2> QED BY <2>1, <2>2, UnderWayIs
  <1> QED BY <1>1, ZenonT(40) DEF UnderWay, Own, Answers

LEMMA UnderWayRead ==
  ASSUME UnderWay, Read, client.link = "up", client'.conn = client.conn, client'.epoch = client.epoch, up' = up,
         \A k \in 1..Len(client'.pending) : \E l \in 1..Len(client.pending) :
           client'.pending[k] = client.pending[l] /\ ~Answers(down[1], client.pending[l].seq)
  PROVE  UnderWay'
  <1>1. ASSUME NEW i \in 1..Len(down), i # 1
        PROVE  i - 1 \in 1..Len(down') /\ down'[i - 1] = down[i]
    <2>1. Len(down) = Len(down') + 1 /\ Len(down') \in Nat
      BY DEF Read
    <2>2. i - 1 \in 1..Len(down') /\ (i - 1) + 1 = i
      BY <1>1, <2>1
    <2> QED BY <2>2 DEF Read, Piece
  <1>2. ASSUME NEW k \in 1..Len(client'.pending)
        PROVE  \/ \E i \in 1..Len(up[client.conn]) :
                    /\ IsCall(up[client.conn][i]) /\ up[client.conn][i].epoch = client.epoch
                    /\ up[client.conn][i].seq = client'.pending[k].seq
               \/ \E i \in 1..Len(down') : Answers(down'[i], client'.pending[k].seq)
    <2>1. PICK l \in 1..Len(client.pending) :
            client'.pending[k] = client.pending[l] /\ ~Answers(down[1], client.pending[l].seq)
      OBVIOUS
    <2>2. CASE \E i \in 1..Len(up[client.conn]) :
                 Own(up[client.conn][i]) /\ up[client.conn][i].seq = client.pending[l].seq
      BY <2>1, <2>2 DEF Own
    <2>3. CASE \E i \in 1..Len(down) : Answers(down[i], client.pending[l].seq)
      <3>1. PICK i \in 1..Len(down) : Answers(down[i], client.pending[l].seq)
        BY <2>3
      <3>2. i # 1
        BY <2>1, <3>1
      <3>3. i - 1 \in 1..Len(down') /\ Answers(down'[i - 1], client'.pending[k].seq)
        BY <1>1, <2>1, <3>1, <3>2
      <3> QED BY <3>3
    <2> QED BY <2>2, <2>3, UnderWayIs
  <1> QED BY <1>2 DEF UnderWay, Own, Answers

LEMMA NothingPending ==
  ASSUME client'.pending = <<>>
  PROVE  UnderWay'
  <1>1. Len(client'.pending) = 0
    OBVIOUS
  <1>2. \A k \in 1..Len(client'.pending) : FALSE
    BY <1>1
  <1> QED BY <1>2 DEF UnderWay

LEMMA UnderWayStep ==
  ASSUME Types, Links, UnderWay, MovementNext \/ UNCHANGED movementVars
  PROVE  UnderWay'
  <1>1. ASSUME NEW op \in Ops, Send(op) PROVE UnderWay'
    <2> DEFINE C == client.conn
    <2>1. /\ client.link = "up" /\ C \in Conns /\ CallOf(op) \in Calls /\ IsCall(CallOf(op))
          /\ client'.conn = C /\ client'.epoch = client.epoch /\ client'.link = client.link
          /\ up'[C] = Append(up[C], CallOf(op)) /\ UNCHANGED down
          /\ client'.pending = Append(client.pending, StepOf(op)) /\ StepOf(op) \in Steps
      BY <1>1, SendFacts
    <2>2. client.pending \in Seq(Steps)
      BY ClientTyped
    <2>3. /\ up'[C][Len(up[C]) + 1] = CallOf(op) /\ Len(up[C]) + 1 \in 1..Len(up'[C])
          /\ \A i \in 1..Len(up[C]) : up'[C][i] = up[C][i] /\ i \in 1..Len(up'[C])
      <3>1. up[C] \in Seq(Joins \cup Calls) /\ CallOf(op) \in Joins \cup Calls
        BY <2>1, CallsTyped
      <3> QED BY <2>1, <3>1
    <2>4. \A k \in 1..Len(client'.pending) :
            client'.pending[k] = StepOf(op) \/ (k \in 1..Len(client.pending) /\ client'.pending[k] = client.pending[k])
      BY ONLY <2>1, <2>2
    <2>5. CallOf(op).seq = StepOf(op).seq /\ CallOf(op).epoch = client.epoch
      BY DEF CallOf, StepOf
    <2>6. ASSUME NEW k \in 1..Len(client'.pending)
          PROVE  \/ \E i \in 1..Len(up'[C]) :
                      /\ IsCall(up'[C][i]) /\ up'[C][i].epoch = client.epoch
                      /\ up'[C][i].seq = client'.pending[k].seq
                 \/ \E i \in 1..Len(down) : Answers(down[i], client'.pending[k].seq)
      <3>1. CASE client'.pending[k] = StepOf(op)
        BY <2>1, <2>3, <2>5, <3>1
      <3>2. CASE k \in 1..Len(client.pending) /\ client'.pending[k] = client.pending[k]
        <4>1. CASE \E i \in 1..Len(up[C]) : Own(up[C][i]) /\ up[C][i].seq = client.pending[k].seq
          BY <2>3, <3>2, <4>1 DEF Own
        <4>2. CASE \E i \in 1..Len(down) : Answers(down[i], client.pending[k].seq)
          BY <3>2, <4>2
        <4> QED BY <2>1, <3>2, <4>1, <4>2, UnderWayIs
      <3> QED BY <2>4, <3>1, <3>2
    <2>7. client'.conn = C /\ client'.epoch = client.epoch /\ down' = down
      BY <2>1
    <2> QED BY <2>6, <2>7 DEF UnderWay, Own, Answers
  <1>2. ASSUME Frame PROVE UnderWay'
    <2>1. /\ client'.link = client.link /\ client'.epoch = client.epoch /\ client'.conn = client.conn
          /\ client'.pending = client.pending /\ UNCHANGED <<up, down>>
      BY <1>2, FrameFacts DEF Unmoved
    <2> QED BY <2>1 DEF UnderWay, Own
  <1>3. ASSUME Connect PROVE UnderWay'
    <2>1. client'.link = "connecting"
      BY <1>3, ConnectFacts
    <2> QED BY <2>1 DEF UnderWay
  <1>4. ASSUME ReceiveSnapshot PROVE UnderWay'
    <2>1. client'.pending = <<>>
      BY <1>4, SnapshotFacts
    <2> QED BY <2>1, NothingPending
  <1>5. ASSUME ReceiveRows PROVE UnderWay'
    <2>1. /\ client.link = "up" /\ Read /\ UNCHANGED up /\ client'.conn = client.conn
          /\ client'.store = down[1].row /\ down[1].kind = "rows" /\ Fit(client'.store)
          /\ \/ client'.epoch = client.epoch /\ Keeps(client', client, client'.store.ack)
             \/ client'.pending = <<>>
      BY <1>5, RowsFacts
    <2>2. CASE client'.epoch = client.epoch /\ Keeps(client', client, client'.store.ack)
      <3>1. client'.store.ack \in Nat
        BY <2>1, FitTyped
      <3>2. ASSUME NEW k \in 1..Len(client'.pending)
            PROVE  \E l \in 1..Len(client.pending) :
                     client'.pending[k] = client.pending[l] /\ ~Answers(down[1], client.pending[l].seq)
        <4>1. PICK l \in 1..Len(client.pending) : client'.pending[k] = client.pending[l]
          BY <2>2 DEF Keeps
        <4>2. client.pending[l].seq > client'.store.ack
          BY <2>2, <4>1 DEF Keeps
        <4>3. client.pending[l].seq \in Nat
          BY ClientTyped
        <4>4. ~(down[1].row.ack >= client.pending[l].seq)
          BY <2>1, <3>1, <4>2, <4>3
        <4> QED BY <2>1, <4>1, <4>4 DEF Answers
      <3> QED BY <2>1, <2>2, <3>2, UnderWayRead
    <2> QED BY <2>1, <2>2, NothingPending
  <1>6. ASSUME ReceiveRejection PROVE UnderWay'
    <2>1. /\ client.link = "up" /\ Read /\ UNCHANGED up /\ client'.conn = client.conn
          /\ down[1].kind = "rejected"
          /\ client'.epoch = client.epoch =>
               \A k \in 1..Len(client'.pending) :
                   /\ \E l \in 1..Len(client.pending) : client'.pending[k] = client.pending[l]
                   /\ down[1].epoch = client.epoch => client'.pending[k].seq # down[1].seq
          /\ client'.epoch # client.epoch => client'.pending = <<>>
      BY <1>6, RejectionFacts DEF Unmoved
    <2>2. CASE client'.epoch = client.epoch
      <3>1. ASSUME NEW k \in 1..Len(client'.pending)
            PROVE  \E l \in 1..Len(client.pending) :
                     client'.pending[k] = client.pending[l] /\ ~Answers(down[1], client.pending[l].seq)
        <4>1. PICK l \in 1..Len(client.pending) : client'.pending[k] = client.pending[l]
          BY <2>1, <2>2
        <4>2. down[1].epoch = client.epoch => client.pending[l].seq # down[1].seq
          BY <2>1, <2>2, <4>1
        <4> QED BY <2>1, <4>1, <4>2 DEF Answers
      <3> QED BY <2>1, <2>2, <3>1, UnderWayRead
    <2> QED BY <2>1, <2>2, NothingPending
  <1>7. ASSUME Drop PROVE UnderWay'
    <2>1. client'.link = "down"
      BY <1>7, DropFacts
    <2> QED BY <2>1 DEF UnderWay
  <1>8. ASSUME Reload PROVE UnderWay'
    <2>1. client'.link = "down"
      BY <1>8, ReloadFacts
    <2> QED BY <2>1 DEF UnderWay
  <1>9. ASSUME NEW c \in Conns, OnDisconnect(c) PROVE UnderWay'
    <2>1. UNCHANGED <<up, down, client>>
      BY <1>9, DisconnectFacts
    <2> QED BY <2>1 DEF UnderWay, Own
  <1>10. ASSUME NEW c \in Conns, JoinGame(c) PROVE UnderWay'
    <2>1. /\ Called(c, [kind |-> "Join"]) /\ client' = client
          /\ \/ UNCHANGED down
             \/ Fit(row') /\ down' = Telling(Rows(row'))
      BY <1>10, JoinFacts
    <2>2. CASE client.link # "up"
      BY <2>1, <2>2 DEF UnderWay
    <2>3. CASE client.link = "up"
      <3>1. \A i \in 1..Len(down) : \E j \in 1..Len(down') : down'[j] = down[i]
        <4>1. CASE Ends(down', Rows(row'))
          BY <4>1 DEF Ends
        <4> QED BY <2>1, <2>3, <4>1, RowTold DEF Listening
      <3>2. ASSUME NEW i \in 1..Len(up[client.conn]), ~(c = client.conn /\ i = 1)
            PROVE  \E j \in 1..Len(up'[client.conn]) : up'[client.conn][j] = up[client.conn][i]
        <4>1. CASE c = client.conn
          BY <2>1, <3>2, <4>1, CalledFacts
        <4>2. CASE c # client.conn
          <5>1. client.conn \in Conns
            BY <2>3, OnConnection DEF Listening
          <5> QED BY <2>1, <4>2, <5>1, CalledFacts
        <4> QED BY <4>1, <4>2
      <3>3. ASSUME c = client.conn PROVE ~Own(up[client.conn][1])
        <4>1. up[c][1] = [kind |-> "Join"]
          BY <2>1, CalledFacts
        <4>2. up[c][1].kind = "Join"
          BY <4>1
        <4> QED BY <3>3, <4>2 DEF Own, IsCall
      <3> QED BY <2>1, <2>3, <3>1, <3>2, <3>3, UnderWayTold
    <2> QED BY <2>2, <2>3
  <1>11. ASSUME NEW c \in Conns, NEW call, Move(c, call) PROVE UnderWay'
    <2>1. /\ Called(c, call) /\ client' = client /\ call \in Calls
          /\ \/ Fit(row') /\ row'.ack = call.seq /\ down' = Telling(Rows(row'))
             \/ down' = IF c = client.conn THEN Telling(Rejected(call)) ELSE down
      BY <1>11, MoveFacts
    <2>2. CASE client.link # "up"
      BY <2>1, <2>2 DEF UnderWay
    <2>3. CASE client.link = "up"
      <3>1. \/ Ends(down', Rows(row')) /\ row'.ack = call.seq
            \/ c = client.conn /\ Ends(down', Rejected(call))
            \/ c # client.conn /\ down' = down
        BY <2>1, <2>3, RowTold, RejectionTold DEF Listening
      <3>2. ASSUME NEW i \in 1..Len(up[client.conn]), ~(c = client.conn /\ i = 1)
            PROVE  \E j \in 1..Len(up'[client.conn]) : up'[client.conn][j] = up[client.conn][i]
        <4>1. CASE c = client.conn
          BY <2>1, <3>2, <4>1, CalledFacts
        <4>2. CASE c # client.conn
          <5>1. client.conn \in Conns
            BY <2>3, OnConnection DEF Listening
          <5> QED BY <2>1, <4>2, <5>1, CalledFacts
        <4> QED BY <4>1, <4>2
      <3>3. \A i \in 1..Len(down) : \E j \in 1..Len(down') : down'[j] = down[i]
        BY <3>1 DEF Ends
      <3>4. ASSUME c = client.conn, Own(call) PROVE \E j \in 1..Len(down') : Answers(down'[j], call.seq)
        <4>1. PICK msg : Ends(down', msg) /\ \/ msg = Rows(row') /\ row'.ack = call.seq
                                             \/ msg = Rejected(call)
          BY <3>1, <3>4
        <4>2. call.seq \in Nat
          BY <2>1 DEF Calls
        <4>3. Answers(msg, call.seq)
          BY <3>4, <4>1, <4>2 DEF Answers, Rows, Rejected, Own
        <4> QED BY <4>1, <4>3 DEF Ends
      <3>5. call = up[c][1]
        BY <2>1, CalledFacts
      <3> QED BY <2>1, <2>3, <3>2, <3>3, <3>4, <3>5, UnderWayTold
    <2> QED BY <2>2, <2>3
  <1>12. ASSUME MovementTick PROVE UnderWay'
    <2>1. /\ Fit(row') /\ down' = Telling(Rows(row')) /\ UNCHANGED <<up, client>>
      BY <1>12, TickFacts DEF Types
    <2>2. CASE client.link # "up"
      BY <2>1, <2>2 DEF UnderWay
    <2>3. CASE client.link = "up"
      <3>1. Ends(down', Rows(row'))
        BY <2>1, <2>3, RowTold DEF Listening
      <3>2. \A i \in 1..Len(down) : \E j \in 1..Len(down') : down'[j] = down[i]
        BY <3>1 DEF Ends
      <3> QED BY <2>1, <2>3, <3>2, UnderWayTold
    <2> QED BY <2>2, <2>3
  <1>13. ASSUME UNCHANGED <<row, ackPage, sessions, up, down, client>> PROVE UnderWay'
    BY <1>13 DEF UnderWay, Own
  <1> QED BY <1>1, <1>2, <1>3, <1>4, <1>5, <1>6, <1>7, <1>8, <1>9, <1>10, <1>11, <1>12, <1>13 DEF MovementNext, Serve, Challenged, BattleOver, movementVars

-----------------------------------------------------------------------------
(* The invariant of every reachable state.                                  *)

LEMMA QuietStep ==
  ASSUME Types, Links, Quiet, MovementNext \/ UNCHANGED movementVars
  PROVE  Quiet'
  <1>1. ASSUME NEW op \in Ops, Send(op) PROVE Quiet'
    <2>1. /\ client'.authLen = client.authLen /\ client'.store = client.store /\ client'.link = client.link
          /\ client'.pending = Append(client.pending, StepOf(op)) /\ StepOf(op) \in Steps
      BY <1>1, SendFacts
    <2>2. client.pending \in Seq(Steps)
      BY ClientTyped
    <2>3. client'.pending # <<>>
      BY ONLY <2>1, <2>2
    <2> QED BY <2>1, <2>3 DEF Quiet
  <1>2. ASSUME Frame PROVE Quiet'
    <2>1. /\ client'.authLen = client.authLen /\ client'.store = client.store /\ client'.link = client.link
          /\ client'.pending = client.pending /\ client.queue # <<>> /\ client.link = "up"
      BY <1>2, FrameFacts DEF Unmoved
    <2> QED BY <2>1 DEF Quiet
  <1>3. ASSUME Connect PROVE Quiet'
    <2>1. client'.link = "connecting"
      BY <1>3, ConnectFacts
    <2> QED BY <2>1 DEF Quiet
  <1>4. ASSUME ReceiveSnapshot PROVE Quiet'
    <2>1. /\ client'.store = None => client'.authLen = 0
          /\ client'.store # None => Agreed(client', client'.store)
      BY <1>4, SnapshotFacts
    <2> QED BY <2>1 DEF Quiet, Agreed
  <1>5. ASSUME ReceiveRows PROVE Quiet'
    <2>1. Agreed(client', client'.store) /\ client'.store # None
      BY <1>5, RowsFacts, FitTyped
    <2> QED BY <2>1 DEF Quiet, Agreed
  <1>6. ASSUME ReceiveRejection PROVE Quiet'
    <2>1. /\ client.link = "up" /\ client'.store = client.store
          /\ \/ /\ client'.pending = client.pending /\ client'.queue = client.queue
                /\ client'.predicted = client.predicted
             \/ client.store = None
             \/ Agreed(client', client.store)
          /\ client'.authLen = client.authLen \/ (client.store # None /\ Agreed(client', client.store))
      BY <1>6, RejectionFacts DEF Unmoved
    <2> QED BY <2>1 DEF Quiet, Agreed
  <1>7. ASSUME Drop PROVE Quiet'
    <2>1. client'.link = "down"
      BY <1>7, DropFacts
    <2> QED BY <2>1 DEF Quiet
  <1>8. ASSUME Reload PROVE Quiet'
    <2>1. client'.link = "down"
      BY <1>8, ReloadFacts
    <2> QED BY <2>1 DEF Quiet
  <1>9. ASSUME NEW c \in Conns, OnDisconnect(c) PROVE Quiet'
    <2>1. client' = client
      BY <1>9, DisconnectFacts
    <2> QED BY <2>1 DEF Quiet
  <1>10. ASSUME NEW c \in Conns, JoinGame(c) PROVE Quiet'
    <2>1. client' = client
      BY <1>10, JoinFacts
    <2> QED BY <2>1 DEF Quiet
  <1>11. ASSUME NEW c \in Conns, NEW call, Move(c, call) PROVE Quiet'
    <2>1. client' = client
      BY <1>11, MoveFacts
    <2> QED BY <2>1 DEF Quiet
  <1>12. ASSUME MovementTick PROVE Quiet'
    <2>1. client' = client
      BY <1>12, TickFacts DEF Types
    <2> QED BY <2>1 DEF Quiet
  <1>13. ASSUME UNCHANGED <<row, ackPage, sessions, up, down, client>> PROVE Quiet'
    BY <1>13 DEF Quiet
  <1> QED BY <1>1, <1>2, <1>3, <1>4, <1>5, <1>6, <1>7, <1>8, <1>9, <1>10, <1>11, <1>12, <1>13 DEF MovementNext, Serve, Challenged, BattleOver, movementVars

LEMMA MovementInvInit == MovementInit => MovementInv
  <1> SUFFICES ASSUME MovementInit PROVE MovementInv
    OBVIOUS
  <1>1. Types /\ Links
    BY TypesInit
  <1>2. /\ row = None /\ ackPage = 1 /\ down = <<>> /\ client = Page(1, 0, 1)
        /\ \A c \in Conns : up[c] = <<>>
    BY DEF MovementInit
  <1>3. /\ client.page = 1 /\ client.conn = 0 /\ client.link = "down" /\ client.store = None
    BY <1>2 DEF Page
  <1>4. Len(down) = 0 /\ \A c \in Conns : Len(up[c]) = 0
    BY <1>2
  <1>5. (\A i \in 1..Len(down) : FALSE) /\ \A c \in Conns : \A i \in 1..Len(up[c]) : FALSE
    BY <1>4
  <1>6. Known
    BY <1>2, <1>3, <1>5 DEF Known, Listening, Ack
  <1>7. Numbers
    BY <1>2, <1>3, <1>5 DEF Numbers
  <1>8. InOrder
    BY <1>3 DEF InOrder
  <1>9. OwnCalls /\ OwnEntries /\ OwnSeen /\ UnderWay /\ Quiet
    BY <1>3 DEF OwnCalls, OwnEntries, OwnSeen, UnderWay, Quiet
  <1> QED BY <1>1, <1>6, <1>7, <1>8, <1>9 DEF MovementInv

LEMMA MovementInvStep == MovementInv /\ [MovementNext]_movementVars => MovementInv'
  <1> SUFFICES ASSUME MovementInv, MovementNext \/ UNCHANGED movementVars PROVE MovementInv'
    OBVIOUS
  <1>1. /\ Types /\ Links /\ Known /\ Numbers /\ InOrder
        /\ OwnCalls /\ OwnEntries /\ OwnSeen /\ UnderWay /\ Quiet
    BY DEF MovementInv
  <1>2. Types'
    BY <1>1, TypesStep
  <1>3. Links'
    BY <1>1, LinksStep
  <1>4. Known'
    BY <1>1, KnownStep
  <1>5. Numbers'
    BY <1>1, NumbersStep
  <1>6. InOrder'
    BY <1>1, InOrderStep
  <1>7. OwnCalls'
    BY <1>1, OwnCallsStep
  <1>8. OwnEntries'
    BY <1>1, OwnEntriesStep
  <1>9. OwnSeen'
    BY <1>1, OwnSeenStep
  <1>10. UnderWay'
    BY <1>1, UnderWayStep
  <1>11. Quiet'
    BY <1>1, QuietStep
  <1> QED BY <1>2, <1>3, <1>4, <1>5, <1>6, <1>7, <1>8, <1>9, <1>10, <1>11 DEF MovementInv

(* Every reachable state is one of these: no step of the browser, of the    *)
(* network or of the server leads out of them.                              *)
THEOREM MovementInvariance == MovementSpec => []MovementInv
  BY MovementInvInit, MovementInvStep, PTL DEF MovementSpec

-----------------------------------------------------------------------------
(* What the invariant says, and the two theorems.                           *)

LEMMA TypesHold == Types /\ Links => MovementTypes
  <1> SUFFICES ASSUME Types, Links PROVE MovementTypes
    OBVIOUS
  <1>1. row = None \/ (InPlace(row.at) /\ Len(row.queue) <= QueueCap /\ row.ack \in 0..MaxSeq)
    BY FitTyped DEF Types
  <1>2. /\ client.store = None \/ InPlace(client.store.at)
        /\ client.predicted = None \/ InPlace(client.predicted)
        /\ Len(client.queue) <= QueueCap /\ client.next \in 0..MaxSeq
        /\ client.link \in {"down", "connecting", "up"}
    BY ClientTyped, FitTyped DEF BrowserTypes
  <1> QED BY <1>1, <1>2 DEF MovementTypes, Links

LEMMA NoPhantoms == Types /\ Links /\ UnderWay => PendingIsUnderWay
  <1> SUFFICES ASSUME Types, Links, UnderWay, client.link = "up", NEW p \in Range(client.pending)
               PROVE  \/ \E call \in Range(up[client.conn]) : call.kind # "Join" /\ call.seq = p.seq
                      \/ \E msg \in Range(down) :
                           \/ msg.kind = "rejected" /\ msg.seq = p.seq /\ msg.epoch = client.epoch
                           \/ msg.kind = "rows" /\ msg.row.ack >= p.seq
    BY DEF PendingIsUnderWay
  <1>1. client.conn \in Conns
    BY OnConnection DEF Listening
  <1>2. /\ client.pending \in Seq(Steps) /\ down \in Seq(Messages)
        /\ up[client.conn] \in Seq(Joins \cup Calls)
    BY <1>1, ClientTyped, DownTyped, CallsTyped
  <1>3. PICK k \in 1..Len(client.pending) : p = client.pending[k]
    BY <1>2, RangeEquality
  <1>4. /\ \A i \in 1..Len(up[client.conn]) : up[client.conn][i] \in Range(up[client.conn])
        /\ \A i \in 1..Len(down) : down[i] \in Range(down)
    BY <1>2, RangeEquality
  <1>5. CASE \E i \in 1..Len(up[client.conn]) :
               Own(up[client.conn][i]) /\ up[client.conn][i].seq = client.pending[k].seq
    BY <1>3, <1>4, <1>5 DEF Own, IsCall
  <1>6. CASE \E i \in 1..Len(down) : Answers(down[i], client.pending[k].seq)
    BY <1>3, <1>4, <1>6 DEF Answers
  <1> QED BY <1>5, <1>6, UnderWayIs

LEMMA NoneStale == Types /\ Links /\ InOrder => NoStaleCalls
  <1> SUFFICES ASSUME Types, Links, InOrder, row # None, ackPage = client.page,
                      NEW call \in Range(up[client.conn]), call.kind # "Join", client.conn \in sessions
               PROVE  call.seq > row.ack
    BY DEF NoStaleCalls
  <1>1. client.conn \in Conns /\ client.conn # 0
    BY ClientTyped, MovementBounds DEF Links, Conns
  <1>2. up[client.conn] \in Seq(Joins \cup Calls)
    BY <1>1, CallsTyped
  <1>3. PICK i \in 1..Len(up[client.conn]) : call = up[client.conn][i]
    BY <1>2, RangeEquality
  <1>4. OfPage(up[client.conn][i])
    BY <1>1, <1>3 DEF InOrder, IsCall
  <1>5. row.ack < up[client.conn][i].seq
    BY <1>1, <1>4 DEF InOrder
  <1>6. row.ack \in 0..MaxSeq /\ up[client.conn][i].seq \in 1..MaxSeq
    BY <1>1, <1>4, CallsTyped, FitTyped DEF Types, OfPage
  <1> QED BY <1>3, <1>5, <1>6

LEMMA Quiescence == Types /\ Links /\ Known /\ UnderWay /\ Quiet => QuietMeansAgreed
  <1> SUFFICES ASSUME Types, Links, Known, UnderWay, Quiet,
                      client.link = "up", up[client.conn] = <<>>, down = <<>>
               PROVE  /\ client.store = row /\ client.pending = <<>>
                      /\ row # None => Play(client.predicted, client.queue)
                                         = Play(row.at, Inputs_(row.queue))
    BY DEF QuietMeansAgreed
  <1>1. Len(down) = 0 /\ Len(up[client.conn]) = 0
    OBVIOUS
  <1>2. (\A i \in 1..Len(down) : FALSE) /\ (\A i \in 1..Len(up[client.conn]) : FALSE)
    BY <1>1
  <1>3. client.store = row
    BY <1>2 DEF Known, Listening
  <1>4. client.pending = <<>>
    <2>1. \A k \in 1..Len(client.pending) : FALSE
      BY <1>2, UnderWayIs
    <2>2. client.pending \in Seq(Steps)
      BY ClientTyped
    <2>3. Len(client.pending) = 0
      BY <2>1, <2>2
    <2> QED BY <2>2, <2>3
  <1>5. ASSUME row # None
        PROVE  Play(client.predicted, client.queue) = Play(row.at, Inputs_(row.queue))
    <2>1. client.queue = <<>> /\ client.predicted = Play(row.at, Inputs_(row.queue))
      BY <1>3, <1>4, <1>5 DEF Quiet
    <2>2. Play(client.predicted, <<>>) = client.predicted
      BY PlayEmpty
    <2> QED BY <2>1, <2>2
  <1> QED BY <1>3, <1>4, <1>5

(* Counting by number: what is numbered in order is no more than there are  *)
(* numbers, and these no more than what carries them.                       *)
LEMMA Numbered ==
  ASSUME NEW q, NEW n \in Nat, NEW A, A \subseteq 1..n, NEW W, IsFiniteSet(W),
         \A i \in A : q[i].seq \in W /\ q[i].seq \in Nat,
         \A i, j \in A : i < j => q[i].seq < q[j].seq
  PROVE  IsFiniteSet(A) /\ Cardinality(A) <= Cardinality(W)
  <1> DEFINE f == [i \in A |-> q[i].seq]
  <1>1. f \in [A -> W]
    OBVIOUS
  <1>2. ASSUME NEW i \in A, NEW j \in A, f[i] = f[j] PROVE i = j
    <2>1. i \in Nat /\ j \in Nat /\ f[i] = q[i].seq /\ f[j] = q[j].seq
      OBVIOUS
    <2>2. ~(i < j) /\ ~(j < i)
      BY <1>2, <2>1
    <2> QED BY <2>1, <2>2
  <1>3. f \in Injection(A, W)
    BY <1>1, <1>2 DEF Injection, IsInjective
  <1> QED BY <1>3, FS_Injection

LEMMA Numbering ==
  ASSUME NEW q, NEW n \in Nat, NEW W, W = {q[k].seq : k \in 1..n}
  PROVE  IsFiniteSet(W) /\ Cardinality(W) <= n
  <1> DEFINE f == [k \in 1..n |-> q[k].seq]
  <1>1. f \in Surjection(1..n, W)
    BY DEF Surjection
  <1>2. IsFiniteSet(1..n) /\ Cardinality(1..n) = n
    BY FS_Interval
  <1> QED BY <1>1, <1>2, FS_Surjection

LEMMA AllOutstanding ==
  Types /\ Links /\ Known /\ Numbers /\ InOrder /\ OwnCalls /\ OwnEntries /\ OwnSeen /\ Quiet
    => OwnStepsAreOutstanding
  <1> SUFFICES ASSUME Types, Links, Known, Numbers, InOrder, OwnCalls, OwnEntries, OwnSeen, Quiet,
                      client.link = "up", row # None
               PROVE  OwnStepsAreOutstanding
    BY DEF OwnStepsAreOutstanding
  <1> DEFINE C == client.conn
             q == row.queue
             calls == up[C]
             store == Ack(client.store)
             A == {i \in 1..Len(q) : q[i].epoch = client.epoch}
             A1 == {i \in A : q[i].seq <= store}
             A2 == {i \in A : q[i].seq > store}
             B == {i \in 1..Len(calls) : /\ calls[i].kind # "Join"
                                         /\ calls[i].epoch = client.epoch
                                         /\ calls[i].seq > row.ack}
             W == {client.pending[k].seq : k \in 1..Len(client.pending)}
             W2 == {q[i].seq : i \in A2}
             WB == {calls[i].seq : i \in B}
  <1>1. /\ C \in Conns /\ C # 0 /\ Fit(row) /\ (client.store = None \/ Fit(client.store))
    BY OnConnection, ClientTyped DEF Listening, Types
  <1>2. /\ Len(q) \in Nat /\ row.ack \in Nat /\ store \in Nat
        /\ \A i \in 1..Len(q) : q[i].seq \in Nat /\ q[i].seq > 0
    <2>1. Len(q) \in Nat /\ row.ack \in 0..MaxSeq /\ \A i \in 1..Len(q) : q[i].seq \in 1..MaxSeq
      BY <1>1, FitTyped
    <2>2. store \in Nat
      BY <1>1, AckNat
    <2> QED BY <2>1, <2>2
  <1>3. /\ Len(calls) \in Nat
        /\ \A i \in B : calls[i].seq \in Nat /\ Own(calls[i]) /\ OfPage(calls[i])
    <2>1. /\ Len(calls) \in Nat
          /\ \A i \in 1..Len(calls) : IsCall(calls[i]) => calls[i].seq \in 1..MaxSeq
      BY <1>1, CallsTyped
    <2>2. \A i \in B : calls[i].seq \in Nat
      BY <2>1 DEF IsCall
    <2>3. \A i \in B : Own(calls[i])
      BY DEF Own, IsCall
    <2>4. \A i \in B : OfPage(calls[i])
      BY <1>1, <2>3 DEF Own, OfPage, Numbers
    <2> QED BY <2>1, <2>2, <2>3, <2>4
  <1>4. \A i, j \in A : i < j => q[i].seq < q[j].seq
    BY DEF OwnEntries, Ours
  <1>5. \A i, j \in B : i < j => calls[i].seq < calls[j].seq
    BY <1>1, <1>3 DEF InOrder
  <1>6. \A i \in A, j \in B : q[i].seq < calls[j].seq
    BY <1>3 DEF OwnEntries, Ours
  <1>7. Len(client.pending) \in Nat
    BY ClientTyped
  <1>8. IsFiniteSet(W) /\ Cardinality(W) <= Len(client.pending)
    BY <1>7, Numbering
  <1>9. W2 \subseteq W
    <2> SUFFICES ASSUME NEW i \in A2 PROVE q[i].seq \in W
      OBVIOUS
    <2>1. \E k \in 1..Len(client.pending) : client.pending[k].seq = q[i].seq
      BY <1>2 DEF OwnEntries, Ours
    <2> QED BY <2>1
  <1>10. WB \subseteq W
    <2> SUFFICES ASSUME NEW i \in B PROVE calls[i].seq \in W
      OBVIOUS
    <2>1. store <= row.ack
      BY DEF Known, Ack
    <2>2. store < calls[i].seq
      BY <1>2, <1>3, <2>1
    <2>3. \E k \in 1..Len(client.pending) : client.pending[k].seq = calls[i].seq
      BY <1>1, <1>3, <2>2 DEF OwnCalls
    <2> QED BY <2>3
  <1>11. W2 \cap WB = {}
    <2> SUFFICES ASSUME NEW i \in A2, NEW j \in B PROVE q[i].seq # calls[j].seq
      OBVIOUS
    <2>1. q[i].seq < calls[j].seq
      BY <1>6
    <2>2. q[i].seq \in Nat /\ calls[j].seq \in Nat
      BY <1>2, <1>3
    <2> QED BY <2>1, <2>2
  <1>12. /\ A = A1 \cup A2 /\ A1 \cap A2 = {}
         /\ A1 \subseteq 1..Len(q) /\ A2 \subseteq 1..Len(q) /\ B \subseteq 1..Len(calls)
    BY <1>2
  <1>13. /\ \A i \in A2 : q[i].seq \in W2 /\ q[i].seq \in Nat
         /\ \A i, j \in A2 : i < j => q[i].seq < q[j].seq
         /\ \A i \in A1 : q[i].seq \in Nat
         /\ \A i, j \in A1 : i < j => q[i].seq < q[j].seq
         /\ \A i \in B : calls[i].seq \in WB /\ calls[i].seq \in Nat
    BY <1>2, <1>3, <1>4
  <1>14. \E S : /\ IsFiniteSet(S) /\ Cardinality(S) <= client.authLen
                /\ client.authLen \in Nat /\ \A i \in A1 : q[i].seq \in S
    <2>1. client.authLen = IF client.store = None THEN 0 ELSE Len(client.store.queue)
      BY DEF Quiet
    <2>2. CASE client.store = None
      <3>1. store = 0
        BY <2>2 DEF Ack
      <3>2. ~\E i \in A1 : TRUE
        BY <1>2, <3>1
      <3>3. IsFiniteSet({}) /\ Cardinality({}) = 0
        BY FS_EmptySet
      <3> QED BY <2>1, <2>2, <3>2, <3>3
    <2>3. CASE client.store # None
      <3> DEFINE t == client.store.queue
                 S == {t[k].seq : k \in 1..Len(t)}
      <3>1. Len(t) \in Nat /\ store = client.store.ack
        BY <1>1, <2>3, FitTyped DEF Ack
      <3>2. IsFiniteSet(S) /\ Cardinality(S) <= Len(t)
        BY <3>1, Numbering
      <3>3. ASSUME NEW i \in A1 PROVE q[i].seq \in S
        <4>1. Has(client.store, q[i]) /\ q[i].seq <= client.store.ack
          BY <2>3, <3>1 DEF OwnSeen, Ours
        <4>2. PICK k \in 1..Len(t) : t[k] = q[i]
          BY <4>1 DEF Has
        <4> QED BY <4>2
      <3> QED BY <2>1, <2>3, <3>1, <3>2, <3>3
    <2> QED BY <2>2, <2>3
  <1> HIDE DEF A, A1, A2, B, W, W2, WB, calls, q
  <1>15. IsFiniteSet(W2) /\ IsFiniteSet(WB)
    BY <1>8, <1>9, <1>10, FS_Subset
  <1>16. IsFiniteSet(A2) /\ Cardinality(A2) <= Cardinality(W2)
    BY <1>2, <1>12, <1>13, <1>15, Numbered
  <1>17. IsFiniteSet(B) /\ Cardinality(B) <= Cardinality(WB)
    BY <1>3, <1>5, <1>12, <1>13, <1>15, Numbered
  <1>18. IsFiniteSet(A1) /\ Cardinality(A1) <= client.authLen /\ client.authLen \in Nat
    <2>1. PICK S : /\ IsFiniteSet(S) /\ Cardinality(S) <= client.authLen
                   /\ client.authLen \in Nat /\ \A i \in A1 : q[i].seq \in S
      BY <1>14
    <2>2. IsFiniteSet(A1) /\ Cardinality(A1) <= Cardinality(S)
      BY <1>2, <1>12, <1>13, <2>1, Numbered
    <2> QED BY <2>1, <2>2, FS_CardinalityType
  <1>19. Cardinality(W2) + Cardinality(WB) <= Cardinality(W)
    <2>1. IsFiniteSet(W2 \cup WB) /\ Cardinality(W2 \cup WB) = Cardinality(W2) + Cardinality(WB) - Cardinality(W2 \cap WB)
      BY <1>15, FS_Union
    <2>2. Cardinality(W2 \cap WB) = 0
      BY <1>11, FS_EmptySet
    <2>3. Cardinality(W2 \cup WB) <= Cardinality(W)
      BY <1>8, <1>9, <1>10, FS_Subset
    <2> QED BY <1>15, <2>1, <2>2, <2>3, FS_CardinalityType
  <1>20. Cardinality(A) = Cardinality(A1) + Cardinality(A2)
    <2>1. Cardinality(A1 \cup A2) = Cardinality(A1) + Cardinality(A2) - Cardinality(A1 \cap A2)
      BY <1>16, <1>18, FS_Union
    <2>2. Cardinality(A1 \cap A2) = 0
      BY <1>12, FS_EmptySet
    <2>3. Cardinality(A1) \in Nat /\ Cardinality(A2) \in Nat
      BY <1>16, <1>18, FS_CardinalityType
    <2> QED BY <1>12, <2>1, <2>2, <2>3
  <1>21. Cardinality(A) + Cardinality(B) <= client.authLen + Len(client.pending)
    <2>1. /\ Cardinality(A1) \in Nat /\ Cardinality(A2) \in Nat /\ Cardinality(B) \in Nat
          /\ Cardinality(W2) \in Nat /\ Cardinality(WB) \in Nat /\ Cardinality(W) \in Nat
      BY <1>8, <1>15, <1>16, <1>17, <1>18, FS_CardinalityType
    <2> QED BY <1>7, <1>8, <1>16, <1>17, <1>18, <1>19, <1>20, <2>1
  <1> QED BY <1>21 DEF OwnStepsAreOutstanding, Outstanding, A, B, calls, q

(* Nothing under way is lost, nothing sent is refused for a number its own  *)
(* page has used up, the steps the server owes are counted, and at rest     *)
(* both sides agree, whatever connections, pages, rejections and zone       *)
(* changes came between.  A step of a page may be refused after a call of   *)
(* an earlier page was served late, and the theorem does not say otherwise  *)
(* (predictor.ts, main.ts, movement.rs).                                    *)
THEOREM PredictionIsRight == MovementSpec => []PredictionWellFormed
  <1>1. MovementInv => PredictionWellFormed
    BY TypesHold, NoPhantoms, NoneStale, AllOutstanding, Quiescence
       DEF MovementInv, PredictionWellFormed
  <1> QED BY <1>1, MovementInvariance, PTL

(* A battle holds its player where it found him, with the intents he had,   *)
(* unless he withdraws them (movement_tick, authorize_move).                *)
THEOREM BattlesHold == MovementSpec => HeldInBattle
  <1> DEFINE Held == inBattle /\ inBattle' /\ row # None =>
                       row'.at = row.at /\ row'.queue \in {row.queue, <<>>}
  <1>1. ASSUME MovementInv, [MovementNext]_movementVars, inBattle, inBattle', row # None
        PROVE  row'.at = row.at /\ row'.queue \in {row.queue, <<>>}
    <2>1. Types /\ Links
      BY <1>1 DEF MovementInv
    <2>2. CASE UNCHANGED row
      BY <2>2
    <2>3. ASSUME NEW c \in Conns, OnDisconnect(c) PROVE UNCHANGED row
      BY <1>1, <2>1, <2>3, DisconnectFacts
    <2>4. ASSUME NEW c \in Conns, JoinGame(c) PROVE UNCHANGED row
      BY <1>1, <2>1, <2>4, JoinFacts
    <2>5. ASSUME NEW c \in Conns, NEW call, Move(c, call)
          PROVE  row'.at = row.at /\ row'.queue \in {row.queue, <<>>}
      BY <1>1, <2>1, <2>5, MoveFacts
    <2>6. ASSUME MovementTick PROVE FALSE
      BY <1>1, <2>1, <2>6, TickFacts DEF Types
    <2>7. ASSUME \/ \E op \in Ops : Send(op)
                 \/ Frame \/ Connect \/ ReceiveSnapshot \/ ReceiveRows \/ ReceiveRejection
                 \/ Drop \/ Reload \/ Challenged \/ BattleOver \/ UNCHANGED movementVars
          PROVE  UNCHANGED row
      BY <2>7 DEF Send, Frame, Connect, ReceiveSnapshot, ReceiveRows, ReceiveRejection,
                  Drop, Reload, Lose, Challenged, BattleOver, movementVars
    <2> QED BY <1>1, <2>2, <2>3, <2>4, <2>5, <2>6, <2>7 DEF MovementNext, Serve
  <1>2. MovementInv /\ [MovementNext]_movementVars => [Held]_movementVars
    BY <1>1
  <1> QED BY <1>2, MovementInvariance, PTL DEF MovementSpec, HeldInBattle, Held
=============================================================================
