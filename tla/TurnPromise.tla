---------------------------- MODULE TurnPromise -----------------------------
(***************************************************************************)
(* The turn machine as a state machine of whole calls: the specification   *)
(* TurnMachine implements.                                                 *)
(***************************************************************************)
EXTENDS TurnContract

VARIABLE b

Init == \E kind \in Kinds : b = New(kind, Units)

Next ==
  \/ b' \in AfterStart(b)
  \/ b' \in AfterAdvance(b, b.round)
  \/ \E u \in Units : b' \in AfterSubmit(b, u) \cup AfterCancel(b, u)
  \/ \E u \in Units : b' \in AfterExpire(b, u, b.clock[SideOf[u]].seq)
  \/ \E o \in {"sideA", "sideB", "fled"} : b' \in AfterConclude(b, o)

Spec == Init /\ [][Next]_b
=============================================================================
