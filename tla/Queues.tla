-------------------------------- MODULE Queues --------------------------------
(* What the queues and logs of several modules have in common.               *)
EXTENDS Integers, Sequences

(* The elements of s that are in S, in their order.                          *)
Selected(s, S) ==
  LET upTo[i \in 0 .. Len(s)] ==
        IF i = 0 THEN <<>>
        ELSE IF s[i] \in S THEN Append(upTo[i - 1], s[i]) ELSE upTo[i - 1]
  IN upTo[Len(s)]
=============================================================================
