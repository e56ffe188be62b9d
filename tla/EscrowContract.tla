--------------------------- MODULE EscrowContract ---------------------------
(***************************************************************************)
(* What the trade system promises its players, with no word of how: a      *)
(* contract names what each of two parties gives.  While it is live, its   *)
(* parties may do as they please with their goods as long as what they     *)
(* promised stays with them.  A contract that its second party agreed to   *)
(* can be settled: both sides change hands at once, exactly, and nothing   *)
(* else does.  Any other end leaves every good where it is.  Monsters      *)
(* change hands in no other way, save that a trader in no contract may     *)
(* leave all it has to an heir.                                            *)
(***************************************************************************)
EXTENDS Naturals

CONSTANTS Traders, Monsters, Items, Unborn, Erased

VARIABLES
  live,    \* the contracts in force
  owner,   \* who holds each monster
  items,   \* how many of each item each party holds
  coins    \* how many coins each party holds

vars == <<live, owner, items, coins>>

(* A contract: [id, first, second, give, want, status].  What first gives   *)
(* and what it wants from second are bundles: [monsters, items, currency].  *)

Holds(p, bundle) ==
  /\ \A m \in bundle.monsters : owner[m] = p
  /\ \A i \in Items : bundle.items[i] <= items[p][i]
  /\ bundle.currency <= coins[p]

Backed(c) == Holds(c.first, c.give) /\ Holds(c.second, c.want)
Apart(c, d) == {c.first, c.second} \cap {d.first, d.second} = {}

Init ==
  /\ live = {}
  /\ owner = [m \in Monsters |-> Unborn]
  /\ items = [p \in Traders |-> [i \in Items |-> 0]]
  /\ coins = [p \in Traders |-> 0]

Open(c) ==
  /\ c.status = "Pending" /\ c.first # c.second
  /\ Backed(c)
  /\ \A d \in live : d.id # c.id /\ Apart(c, d)
  /\ live' = live \cup {c}
  /\ UNCHANGED <<owner, items, coins>>

Agree(c) ==
  /\ c.status = "Pending"
  /\ live' = (live \ {c}) \cup {[c EXCEPT !.status = "ConfirmedByCounterparty"]}
  /\ UNCHANGED <<owner, items, coins>>

(* p hands over out and receives in: no rounding, no cap.                   *)
Swapped(p, out, in) ==
  /\ coins'[p] + out.currency = coins[p] + in.currency
  /\ \A i \in Items : items'[p][i] + out.items[i] = items[p][i] + in.items[i]
  /\ {m \in Monsters : owner'[m] = p}
       = ({m \in Monsters : owner[m] = p} \ out.monsters) \cup in.monsters

Settle(c) ==
  /\ c.status = "ConfirmedByCounterparty"
  /\ live' = live \ {c}
  /\ Swapped(c.first, c.give, c.want) /\ Swapped(c.second, c.want, c.give)
  /\ \A p \in Traders \ {c.first, c.second} : coins'[p] = coins[p] /\ items'[p] = items[p]
  /\ \A m \in Monsters : m \notin c.give.monsters \cup c.want.monsters => owner'[m] = owner[m]

(* Anything else: p's goods come and go and contracts lapse, but those that *)
(* stay in force stay backed, nobody else is touched, and a monster only    *)
(* appears with p or disappears from p.                                     *)
Use(p) ==
  /\ live' \subseteq live
  /\ \A c \in live' : Backed(c)'
  /\ \A q \in Traders \ {p} : coins'[q] = coins[q] /\ items'[q] = items[q]
  /\ \A m \in Monsters : owner'[m] # owner[m] =>
       (owner[m] = Unborn /\ owner'[m] = p) \/ (owner[m] = p /\ owner'[m] = Erased)

(* p, who is in no contract, leaves everything to heir.                     *)
Bequeath(p, heir) ==
  /\ p # heir /\ \A c \in live : p \notin {c.first, c.second}
  /\ live' = live
  /\ owner' = [m \in Monsters |-> IF owner[m] = p THEN heir ELSE owner[m]]
  /\ coins'[p] = 0 /\ coins'[heir] = coins[heir] + coins[p]
  /\ \A i \in Items : items'[p][i] = 0 /\ items'[heir][i] = items[heir][i] + items[p][i]
  /\ \A q \in Traders \ {p, heir} : coins'[q] = coins[q] /\ items'[q] = items[q]

Next ==
  \/ \E c \in live' \ live : Open(c)
  \/ \E c \in live : Agree(c) \/ Settle(c)
  \/ \E p \in Traders : Use(p) \/ \E heir \in Traders : Bequeath(p, heir)

Spec == Init /\ [][Next]_vars
=============================================================================
