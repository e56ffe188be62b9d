-------------------------------- MODULE Raising --------------------------------
(***************************************************************************)
(* How a monster grows: care and essence training with their cooldowns,    *)
(* Quality Time credited for play, the rewards of battles, evolution along *)
(* the authored graph, the queue of reveals its owner dismisses, and the   *)
(* reset of the bond when a trade changes the trainer.                     *)
(*                                                                         *)
(* One action is one reducer, with its tails.  Time is the server clock;   *)
(* it may be set back.  The account states behind require_not_deleting are *)
(* in Accounts and not repeated.  Trust, essence and levels are small      *)
(* numbers; the one essence pool stands for the eight.                     *)
(***************************************************************************)
EXTENDS Integers, FiniteSets, Sequences, SequencesExt, FiniteSetsExt, Queues

CONSTANTS
  Players, Guests,    \* all identities; those that can be claimed
  Monsters, Home,     \* the first trainer of each monster
  Species, First,     \* the species of a fresh monster
  Tier,               \* by species: its tier in the graph
  Edges,              \* evolution_path: [from, to, level, essence, trust, ticks]
  MinGap, IdleGap, DailyCap, TickLen, Day,   \* the QT_ constants, scaled
  TrustK,
  MaxCount, MaxLevel, \* where counters (u32::MAX, ESSENCE_SOFT_CAP) and levels end
  MaxChainSteps,
  MaxNow, MaxEvents   \* bounds: the clock; battles, trades and clock jumps

ASSUME RaisingPlayers ==
  /\ Guests \subseteq Players /\ Home \in [Monsters -> Players]
  /\ IsFiniteSet(Monsters) /\ IsFiniteSet(Edges) /\ First \in Species
ASSUME RaisingGraph ==
  Edges \subseteq [from : Species, to : Species, level : Nat, essence : Nat,
                   trust : 0..100, ticks : Nat]
ASSUME RaisingTiers ==  \* R5 and R11 of validate_evolution_paths
  /\ Tier \in [Species -> 0..(MaxChainSteps - 1)]
  /\ \A e \in Edges : Tier[e.to] = Tier[e.from] + 1
ASSUME RaisingTimes ==
  /\ {MinGap, IdleGap, DailyCap, TickLen, Day, TrustK,
      MaxCount, MaxLevel, MaxChainSteps, MaxNow, MaxEvents} \subseteq Nat
  /\ 0 < TickLen /\ 0 < MaxLevel /\ Day <= MaxNow /\ MinGap <= IdleGap /\ IdleGap < Day /\ 0 < DailyCap

VARIABLES
  now,
  mon,        \* the monster rows
  offers,     \* the active trade offers: [mon, from, to]
  battle,     \* the party each player has in an ongoing battle
  notices,    \* pending_evolution_notice: the entries of each owner
  rows,       \* the owners with such a row, which outlives its entries
  log, acked, \* history: every reveal, and how many each owner dismissed
  given, since, \* history: credit per day under this trainer, and since when
  rewinds, events
vars == <<now, mon, offers, battle, notices, rows, log, acked, given, since, rewinds, events>>
bounds == <<rewinds, events>>
history == <<log, acked>>

Least(a, b) == IF a <= b THEN a ELSE b
Up(n, k) == Least(n + k, MaxCount)
DayOf(t) == t \div Day
Days == 0..DayOf(MaxNow)
NoCredit == [d \in Days |-> 0]

Fresh(p) ==
  [owner |-> p, inParty |-> TRUE, species |-> First, level |-> 1, essence |-> 0,
   fav |-> 0, unfav |-> 0, favDay |-> 0,
   anchor |-> 0, window |-> 0, accum |-> 0, ticks |-> 0]

Init ==
  /\ now = Day
  /\ mon = [m \in Monsters |-> Fresh(Home[m])]
  /\ offers = {} /\ battle = [p \in Players |-> {}]
  /\ notices = [p \in Players |-> <<>>] /\ rows = {}
  /\ log = <<>> /\ acked = [p \in Players |-> 0]
  /\ given = [m \in Monsters |-> NoCredit] /\ since = [m \in Monsters |-> Day]
  /\ rewinds = 0 /\ events = 0

-----------------------------------------------------------------------------
(* Quality Time: apply_quality_time_credit.                                 *)

WindowAt(r, t) == IF DayOf(t) # DayOf(r.anchor) THEN 0 ELSE r.window

Creditable(r, t) ==
  IF t - r.anchor \in MinGap..IdleGap
  THEN Least(t - r.anchor, DailyCap - WindowAt(r, t)) ELSE 0

Accrued(r, t) ==
  LET credit == Creditable(r, t)
      accum  == r.accum + credit
  IN IF t < r.anchor THEN [r EXCEPT !.anchor = t]
     ELSE IF t - r.anchor > IdleGap
     THEN [r EXCEPT !.anchor = t, !.window = WindowAt(r, t)]
     ELSE IF credit = 0 THEN r
     ELSE [r EXCEPT !.anchor = t, !.window = WindowAt(r, t) + credit,
                    !.ticks = Up(@, accum \div TickLen),
                    !.accum = accum % TickLen]

-----------------------------------------------------------------------------
(* Evolution.                                                               *)

\* trust_tier_of, smoothed: the tier's floor is a percentage.
Trusts(r, floor) ==
  floor = 0 \/ (r.fav + TrustK) * 100 >= floor * (r.fav + r.unfav + 2 * TrustK)

Satisfied(r, e) ==
  /\ r.level >= e.level /\ r.essence >= e.essence
  /\ Trusts(r, e.trust) /\ r.ticks >= e.ticks
Eligible(r) == {e \in Edges : e.from = r.species /\ Satisfied(r, e)}

Transformed(r, e) == [r EXCEPT !.species = e.to, !.essence = 0]

Reveal_AfterTheFact(m, r, e) == [mon |-> m, from |-> Transformed(r, e).species, to |-> e.to]
Reveal(m, r, e) == [mon |-> m, from |-> e.from, to |-> e.to]

\* A monster row and the reveals it left behind on the way there.
Told(r) == [mon |-> r, told |-> <<>>]
Evolved(m, x, e) ==
  [mon |-> Transformed(x.mon, e), told |-> Append(x.told, Reveal(m, x.mon, e))]

\* check_and_evolve: one round of it, and as many as the chain may have.
CheckedOnce(m, x) ==
  IF Cardinality(Eligible(x.mon)) # 1 THEN x
  ELSE Evolved(m, x, CHOOSE e \in Eligible(x.mon) : TRUE)
Checked(m, x) ==
  LET after[n \in 0..MaxChainSteps] ==
        IF n = 0 THEN x ELSE CheckedOnce(m, after[n - 1])
  IN after[MaxChainSteps]

\* The tails of care and training: the accrual, then the check.
Tails_CheckFirst(m, r) ==
  LET x == Checked(m, Told(r)) IN [x EXCEPT !.mon = Accrued(x.mon, now)]
Tails(m, r) == Checked(m, Told(Accrued(r, now)))

(* The rows x[m] of the monsters in M and what they tell, in the order the *)
(* reducer visits the monsters.                                             *)
Owned(p) == {m \in Monsters : mon[m].owner = p}
Reveals(M) == [mon : M, from : Species, to : Species]
Granted(r) == Creditable(r, now)
Store(M, x, credited) ==
  \E order \in SetToSeqs(M) :
    LET told    == FlattenSeq([i \in DOMAIN order |-> x[order[i]].told])
        By(p)   == Selected(told, Reveals(Owned(p)))
    IN /\ mon' = [m \in Monsters |-> IF m \in M THEN x[m].mon ELSE mon[m]]
       /\ notices' = [p \in Players |-> notices[p] \o By(p)]
       /\ rows' = rows \cup {p \in Players : By(p) # <<>>}
       /\ log' = log \o [i \in DOMAIN told |->
                           [owner |-> mon[told[i].mon].owner, reveal |-> told[i]]]
       /\ given' = [m \in Monsters |->
            IF m \in credited
            THEN [given[m] EXCEPT ![DayOf(now)] = @ + Granted(mon[m])] ELSE given[m]]

-----------------------------------------------------------------------------
(* Guards.                                                                  *)

Escrowed(m) ==
  \E o \in offers : o.mon = m /\ mon[m].owner \in {o.from, o.to}
Fighting(p) == battle[p] # {}
Party(p) == {m \in Owned(p) : mon[m].inParty}
Free(m) == ~Fighting(mon[m].owner) /\ ~Escrowed(m)

Event == events < MaxEvents /\ events' = events + 1

-----------------------------------------------------------------------------
(* Reducers.                                                                *)

(* The cooldowns of care and training are left open: a monster may be      *)
(* ready at any time, which allows all that they allow and more.           *)
Care(m) ==
  /\ Free(m)
  /\ LET r == [mon[m] EXCEPT !.fav = Up(@, 1)]
     IN Store({m}, [i \in {m} |-> Tails(m, r)], {m})
  /\ UNCHANGED <<now, offers, battle, acked, since, bounds>>

(* essence_train; consume_crystalized_essence does the same at the price of *)
(* an item and shares its clock.                                            *)
EssenceTrain(m) ==
  /\ Free(m)
  /\ LET r == [mon[m] EXCEPT !.essence = Up(@, 1)]
     IN Store({m}, [i \in {m} |-> Tails(m, r)], {m})
  /\ UNCHANGED <<now, offers, battle, acked, since, bounds>>

(* enqueue_move: play credits the party, and only a new tick is checked.   *)
Walked(m) ==
  LET r == Accrued(mon[m], now)
  IN IF r.ticks # mon[m].ticks THEN Checked(m, Told(r)) ELSE Told(r)
Walkers_All(p) == Party(p)
Walkers(p) == {m \in Party(p) : ~Escrowed(m)}
Walk(p) ==
  /\ ~Fighting(p) /\ Walkers(p) # {}
  /\ Store(Walkers(p), [m \in Walkers(p) |-> Walked(m)], Walkers(p))
  /\ UNCHANGED <<now, offers, battle, acked, since, bounds>>

(* evolve: the player's own choice, and the cascade after it.              *)
Evolve(m) ==
  /\ m \notin battle[mon[m].owner] /\ ~Escrowed(m)
  /\ \E e \in Eligible(mon[m]) :
       Store({m}, [i \in {m} |-> Checked(m, Evolved(m, Told(mon[m]), e))], {})
  /\ UNCHANGED <<now, offers, battle, acked, since, bounds>>

(* set_party_slot *)
SetParty(m) ==
  /\ ~Escrowed(m)
  /\ mon' = [mon EXCEPT ![m].inParty = ~@]
  /\ UNCHANGED <<now, offers, battle, notices, rows, history, given, since, bounds>>

StartBattle(p) ==
  /\ ~Fighting(p) /\ Party(p) # {} /\ \A m \in Party(p) : ~Escrowed(m)
  /\ Event
  /\ battle' = [battle EXCEPT ![p] = Party(p)]
  /\ UNCHANGED <<now, mon, offers, notices, rows, history, given, since, rewinds>>

(* The end of a battle, credit_monster for those it rewards: won holds when *)
(* it was a wild one and was won.                                           *)
Rewarded(m, won, levels, essence) ==
  LET r == mon[m]
      paid == [r EXCEPT
        !.essence = Up(@, essence), !.level = Least(@ + levels, MaxLevel),
        !.fav = IF won /\ DayOf(now) > r.favDay THEN Up(@, 1) ELSE @,
        !.favDay = IF won /\ DayOf(now) > r.favDay THEN DayOf(now) ELSE @]
  IN Checked(m, Told(IF won THEN Accrued(paid, now) ELSE paid))
Fainted(m) == Told([mon[m] EXCEPT !.unfav = Up(@, 1)])

EndBattle(p) ==
  /\ Fighting(p)
  /\ \E won \in BOOLEAN, down \in SUBSET battle[p], gain \in {<<0, 0>>, <<1, 0>>, <<0, 1>>} :
       \E wild \in {w \in BOOLEAN : won => w},
          paid \in {S \in SUBSET (battle[p] \ down) : won => S = battle[p] \ down} :
         LET hurt == IF wild THEN down ELSE {}
         IN Store(paid \cup hurt,
                  [m \in paid \cup hurt |->
                     IF m \in paid THEN Rewarded(m, won, gain[1], gain[2]) ELSE Fainted(m)],
                  IF won THEN paid ELSE {})
  /\ battle' = [battle EXCEPT ![p] = {}]
  /\ UNCHANGED <<now, offers, acked, since, bounds>>

(* Trades, as far as they lock a monster and change its trainer.           *)
ProposeTrade(m, q) ==
  /\ q # mon[m].owner /\ ~Escrowed(m) /\ m \notin battle[mon[m].owner]
  /\ Event
  /\ offers' = offers \cup {[mon |-> m, from |-> mon[m].owner, to |-> q]}
  /\ UNCHANGED <<now, mon, battle, notices, rows, history, given, since, rewinds>>

EndTrade(o) ==
  /\ offers' = offers \ {o}
  /\ UNCHANGED <<now, mon, battle, notices, rows, history, given, since, bounds>>

ResetBond_KeepsAnchor(r) ==
  [r EXCEPT !.fav = 0, !.unfav = 0, !.favDay = 0, !.ticks = 0, !.accum = 0, !.window = 0]
ResetBond(r) ==
  [r EXCEPT !.fav = 0, !.unfav = 0, !.favDay = 0, !.ticks = 0, !.accum = 0, !.window = 0,
            !.anchor = 0]

ConfirmTrade(o) ==
  /\ mon[o.mon].owner = o.from /\ o.mon \notin battle[o.from]
  /\ offers' = offers \ {o}
  /\ mon' = [mon EXCEPT ![o.mon] = [ResetBond(@) EXCEPT !.owner = o.to, !.inParty = FALSE]]
  /\ given' = [given EXCEPT ![o.mon] = NoCredit]
  /\ since' = [since EXCEPT ![o.mon] = now]
  /\ UNCHANGED <<now, battle, notices, rows, history, bounds>>

(* ack_evolution_notices *)
AckNotices(p, n) ==
  /\ p \in rows /\ n \in 1..Len(notices[p])
  /\ notices' = [notices EXCEPT ![p] = SubSeq(@, n + 1, Len(@))]
  /\ acked' = [acked EXCEPT ![p] = @ + n]
  /\ UNCHANGED <<now, mon, offers, battle, rows, log, given, since, bounds>>

(* complete_guest_claim: everything of the guest moves to an account that  *)
(* has no data of its own.                                                  *)
HasGameData(p) == Owned(p) # {} \/ p \in rows
ClaimGuest(g, a) ==
  /\ ~Fighting(g) /\ ~Fighting(a) /\ ~HasGameData(a)
  /\ mon' = [m \in Monsters |-> IF mon[m].owner = g THEN [mon[m] EXCEPT !.owner = a] ELSE mon[m]]
  /\ notices' = IF g \in rows
                THEN [notices EXCEPT ![g] = <<>>, ![a] = notices[g]] ELSE notices
  /\ rows' = IF g \in rows THEN (rows \ {g}) \cup {a} ELSE rows
  /\ log' = [i \in DOMAIN log |-> IF log[i].owner = g THEN [log[i] EXCEPT !.owner = a] ELSE log[i]]
  /\ acked' = [acked EXCEPT ![g] = 0, ![a] = @ + acked[g]]
  /\ UNCHANGED <<now, offers, battle, given, since, bounds>>

Tick ==
  /\ now < MaxNow /\ now' = now + 1
  /\ UNCHANGED <<mon, offers, battle, notices, rows, history, given, since, bounds>>

(* The server's wall clock is set back.                                     *)
SetBack ==
  /\ Event /\ rewinds' = rewinds + 1
  /\ now' \in Day..(now - 1)
  /\ since' = [m \in Monsters |-> 0]
  /\ UNCHANGED <<mon, offers, battle, notices, rows, history, given>>

Next ==
  \/ Tick \/ SetBack
  \/ \E m \in Monsters : Care(m) \/ EssenceTrain(m) \/ Evolve(m) \/ SetParty(m)
  \/ \E p \in Players : Walk(p) \/ StartBattle(p) \/ EndBattle(p)
  \/ \E m \in Monsters, q \in Players : ProposeTrade(m, q)
  \/ \E o \in offers : EndTrade(o) \/ ConfirmTrade(o)
  \/ \E p \in Players, n \in 1..MaxChainSteps : AckNotices(p, n)
  \/ \E g \in Guests, a \in Players \ Guests : ClaimGuest(g, a)

Spec == Init /\ [][Next]_vars

-----------------------------------------------------------------------------
(* Types of the monster rows and the queues.                                *)
TypeOK ==
  /\ now \in Day..MaxNow /\ {rewinds, events} \subseteq 0..MaxEvents
  /\ mon \in [Monsters ->
       [owner : Players, inParty : BOOLEAN, species : Species, level : 1..MaxLevel,
        essence : 0..MaxCount, fav : 0..MaxCount, unfav : 0..MaxCount,
        favDay : Days, anchor : 0..MaxNow, window : 0..DailyCap,
        accum : 0..(TickLen - 1), ticks : 0..MaxCount]]
  /\ offers \subseteq [mon : Monsters, from : Players, to : Players]
  /\ battle \in [Players -> SUBSET Monsters]
  /\ rows \subseteq Players
  /\ \A p \in Players : notices[p] # <<>> => p \in rows

(* While the clock has not been set back, a monster's day window holds     *)
(* exactly the credit of the anchor's UTC day: a new day always starts     *)
(* empty, so the daily cap of two hours never becomes one for life         *)
(* (raising.rs, branch 3 of apply_quality_time_credit).                    *)
WindowIsTheDays ==
  rewinds = 0 => \A m \in Monsters : mon[m].window = given[m][DayOf(mon[m].anchor)]

(* No UTC day credits a trainer more than the cap, except that each time   *)
(* the clock is set back the day may be lived, and credited, once more.    *)
CreditIsCapped ==
  \A m \in Monsters, d \in Days : given[m][d] <= DailyCap * (1 + rewinds)

(* While the clock has not been set back, Quality Time is time spent under *)
(* the current trainer: what a monster has on record never exceeds the     *)
(* time that has passed since it changed hands, whatever ran under the     *)
(* trainer before (reset_bond_on_trade).                                   *)
BondIsEarned ==
  rewinds = 0 =>
    \A m \in Monsters : mon[m].ticks * TickLen + mon[m].accum <= now - since[m]

(* Quality Time is what the rules grant: for the day's own time, within    *)
(* the cap, with the trainer who is credited.                              *)
CreditIsEarned == TypeOK /\ WindowIsTheDays /\ CreditIsCapped /\ BondIsEarned

(* The reveals of a monster are the unbroken path from the species it      *)
(* hatched as to the one it is, each an authored edge, and an owner's      *)
(* queue is what its monsters told it less the prefix it dismissed.        *)
OfMonster(m) == Selected(log, [owner : Players, reveal : Reveals({m})])
OfOwner(p) == Selected(log, [owner : {p}, reveal : Reveals(Monsters)])
RevealsTellTheStory ==
  /\ \A m \in Monsters :
       LET s == OfMonster(m) IN
         /\ \A i \in DOMAIN s : \E e \in Edges :
              <<e.from, e.to>> = <<s[i].reveal.from, s[i].reveal.to>>
         /\ \A i \in DOMAIN s :
              s[i].reveal.from = IF i = 1 THEN First ELSE s[i - 1].reveal.to
         /\ mon[m].species = IF s = <<>> THEN First ELSE s[Len(s)].reveal.to
  /\ \A p \in Players :
       LET own == OfOwner(p)
       IN notices[p] = [i \in 1..(Len(own) - acked[p]) |-> own[acked[p] + i].reveal]

(* A monster on offer is the monster that was offered: while the offer     *)
(* stands nothing evolves, trains, levels or credits it, by any route      *)
(* (the guard in enqueue_move, and reject_if_monster_in_trade elsewhere).  *)
OfferedIsUntouched ==
  [][\A m \in {n \in Monsters : mon'[n] # mon[n]} :
       ~Escrowed(m) \/ mon'[m].owner # mon[m].owner]_vars

(* Whenever play under one trainer opens an evolution that leaves no       *)
(* choice, it happens in the same transaction: no reducer leaves behind a  *)
(* monster with just one edge open that was closed before (the tails that  *)
(* call check_and_evolve).                                                 *)
NoneIsMissed ==
  [][\A m \in {n \in Monsters : mon'[n] # mon[n]} :
       LET before == Eligible(mon[m]) after == Eligible(mon'[m])
       IN mon'[m].owner = mon[m].owner /\ after \ before # {}
          => Cardinality(after) # 1]_vars
=============================================================================
