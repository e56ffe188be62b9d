------------------------------- MODULE Trading -------------------------------
(***************************************************************************)
(* The asset plane of the server module: who owns which monster, item and  *)
(* coin; the trade offers that promise some of them away; the battles that *)
(* commit monsters; the accounts whose erasure destroys all of it.         *)
(*                                                                         *)
(* The server is single threaded and a reducer is one transaction, so each *)
(* action below is one committed reducer call (an `Err` rolls back and is  *)
(* a stutter).  What interleaves is the order of calls of several players, *)
(* of the scheduler's one-shot rows and of connection hooks: a trade is    *)
(* three calls by two players with anything in between.                    *)
(***************************************************************************)
EXTENDS Naturals, FiniteSets

CONSTANTS
  Players,       \* identities of connected clients
  Accounts,      \* the identities that sign in; the others stay guests
  Wild,          \* WILD_IDENTITY, side B of a wild battle
  Monsters,      \* the monster ids the table's auto_inc ever hands out
  Unborn,        \* owner of an id not handed out yet
  Erased,        \* owner of an id whose row is gone (ids are never reused)
  Items,
  MaxItemStack,  \* MAX_ITEM_STACK
  MaxBalance,    \* MAX_BALANCE
  BuyPrice, SellPrice, HealCost,
  TradeTTL,      \* TRADE_OFFER_TTL_MS
  Grace,         \* DELETION_GRACE_MS_DEFAULT
  MaxReward,     \* bound: largest single reward, in items or coins
  MaxOffered,    \* bound: largest quantity or amount named in an offer
  MaxTrades,     \* bound: offers ever proposed
  MaxNow         \* bound: the clock stops here

ASSUME IdentityAssumption ==
  /\ Accounts \subseteq Players
  /\ Wild \notin Players
  /\ Unborn \notin Players /\ Erased \notin Players /\ Unborn # Erased

ASSUME BoundAssumption ==
  /\ MaxItemStack \in Nat /\ MaxBalance \in Nat
  /\ BuyPrice \in Nat /\ SellPrice \in Nat /\ HealCost \in Nat
  /\ TradeTTL \in Nat \ {0} /\ Grace \in Nat \ {0}
  /\ MaxReward \in Nat /\ MaxOffered \in Nat /\ MaxTrades \in Nat /\ MaxNow \in Nat

VARIABLES
  now,          \* ctx.timestamp in ms
  player,       \* the `player` table: joined identities
  account,      \* the `account` table: status, deletion request stamp, claim spent
  owner,        \* monster.owner_identity
  inventory,    \* inventory.count (0: no row)
  wallet,       \* player_wallet.balance (0 also when there is no row)
  battles,      \* the `battle` rows whose outcome is Ongoing
  offers,       \* the `trade_offer` table
  reapers,      \* the `trade_offer_reaper_schedule` table
  nextTradeId   \* trade_offer's auto_inc

assets == <<owner, inventory, wallet>>
trading == <<offers, reapers, nextTradeId>>
vars == <<now, player, account, assets, battles, trading>>

-----------------------------------------------------------------------------
(* One side of an offer, and the two sides of one.  Below, an operator with *)
(* a suffix (_FirstIndexOnly, _StatusOnly, ...) is a plausible wrong version *)
(* of the operator it precedes.  No action uses it: each breaks one of the   *)
(* properties at the end when it takes its original's place.                 *)

Side == [monsters : SUBSET Monsters, items : [Items -> 0..MaxOffered],
         currency : 0..MaxOffered]

Offer == [id : 1..MaxTrades, initiator : Players, counterparty : Players,
          give : Side, want : Side,
          status : {"Pending", "ConfirmedByCounterparty"}, createdAt : 0..MaxNow,
          openedInGrace : BOOLEAN]  \* history: the counterparty was mid-grace

Battle == [player : Players, opponent : Players \cup {Wild},
           party : SUBSET Monsters, opponentParty : SUBSET Monsters]

Parties(o) == {o.initiator, o.counterparty}
Gives(o, p) == IF p = o.initiator THEN o.give ELSE o.want
Gets(o, p) == IF p = o.initiator THEN o.want ELSE o.give
OffersOf(p) == {o \in offers : p \in Parties(o)}
HasActiveTrade_PendingOnly(p) == \E o \in OffersOf(p) : o.status = "Pending"
HasActiveTrade(p) == OffersOf(p) # {}
MonstersOf(p) == {m \in Monsters : owner[m] = p}

(* guards.rs: what is locked.  A sum of quantities is the number of locked  *)
(* units, each tagged with the offer that locks it.                         *)
InTrade_FirstIndexOnly(p, m) ==
  \E o \in {x \in offers : x.initiator = p} : m \in o.give.monsters \cup o.want.monsters
InTrade(p, m) == \E o \in OffersOf(p) : m \in o.give.monsters \cup o.want.monsters
EscrowedItemQty(p, i) ==
  Cardinality(UNION {{o.id} \X (1..Gives(o, p).items[i]) : o \in OffersOf(p)})
EscrowedCurrency(p) ==
  Cardinality(UNION {{o.id} \X (1..Gives(o, p).currency) : o \in OffersOf(p)})

Monus(a, b) == IF b > a THEN 0 ELSE a - b
AvailableItem(p, i) == Monus(inventory[p][i], EscrowedItemQty(p, i))
AvailableCurrency_Unlocked(p) == wallet[p]
AvailableCurrency(p) == Monus(wallet[p], EscrowedCurrency(p))

BattlesOf(p) == {b \in battles : p \in {b.player, b.opponent}}
InOngoingBattle(p) == BattlesOf(p) # {}
InBattle(p, m) == \E b \in BattlesOf(p) : m \in b.party \cup b.opponentParty

IsPendingDeletion_StatusOnly(p) == account[p].status = "PendingDeletion"
IsPendingDeletion(p) == account[p].status \in {"PendingDeletion", "Terminal"}
RefusesCommitmentOpenedAt_Strict(p, t) ==
  \/ account[p].status = "Terminal"
  \/ account[p].status = "PendingDeletion" /\ t > account[p].requestedAt
RefusesCommitmentOpenedAt(p, t) ==
  \/ account[p].status = "Terminal"
  \/ account[p].status = "PendingDeletion" /\ t >= account[p].requestedAt

(* grant_item / grant_currency saturate at the cap; a debit is exact.       *)
Granted(held, n, cap) == IF held + n > cap THEN cap ELSE held + n
Settled_CreditFirst(held, out, in, cap) == Monus(Granted(held, in, cap), out)
Settled(held, out, in, cap) == Granted(held - out, in, cap)
Headroom(held, in, cap) == in > 0 => held + in <= cap

GrantItem(p, i, n) ==
  inventory' = [inventory EXCEPT ![p][i] = Granted(@, n, MaxItemStack)]
GrantCurrency(p, n) == wallet' = [wallet EXCEPT ![p] = Granted(@, n, MaxBalance)]
ConsumeItem(p, i, n) == inventory' = [inventory EXCEPT ![p][i] = @ - n]
SpendCurrency(p, n) == wallet' = [wallet EXCEPT ![p] = @ - n]

(* Deleting offers always takes their schedule rows along.                  *)
DeleteOffers(gone) ==
  /\ offers' = offers \ gone
  /\ reapers' = {r \in reapers : \A o \in gone : o.id # r.tradeId}
  /\ UNCHANGED nextTradeId
-----------------------------------------------------------------------------
Init ==
  /\ now = 0
  /\ player = {}
  /\ account = [p \in Players |-> [status |-> "None", requestedAt |-> 0, claimed |-> FALSE]]
  /\ owner = [m \in Monsters |-> Unborn]
  /\ inventory = [p \in Players |-> [i \in Items |-> 0]]
  /\ wallet = [p \in Players |-> 0]
  /\ battles = {} /\ offers = {} /\ reapers = {} /\ nextTradeId = 1

(* trading.rs ------------------------------------------------------------- *)

CanOffer(p, side) ==
  /\ side.currency <= AvailableCurrency(p)
  /\ \A i \in Items : side.items[i] <= AvailableItem(p, i)
  /\ \A m \in side.monsters : owner[m] = p /\ ~InBattle(p, m)

NonEmpty(side) ==
  \/ side.monsters # {} \/ side.currency > 0 \/ \E i \in Items : side.items[i] > 0

ProposeTrade(me, cp, give, want) ==
  /\ nextTradeId <= MaxTrades /\ now + TradeTTL <= MaxNow
  /\ me \in player /\ ~IsPendingDeletion(me) /\ cp \in player
  /\ me # cp /\ ~HasActiveTrade(me) /\ ~HasActiveTrade(cp)
  /\ NonEmpty(give) \/ NonEmpty(want)
  /\ give.monsters \cap want.monsters = {}
  /\ CanOffer(me, give) /\ CanOffer(cp, want)
  /\ offers' = offers \cup
       {[id |-> nextTradeId, initiator |-> me, counterparty |-> cp,
         give |-> give, want |-> want, status |-> "Pending", createdAt |-> now,
         openedInGrace |-> account[cp].status = "PendingDeletion"]}
  /\ reapers' = reapers \cup {[tradeId |-> nextTradeId, at |-> now + TradeTTL]}
  /\ nextTradeId' = nextTradeId + 1
  /\ UNCHANGED <<now, player, account, assets, battles>>

DeclineTrade(me, o) ==
  /\ me = o.counterparty /\ o.status = "Pending"
  /\ DeleteOffers({o})
  /\ UNCHANGED <<now, player, account, assets, battles>>

AcceptTrade(me, o) ==
  /\ me = o.counterparty /\ o.status = "Pending"
  /\ ~RefusesCommitmentOpenedAt(me, o.createdAt)
  /\ offers' = (offers \ {o}) \cup {[o EXCEPT !.status = "ConfirmedByCounterparty"]}
  /\ UNCHANGED <<now, player, account, assets, battles, reapers, nextTradeId>>

(* The atomic swap: every debit lands before any credit, so the headroom    *)
(* is judged on what a party holds after its own debits.                    *)
ConfirmTrade(me, o) ==
  /\ me = o.initiator /\ o.status = "ConfirmedByCounterparty"
  /\ \A p \in Parties(o) :
       LET give == Gives(o, p)  get == Gets(o, p) IN
       /\ \A m \in give.monsters : owner[m] = p /\ ~InBattle(p, m)
       /\ \A i \in Items :
            /\ Headroom(Monus(inventory[p][i], give.items[i]), get.items[i], MaxItemStack)
            /\ give.items[i] <= inventory[p][i]
       /\ Headroom(Monus(wallet[p], give.currency), get.currency, MaxBalance)
       /\ give.currency <= wallet[p]
  /\ owner' = [m \in Monsters |->
       CASE m \in o.give.monsters -> o.counterparty
         [] m \in o.want.monsters -> o.initiator
         [] OTHER -> owner[m]]
  /\ inventory' = [p \in Players |-> [i \in Items |->
       IF p \in Parties(o)
       THEN Settled(inventory[p][i], Gives(o, p).items[i], Gets(o, p).items[i], MaxItemStack)
       ELSE inventory[p][i]]]
  /\ wallet' = [p \in Players |->
       IF p \in Parties(o)
       THEN Settled(wallet[p], Gives(o, p).currency, Gets(o, p).currency, MaxBalance)
       ELSE wallet[p]]
  /\ DeleteOffers({o})
  /\ UNCHANGED <<now, player, account, battles>>

CancelTrade(me, o) ==
  /\ me \in Parties(o)
  /\ DeleteOffers({o})
  /\ UNCHANGED <<now, player, account, assets, battles>>

IsOfferStale_OffByOne(o) == now > o.createdAt + TradeTTL
IsOfferStale(o) == now >= o.createdAt + TradeTTL

(* The scheduler fires a row at or after its time and deletes it itself;    *)
(* the reducer looks the offer up again and checks that it is stale.        *)
TradeOfferReaper(r) ==
  /\ now >= r.at
  /\ offers' = {o \in offers : ~(o.id = r.tradeId /\ IsOfferStale(o))}
  /\ reapers' = reapers \ {r}
  /\ UNCHANGED <<now, player, account, assets, battles, nextTradeId>>

(* Battles.  Only a wild battle pays coins, to the side A player.           *)

Payouts(bs) == IF \E b \in bs : b.opponent = Wild THEN 0..MaxReward ELSE {0}

StartWildTactical(p, party) ==
  /\ p \in player /\ ~IsPendingDeletion(p) /\ ~InOngoingBattle(p)
  /\ party # {} /\ party \subseteq MonstersOf(p)
  /\ \A m \in party : ~InTrade(p, m)
  /\ battles' = battles \cup
       {[player |-> p, opponent |-> Wild, party |-> party, opponentParty |-> {}]}
  /\ UNCHANGED <<now, player, account, assets, trading>>

(* accept_challenge by q of a challenge by p.  A challenge dies with its    *)
(* challenger's presence, not with its target's.                            *)
StartPvpTactical(p, q, party, opponentParty) ==
  /\ p # q /\ p \in player
  /\ \A x \in {p, q} : ~IsPendingDeletion(x) /\ ~InOngoingBattle(x)
  /\ party # {} /\ party \subseteq MonstersOf(p)
  /\ opponentParty # {} /\ opponentParty \subseteq MonstersOf(q)
  /\ \A m \in party : ~InTrade(p, m)
  /\ \A m \in opponentParty : ~InTrade(q, m)
  /\ battles' = battles \cup
       {[player |-> p, opponent |-> q, party |-> party, opponentParty |-> opponentParty]}
  /\ UNCHANGED <<now, player, account, assets, trading>>

(* A queued recruit takes its bait when it executes, then may catch.        *)
TakeBait(b, i) ==
  /\ b.opponent = Wild /\ AvailableItem(b.player, i) > 0
  /\ ConsumeItem(b.player, i, 1)
  /\ UNCHANGED <<now, player, account, owner, wallet, battles, trading>>

Recruit(b, m) ==
  /\ b.opponent = Wild /\ owner[m] = Unborn
  /\ owner' = [owner EXCEPT ![m] = b.player]
  /\ UNCHANGED <<now, player, account, inventory, wallet, battles, trading>>

Finish(b, pay) ==
  /\ pay \in Payouts({b})
  /\ battles' = battles \ {b}
  /\ GrantCurrency(b.player, pay)
  /\ UNCHANGED <<now, player, account, owner, inventory, trading>>

(* The economy's other spenders and sources of items and coins.             *)

CanShop(p) == p \in player /\ ~IsPendingDeletion(p) /\ ~InOngoingBattle(p)

Buy(p, i, qty) ==
  /\ CanShop(p)
  /\ BuyPrice * qty <= AvailableCurrency(p)
  /\ Headroom(inventory[p][i], qty, MaxItemStack)
  /\ SpendCurrency(p, BuyPrice * qty)
  /\ GrantItem(p, i, qty)
  /\ UNCHANGED <<now, player, account, owner, battles, trading>>

Sell(p, i, qty) ==
  /\ CanShop(p)
  /\ qty <= AvailableItem(p, i)
  /\ Headroom(wallet[p], SellPrice * qty, MaxBalance)
  /\ ConsumeItem(p, i, qty)
  /\ GrantCurrency(p, SellPrice * qty)
  /\ UNCHANGED <<now, player, account, owner, battles, trading>>

HealParty(p) ==
  /\ CanShop(p)
  /\ HealCost <= AvailableCurrency(p)
  /\ SpendCurrency(p, HealCost)
  /\ UNCHANGED <<now, player, account, owner, inventory, battles, trading>>

Train(p, m, i) ==
  /\ ~IsPendingDeletion(p) /\ ~InOngoingBattle(p)
  /\ owner[m] = p /\ ~InTrade(p, m)
  /\ EscrowedItemQty(p, i) < inventory[p][i]
  /\ ConsumeItem(p, i, 1)
  /\ UNCHANGED <<now, player, account, owner, wallet, battles, trading>>

AdvanceDialogue(p, i, qty, coins) ==
  /\ CanShop(p)
  /\ GrantItem(p, i, qty)
  /\ GrantCurrency(p, coins)
  /\ UNCHANGED <<now, player, account, owner, battles, trading>>

(* Presence.                                                                *)

JoinGame(p) ==
  /\ ~IsPendingDeletion(p) /\ p \notin player
  /\ player' = player \cup {p}
  /\ IF MonstersOf(p) = {}
     THEN \E m \in Monsters : owner[m] = Unborn /\ owner' = [owner EXCEPT ![m] = p]
     ELSE UNCHANGED owner
  /\ UNCHANGED <<now, account, inventory, wallet, battles, trading>>

ResolveAllLiveInteractions(p) ==
  /\ battles' = battles \ BattlesOf(p)
  /\ DeleteOffers(OffersOf(p))

(* The last connection of p closes: also for one that never joined.         *)
OnDisconnect(p, pay) ==
  /\ pay \in Payouts(BattlesOf(p))
  /\ ResolveAllLiveInteractions(p)
  /\ GrantCurrency(p, pay)
  /\ player' = player \ {p}
  /\ UNCHANGED <<now, account, owner, inventory>>

(* Accounts.                                                                *)

ProvisionAccount(p) ==
  /\ p \in Accounts /\ account[p].status \in {"None", "Terminal"}
  /\ account' = [account EXCEPT ![p] =
       [status |-> "Active", requestedAt |-> 0, claimed |-> FALSE]]
  /\ UNCHANGED <<now, player, assets, battles, trading>>

(* complete_guest_claim: everything a guest owns becomes me's.  The claim    *)
(* code is the guest's to give away, so any account may come with it; codes *)
(* and their expiry are in Accounts.                                        *)
OwnsGameData(p) ==
  MonstersOf(p) # {} \/ wallet[p] > 0 \/ \E i \in Items : inventory[p][i] > 0
GuestIsGone(g) == g \notin player /\ ~InOngoingBattle(g)

Rekeyed(f, from, to, none) == [f EXCEPT ![to] = f[from], ![from] = none]

CompleteGuestClaim(me, guest) ==
  /\ account[me].status = "Active" /\ ~account[me].claimed
  /\ guest \in Players \ Accounts /\ guest # me
  /\ GuestIsGone(guest) /\ ~InOngoingBattle(me) /\ ~OwnsGameData(me)
  /\ owner' = [m \in Monsters |-> IF owner[m] = guest THEN me ELSE owner[m]]
  /\ inventory' = Rekeyed(inventory, guest, me, [i \in Items |-> 0])
  /\ wallet' = Rekeyed(wallet, guest, me, 0)
  /\ account' = [account EXCEPT ![me].claimed = TRUE]
  /\ UNCHANGED <<now, player, battles, trading>>

DeleteAccount(p) ==
  /\ account[p].status = "Active"
  /\ account' = [account EXCEPT ![p].status = "PendingDeletion", ![p].requestedAt = now]
  /\ UNCHANGED <<now, player, assets, battles, trading>>

CancelAccountDeletion(p) ==
  /\ account[p].status = "PendingDeletion"
  /\ DeleteOffers({o \in offers :
       o.counterparty = p /\ RefusesCommitmentOpenedAt(p, o.createdAt)})
  /\ account' = [account EXCEPT ![p].status = "Active", ![p].requestedAt = 0]
  /\ UNCHANGED <<now, player, assets, battles>>

(* The erasure cascade.  The `player` row stays: it is the anchor of an     *)
(* erased identity that is still connected.                                 *)
AccountDeletionReaper(p) ==
  /\ account[p].status = "PendingDeletion" /\ now >= account[p].requestedAt + Grace
  /\ ResolveAllLiveInteractions(p)
  /\ owner' = [m \in Monsters |-> IF owner[m] = p THEN Erased ELSE owner[m]]
  /\ inventory' = [inventory EXCEPT ![p] = [i \in Items |-> 0]]
  /\ wallet' = [wallet EXCEPT ![p] = 0]
  /\ account' = [account EXCEPT ![p].status = "Terminal"]
  /\ UNCHANGED <<now, player>>

Tick == now < MaxNow /\ now' = now + 1
        /\ UNCHANGED <<player, account, assets, battles, trading>>
-----------------------------------------------------------------------------
Trades ==
  \/ \E me, cp \in Players, give, want \in Side : ProposeTrade(me, cp, give, want)
  \/ \E me \in Players, o \in offers :
       DeclineTrade(me, o) \/ AcceptTrade(me, o) \/ ConfirmTrade(me, o) \/ CancelTrade(me, o)
  \/ \E r \in reapers : TradeOfferReaper(r)

Battles ==
  \/ \E p \in Players, party \in SUBSET Monsters : StartWildTactical(p, party)
  \/ \E p, q \in Players, party, opponentParty \in SUBSET Monsters :
       StartPvpTactical(p, q, party, opponentParty)
  \/ \E b \in battles :
       \/ \E i \in Items : TakeBait(b, i)
       \/ \E m \in Monsters : Recruit(b, m)
       \/ \E pay \in 0..MaxReward : Finish(b, pay)

Economy == \E p \in Players :
  \/ \E i \in Items, qty \in 1..MaxReward : Buy(p, i, qty) \/ Sell(p, i, qty)
  \/ HealParty(p)
  \/ \E m \in Monsters, i \in Items : Train(p, m, i)
  \/ \E i \in Items, qty, coins \in 0..MaxReward : AdvanceDialogue(p, i, qty, coins)

Identities == \E p \in Players :
  \/ JoinGame(p)
  \/ \E pay \in 0..MaxReward : OnDisconnect(p, pay)
  \/ ProvisionAccount(p) \/ DeleteAccount(p) \/ CancelAccountDeletion(p)
  \/ \E guest \in Players : CompleteGuestClaim(p, guest)
  \/ AccountDeletionReaper(p)

Next == Trades \/ Battles \/ Economy \/ Identities \/ Tick

Spec == Init /\ [][Next]_vars

(* Time passes and the host fires every schedule row that is due.           *)
FairSpec ==
  /\ Spec
  /\ WF_vars(Tick)
  /\ WF_vars(\E r \in reapers : TradeOfferReaper(r))
-----------------------------------------------------------------------------
(* Properties.                                                              *)

(* Every table holds rows of its schema and no count passes its cap.        *)
TypeOK ==
  /\ now \in 0..MaxNow
  /\ player \subseteq Players
  /\ account \in [Players -> [status : {"None", "Active", "PendingDeletion", "Terminal"},
                               requestedAt : 0..MaxNow, claimed : BOOLEAN]]
  /\ owner \in [Monsters -> Players \cup {Unborn, Erased}]
  /\ inventory \in [Players -> [Items -> 0..MaxItemStack]]
  /\ wallet \in [Players -> 0..MaxBalance]
  /\ battles \subseteq Battle
  /\ offers \subseteq Offer
  /\ reapers \subseteq [tradeId : 1..MaxTrades, at : 0..MaxNow]
  /\ nextTradeId \in 1..MaxTrades + 1

(* Nobody is party to two live offers, in whichever of the two columns: the *)
(* fact propose_trade's "escrow is provably 0 here" rests on.               *)
OneActiveOffer ==
  \A o1, o2 \in offers : o1 # o2 => Parties(o1) \cap Parties(o2) = {} /\ o1.id # o2.id

(* What is promised is held: whatever its owner did since the offer was     *)
(* opened, the locked monsters, items and coins are all still there, so no  *)
(* confirm fails for want of them.                                          *)
EscrowBacked ==
  \A p \in Players :
    /\ EscrowedCurrency(p) <= wallet[p]
    /\ \A i \in Items : EscrowedItemQty(p, i) <= inventory[p][i]
    /\ \A o \in OffersOf(p) : Gives(o, p).monsters \subseteq MonstersOf(p)

(* No count passes its cap while grants saturate at it, and nothing that    *)
(* spends takes what an open offer has promised.                            *)
HoldingsBacked == TypeOK /\ EscrowBacked

(* A monster is promised away or it fights, never both, though each lock is *)
(* taken by a different call and looks only at the other's table.           *)
NoMonsterInTradeAndBattle ==
  \A o \in offers, b \in battles :
    (o.give.monsters \cup o.want.monsters) \cap (b.party \cup b.opponentParty) = {}

(* A battle fields only monsters its two sides own, from start to end, and  *)
(* no monster fights twice: the HP and XP written back reach their owner.   *)
BattleMonstersOwned ==
  /\ \A b \in battles : /\ b.party \subseteq MonstersOf(b.player)
                         /\ b.opponentParty \subseteq MonstersOf(b.opponent)
  /\ \A b1, b2 \in battles : b1 # b2 =>
       (b1.party \cup b1.opponentParty) \cap (b2.party \cup b2.opponentParty) = {}

(* What two parties may claim a monster for: to fight with it, which needs  *)
(* its owner, or to swap it, and only one of these at a time.               *)
MonstersCommittedOnce == BattleMonstersOwned /\ NoMonsterInTradeAndBattle

(* Every live offer has its one expiry row at its own deadline, and no row  *)
(* outlives its offer, however the offer ends.                              *)
ReapersMatchOffers ==
  reapers = {[tradeId |-> o.id, at |-> o.createdAt + TradeTTL] : o \in offers}

(* A player has one live offer, and that offer has its one expiry row, in   *)
(* every order of proposals, answers, expiries and disconnects.             *)
OneOfferOneReaper == OneActiveOffer /\ ReapersMatchOffers

(* An offer never dangles from an identity that left: presence ends last.   *)
OffersBetweenJoined == \A o \in offers : Parties(o) \subseteq player

(* The offers that are open are orderly: one of a player, with one expiry   *)
(* row, between players who are there.                                      *)
OffersWellFormed == OneOfferOneReaper /\ OffersBetweenJoined

(* Erasure is complete and stays complete: an erased identity, even one     *)
(* still connected and joined, comes to own nothing again.                  *)
ErasedOwnsNothing ==
  \A p \in Players : account[p].status = "Terminal" =>
    /\ MonstersOf(p) = {} /\ wallet[p] = 0 /\ BattlesOf(p) = {}
    /\ \A i \in Items : inventory[p][i] = 0

(* An offer opened to an account in its grace period is never accepted, not *)
(* even by way of cancelling the deletion and accepting afterwards.         *)
GraceOffersNeverAccepted == \A o \in offers : o.openedInGrace => o.status = "Pending"

(* A swap neither makes nor destroys anything: each party ends with what it *)
(* had, less what it gave, plus what it got, with nothing lost at a cap.    *)
ExactSettlement == [][\A p \in Players, o \in offers :
  ConfirmTrade(p, o) => \A q \in Parties(o) :
    /\ wallet'[q] + Gives(o, q).currency = wallet[q] + Gets(o, q).currency
    /\ \A i \in Items :
         inventory'[q][i] + Gives(o, q).items[i] = inventory[q][i] + Gets(o, q).items[i]
    /\ {m \in Monsters : owner'[m] = q}
         = (MonstersOf(q) \ Gives(o, q).monsters) \cup Gets(o, q).monsters]_vars

(* No escrow lasts: every offer is settled, ended or expired.  (As ids are  *)
(* not used twice and run out, that is that the table gets empty again.)    *)
OfferResolved == offers # {} ~> offers = {}

(* The server keeps the promise of EscrowContract.                          *)
ContractOf(o) ==
  [id |-> o.id, first |-> o.initiator, second |-> o.counterparty,
   give |-> o.give, want |-> o.want, status |-> o.status]
Escrow == INSTANCE EscrowContract
  WITH Traders <- Players, live <- {ContractOf(o) : o \in offers},
       items <- inventory, coins <- wallet
ImplementsEscrowContract == Escrow!Spec
=============================================================================
