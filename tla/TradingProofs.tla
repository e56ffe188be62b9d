---------------------------- MODULE TradingProofs ----------------------------
(* Theorems about Trading, for every value of its constants.                *)
EXTENDS Trading, FiniteSetTheorems, TLAPS

(* A tagged block of n units counts n.                                      *)
LEMMA TaggedUnits ==
  ASSUME NEW id, NEW n \in Nat
  PROVE  Cardinality({id} \X (1..n)) = n
<1>1. IsFiniteSet(1..n) /\ Cardinality(1..n) = n
  BY FS_Interval
<1>2. IsFiniteSet({id}) /\ Cardinality({id}) = 1
  BY FS_Singleton
<1>3. Cardinality({id} \X (1..n)) = 1 * n
  BY <1>1, <1>2, FS_Product
<1> QED
  BY <1>3

(* An offer's sides are well formed for whichever party looks.              *)
LEMMA SideType ==
  ASSUME TypeOK, NEW o \in offers, NEW p \in Parties(o)
  PROVE  Gives(o, p) \in Side /\ Gets(o, p) \in Side
BY DEF TypeOK, Offer, Gives, Gets

(* One offer at a time: what is locked is what that offer promises.         *)
LEMMA EscrowAmounts ==
  ASSUME TypeOK, BoundAssumption, OneActiveOffer, NEW p \in Players
  PROVE  /\ OffersOf(p) = {} =>
              EscrowedCurrency(p) = 0 /\ \A i \in Items : EscrowedItemQty(p, i) = 0
         /\ \A o \in OffersOf(p) :
              /\ EscrowedCurrency(p) = Gives(o, p).currency
              /\ \A i \in Items : EscrowedItemQty(p, i) = Gives(o, p).items[i]
         /\ EscrowedCurrency(p) \in Nat
         /\ \A i \in Items : EscrowedItemQty(p, i) \in Nat
<1>1. ASSUME OffersOf(p) = {}
      PROVE  EscrowedCurrency(p) = 0 /\ \A i \in Items : EscrowedItemQty(p, i) = 0
  <2>1. UNION {} = {}
    OBVIOUS
  <2> QED
    BY <1>1, <2>1, FS_EmptySet DEF EscrowedCurrency, EscrowedItemQty
<1>2. ASSUME NEW o \in OffersOf(p)
      PROVE  /\ EscrowedCurrency(p) = Gives(o, p).currency
             /\ EscrowedCurrency(p) \in Nat
             /\ \A i \in Items : /\ EscrowedItemQty(p, i) = Gives(o, p).items[i]
                                 /\ EscrowedItemQty(p, i) \in Nat
  <2>1. OffersOf(p) = {o}
    BY <1>2 DEF OffersOf, OneActiveOffer
  <2>2. o \in offers /\ p \in Parties(o)
    BY <1>2 DEF OffersOf
  <2>3. Gives(o, p) \in Side
    BY <2>2, SideType
  <2>4. Gives(o, p).currency \in Nat /\ \A i \in Items : Gives(o, p).items[i] \in Nat
    BY <2>3, BoundAssumption DEF Side, BoundAssumption
  <2>6. EscrowedCurrency(p) = Cardinality({o.id} \X (1..Gives(o, p).currency))
    <3>1. UNION {{x.id} \X (1..Gives(x, p).currency) : x \in {o}}
            = {o.id} \X (1..Gives(o, p).currency)
      OBVIOUS
    <3> QED
      BY <2>1, <3>1 DEF EscrowedCurrency
  <2>7. ASSUME NEW i \in Items
        PROVE  EscrowedItemQty(p, i) = Cardinality({o.id} \X (1..Gives(o, p).items[i]))
    <3>1. UNION {{x.id} \X (1..Gives(x, p).items[i]) : x \in {o}}
            = {o.id} \X (1..Gives(o, p).items[i])
      OBVIOUS
    <3> QED
      BY <2>1, <3>1 DEF EscrowedItemQty
  <2>8. EscrowedCurrency(p) = Gives(o, p).currency
    BY <2>4, <2>6, TaggedUnits
  <2>9. ASSUME NEW i \in Items
        PROVE  EscrowedItemQty(p, i) = Gives(o, p).items[i]
    <3>1. Gives(o, p).items[i] \in Nat
      BY <2>4
    <3> QED
      BY <2>7, <3>1, TaggedUnits
  <2> QED
    BY <2>4, <2>8, <2>9
<1> QED
  BY <1>1, <1>2

(* A grant never passes its cap, and below it nothing is lost.              *)
LEMMA GrantBounds ==
  ASSUME NEW cap \in Nat, NEW held \in 0..cap, NEW n \in Nat
  PROVE  /\ Granted(held, n, cap) \in 0..cap /\ Granted(held, n, cap) \in Nat
         /\ Granted(held, n, cap) >= held
         /\ held + n <= cap => Granted(held, n, cap) = held + n
BY DEF Granted

(* A swap that finds what it debits stays within the cap.                   *)
LEMMA SettledBounds ==
  ASSUME NEW cap \in Nat, NEW held \in 0..cap, NEW out \in 0..held, NEW in \in Nat
  PROVE  Settled(held, out, in, cap) \in 0..cap
<1>1. held - out \in 0..cap
  OBVIOUS
<1> QED
  BY <1>1, GrantBounds DEF Settled

(* What is not locked can be spent without touching what is.                *)
LEMMA SpendBounds ==
  ASSUME NEW cap \in Nat, NEW held \in 0..cap, NEW escrowed \in Nat, NEW n \in Nat,
         n <= Monus(held, escrowed)
  PROVE  held - n \in 0..cap /\ (escrowed <= held => escrowed <= held - n)
BY DEF Monus

(* No step leaves the tables' schema.  The spenders need OneActiveOffer: it *)
(* bounds what they subtract.                                               *)
LEMMA TypeStep ==
  ASSUME IdentityAssumption, BoundAssumption, TypeOK, OneActiveOffer, [Next]_vars
  PROVE  TypeOK'
<1> USE DEF TypeOK
<1>1. ASSUME NEW me \in Players, NEW cp \in Players, NEW give \in Side, NEW want \in Side,
             ProposeTrade(me, cp, give, want)
      PROVE  TypeOK'
  <2>1. /\ nextTradeId \in 1..MaxTrades /\ now + TradeTTL \in 0..MaxNow
        /\ (account[cp].status = "PendingDeletion") \in BOOLEAN
    BY <1>1, BoundAssumption DEF ProposeTrade, BoundAssumption
  <2>2. [id |-> nextTradeId, initiator |-> me, counterparty |-> cp, give |-> give,
         want |-> want, status |-> "Pending", createdAt |-> now,
         openedInGrace |-> account[cp].status = "PendingDeletion"] \in Offer
    BY <2>1, BoundAssumption DEF Offer, BoundAssumption
  <2>5. offers' \subseteq Offer
    BY <1>1, <2>2 DEF ProposeTrade
  <2>3. reapers' \subseteq [tradeId : 1..MaxTrades, at : 0..MaxNow]
    BY <1>1, <2>1 DEF ProposeTrade
  <2>4. nextTradeId' \in 1..MaxTrades + 1
    BY <1>1, <2>1, BoundAssumption DEF ProposeTrade, BoundAssumption
  <2> QED
    BY <1>1, <2>5, <2>3, <2>4 DEF ProposeTrade, assets
<1>2. ASSUME NEW me \in Players, NEW o \in offers, DeclineTrade(me, o) \/ CancelTrade(me, o)
      PROVE  TypeOK'
  BY <1>2 DEF DeclineTrade, CancelTrade, DeleteOffers, assets
<1>3. ASSUME NEW me \in Players, NEW o \in offers, AcceptTrade(me, o)
      PROVE  TypeOK'
  <2>0. o \in Offer
    OBVIOUS
  <2>1. [o EXCEPT !.status = "ConfirmedByCounterparty"] \in Offer
    BY <2>0 DEF Offer
  <2> QED
    BY <1>3, <2>1 DEF AcceptTrade, assets
<1>4. ASSUME NEW me \in Players, NEW o \in offers, ConfirmTrade(me, o)
      PROVE  TypeOK'
  <2>1. o \in Offer
    OBVIOUS
  <2>2. owner' \in [Monsters -> Players \cup {Unborn, Erased}]
    BY <1>4, <2>1 DEF ConfirmTrade, Offer
  <2>3. ASSUME NEW p \in Parties(o), NEW i \in Items
        PROVE  Settled(inventory[p][i], Gives(o, p).items[i], Gets(o, p).items[i],
                       MaxItemStack) \in 0..MaxItemStack
    <3>1. p \in Players
      BY <2>1 DEF Offer, Parties
    <3>2. inventory[p][i] \in 0..MaxItemStack
      BY <3>1
    <3>3. Gives(o, p).items[i] \in Nat /\ Gets(o, p).items[i] \in Nat
      BY SideType, BoundAssumption DEF Side, BoundAssumption
    <3>4. Gives(o, p).items[i] \in 0..inventory[p][i]
      BY <1>4, <3>2, <3>3 DEF ConfirmTrade
    <3> QED
      BY <3>2, <3>3, <3>4, SettledBounds, BoundAssumption DEF BoundAssumption
  <2>4. ASSUME NEW p \in Parties(o)
        PROVE  Settled(wallet[p], Gives(o, p).currency, Gets(o, p).currency,
                       MaxBalance) \in 0..MaxBalance
    <3>1. p \in Players
      BY <2>1 DEF Offer, Parties
    <3>2. wallet[p] \in 0..MaxBalance
      BY <3>1
    <3>3. Gives(o, p).currency \in Nat /\ Gets(o, p).currency \in Nat
      BY SideType, BoundAssumption DEF Side, BoundAssumption
    <3>4. Gives(o, p).currency \in 0..wallet[p]
      BY <1>4, <3>2, <3>3 DEF ConfirmTrade
    <3> QED
      BY <3>2, <3>3, <3>4, SettledBounds, BoundAssumption DEF BoundAssumption
  <2>5. inventory' \in [Players -> [Items -> 0..MaxItemStack]]
    BY <1>4, <2>3 DEF ConfirmTrade
  <2>6. wallet' \in [Players -> 0..MaxBalance]
    BY <1>4, <2>4 DEF ConfirmTrade
  <2> QED
    BY <1>4, <2>2, <2>5, <2>6 DEF ConfirmTrade, DeleteOffers
<1>5. ASSUME NEW r \in reapers, TradeOfferReaper(r)
      PROVE  TypeOK'
  BY <1>5 DEF TradeOfferReaper, assets
<1>6. CASE Battles
  <2>1. ASSUME NEW p \in Players, NEW party \in SUBSET Monsters, StartWildTactical(p, party)
        PROVE  TypeOK'
    BY <2>1 DEF StartWildTactical, Battle, assets, trading
  <2>2. ASSUME NEW p \in Players, NEW q \in Players, NEW party \in SUBSET Monsters,
               NEW opponentParty \in SUBSET Monsters,
               StartPvpTactical(p, q, party, opponentParty)
        PROVE  TypeOK'
    BY <2>2 DEF StartPvpTactical, Battle, assets, trading
  <2>3. ASSUME NEW b \in battles, NEW i \in Items, TakeBait(b, i)
        PROVE  TypeOK'
    <3>1. b.player \in Players /\ inventory[b.player][i] \in 0..MaxItemStack
      BY DEF Battle
    <3>2. EscrowedItemQty(b.player, i) \in Nat
      BY <3>1, EscrowAmounts
    <3>3. inventory[b.player][i] - 1 \in 0..MaxItemStack
      BY <2>3, <3>1, <3>2, BoundAssumption
         DEF TakeBait, AvailableItem, Monus, BoundAssumption
    <3> QED
      BY <2>3, <3>1, <3>3 DEF TakeBait, ConsumeItem, trading
  <2>4. ASSUME NEW b \in battles, NEW m \in Monsters, Recruit(b, m)
        PROVE  TypeOK'
    BY <2>4 DEF Recruit, Battle, trading
  <2>5. ASSUME NEW b \in battles, NEW pay \in 0..MaxReward, Finish(b, pay)
        PROVE  TypeOK'
    <3>1. b.player \in Players /\ wallet[b.player] \in 0..MaxBalance
      BY DEF Battle
    <3>2. Granted(wallet[b.player], pay, MaxBalance) \in 0..MaxBalance
      <4>1. pay \in Nat /\ MaxBalance \in Nat
        BY BoundAssumption DEF BoundAssumption
      <4> QED
        BY <3>1, <4>1, GrantBounds
    <3> QED
      BY <2>5, <3>1, <3>2 DEF Finish, GrantCurrency, trading
  <2> QED
    BY <1>6, <2>1, <2>2, <2>3, <2>4, <2>5 DEF Battles
<1>7. CASE Economy
  <2>1. ASSUME NEW p \in Players, NEW i \in Items, NEW qty \in 1..MaxReward, Buy(p, i, qty)
        PROVE  TypeOK'
    <3>1. wallet[p] \in 0..MaxBalance /\ inventory[p][i] \in 0..MaxItemStack
      OBVIOUS
    <3>2. BuyPrice * qty \in Nat
      BY BoundAssumption DEF BoundAssumption
    <3>3. wallet[p] - BuyPrice * qty \in 0..MaxBalance
      <4>1. BuyPrice * qty <= Monus(wallet[p], EscrowedCurrency(p))
        BY <2>1 DEF Buy, AvailableCurrency
      <4> HIDE DEF TypeOK
      <4>2. EscrowedCurrency(p) \in Nat
        BY EscrowAmounts
      <4> QED
        BY <3>1, <3>2, <4>1, <4>2, SpendBounds, BoundAssumption DEF BoundAssumption
    <3>4. Granted(inventory[p][i], qty, MaxItemStack) \in 0..MaxItemStack
      <4>1. qty \in Nat /\ MaxItemStack \in Nat
        BY BoundAssumption DEF BoundAssumption
      <4> QED
        BY <3>1, <4>1, GrantBounds
    <3> QED
      BY <2>1, <3>3, <3>4 DEF Buy, SpendCurrency, GrantItem, trading
  <2>2. ASSUME NEW p \in Players, NEW i \in Items, NEW qty \in 1..MaxReward, Sell(p, i, qty)
        PROVE  TypeOK'
    <3>1. wallet[p] \in 0..MaxBalance /\ inventory[p][i] \in 0..MaxItemStack
      OBVIOUS
    <3>2. SellPrice * qty \in Nat
      BY BoundAssumption DEF BoundAssumption
    <3>3. inventory[p][i] - qty \in 0..MaxItemStack
      BY <2>2, <3>1, EscrowAmounts, BoundAssumption
         DEF Sell, AvailableItem, Monus, BoundAssumption
    <3>4. Granted(wallet[p], SellPrice * qty, MaxBalance) \in 0..MaxBalance
      BY <3>1, <3>2, GrantBounds, BoundAssumption DEF BoundAssumption
    <3> QED
      BY <2>2, <3>3, <3>4 DEF Sell, ConsumeItem, GrantCurrency, trading
  <2>3. ASSUME NEW p \in Players, HealParty(p)
        PROVE  TypeOK'
    <3>1. wallet[p] - HealCost \in 0..MaxBalance
      BY <2>3, EscrowAmounts, BoundAssumption
         DEF HealParty, AvailableCurrency, Monus, BoundAssumption
    <3> QED
      BY <2>3, <3>1 DEF HealParty, SpendCurrency, trading
  <2>4. ASSUME NEW p \in Players, NEW m \in Monsters, NEW i \in Items, Train(p, m, i)
        PROVE  TypeOK'
    <3>1. EscrowedItemQty(p, i) \in Nat /\ inventory[p][i] \in 0..MaxItemStack
      BY EscrowAmounts
    <3>2. inventory[p][i] - 1 \in 0..MaxItemStack
      BY <2>4, <3>1, BoundAssumption DEF Train, BoundAssumption
    <3> QED
      BY <2>4, <3>2 DEF Train, ConsumeItem, trading
  <2>5. ASSUME NEW p \in Players, NEW i \in Items, NEW qty \in 0..MaxReward,
               NEW coins \in 0..MaxReward, AdvanceDialogue(p, i, qty, coins)
        PROVE  TypeOK'
    <3>1. wallet[p] \in 0..MaxBalance /\ inventory[p][i] \in 0..MaxItemStack
      OBVIOUS
    <3>2. /\ Granted(inventory[p][i], qty, MaxItemStack) \in 0..MaxItemStack
          /\ Granted(wallet[p], coins, MaxBalance) \in 0..MaxBalance
      <4>1. qty \in Nat /\ coins \in Nat /\ MaxItemStack \in Nat /\ MaxBalance \in Nat
        BY BoundAssumption DEF BoundAssumption
      <4> QED
        BY <3>1, <4>1, GrantBounds
    <3> QED
      BY <2>5, <3>2 DEF AdvanceDialogue, GrantItem, GrantCurrency, trading
  <2> QED
    BY <1>7, <2>1, <2>2, <2>3, <2>4, <2>5 DEF Economy
<1>8. CASE Identities
  <2>1. ASSUME NEW p \in Players, JoinGame(p)
        PROVE  TypeOK'
    BY <2>1 DEF JoinGame, trading
  <2>2. ASSUME NEW p \in Players, NEW pay \in 0..MaxReward, OnDisconnect(p, pay)
        PROVE  TypeOK'
    <3>1. Granted(wallet[p], pay, MaxBalance) \in 0..MaxBalance
      <4>1. pay \in Nat /\ MaxBalance \in Nat /\ wallet[p] \in 0..MaxBalance
        BY BoundAssumption DEF BoundAssumption
      <4> QED
        BY <4>1, GrantBounds
    <3> QED
      BY <2>2, <3>1
         DEF OnDisconnect, ResolveAllLiveInteractions, DeleteOffers, GrantCurrency
  <2>3. ASSUME NEW p \in Players,
               ProvisionAccount(p) \/ DeleteAccount(p) \/ CancelAccountDeletion(p)
        PROVE  TypeOK'
    <3>1. 0 \in 0..MaxNow
      BY BoundAssumption DEF BoundAssumption
    <3>2. CASE ProvisionAccount(p)
      BY <3>1, <3>2 DEF ProvisionAccount, assets, trading
    <3>3. CASE DeleteAccount(p)
      BY <3>3 DEF DeleteAccount, assets, trading
    <3>4. CASE CancelAccountDeletion(p)
      BY <3>1, <3>4 DEF CancelAccountDeletion, DeleteOffers, assets
    <3> QED
      BY <2>3, <3>2, <3>3, <3>4
  <2>4. ASSUME NEW p \in Players, AccountDeletionReaper(p)
        PROVE  TypeOK'
    <3>1. account' \in [Players -> [status : {"None", "Active", "PendingDeletion", "Terminal"},
                                    requestedAt : 0..MaxNow, claimed : BOOLEAN]]
      BY <2>4 DEF AccountDeletionReaper
    <3>2. /\ 0 \in 0..MaxItemStack /\ 0 \in 0..MaxBalance
          /\ wallet' = [wallet EXCEPT ![p] = 0]
          /\ inventory' = [inventory EXCEPT ![p] = [i \in Items |-> 0]]
      BY <2>4, BoundAssumption DEF AccountDeletionReaper, BoundAssumption
    <3>3. wallet' \in [Players -> 0..MaxBalance] /\ inventory' \in [Players -> [Items -> 0..MaxItemStack]]
      BY <3>2
    <3>4. owner' \in [Monsters -> Players \cup {Unborn, Erased}]
      BY <2>4 DEF AccountDeletionReaper
    <3> QED
      BY <2>4, <3>1, <3>3, <3>4
         DEF AccountDeletionReaper, ResolveAllLiveInteractions, DeleteOffers
  <2>5. ASSUME NEW p \in Players, NEW guest \in Players, CompleteGuestClaim(p, guest)
        PROVE  TypeOK'
    <3>1. account' \in [Players -> [status : {"None", "Active", "PendingDeletion", "Terminal"},
                                    requestedAt : 0..MaxNow, claimed : BOOLEAN]]
      BY <2>5 DEF CompleteGuestClaim
    <3>2. /\ 0 \in 0..MaxItemStack /\ 0 \in 0..MaxBalance
          /\ wallet' = [wallet EXCEPT ![p] = wallet[guest], ![guest] = 0]
          /\ inventory' = [inventory EXCEPT ![p] = inventory[guest],
                                            ![guest] = [i \in Items |-> 0]]
      BY <2>5, BoundAssumption DEF CompleteGuestClaim, Rekeyed, BoundAssumption
    <3>3. wallet' \in [Players -> 0..MaxBalance] /\ inventory' \in [Players -> [Items -> 0..MaxItemStack]]
      BY <3>2
    <3>4. owner' \in [Monsters -> Players \cup {Unborn, Erased}]
      BY <2>5 DEF CompleteGuestClaim
    <3> QED
      BY <2>5, <3>1, <3>3, <3>4 DEF CompleteGuestClaim, trading
  <2> QED
    BY <1>8, <2>1, <2>2, <2>3, <2>4, <2>5 DEF Identities
<1>9. CASE Tick
  BY <1>9, BoundAssumption DEF Tick, assets, trading, BoundAssumption
<1>10. CASE UNCHANGED vars
  BY <1>10 DEF vars, assets, trading
<1> QED
  BY <1>1, <1>2, <1>3, <1>4, <1>5, <1>6, <1>7, <1>8, <1>9, <1>10 DEF Next, Trades

-----------------------------------------------------------------------------
(* The offer table and its schedule.                                        *)

OffersInv ==
  /\ OneActiveOffer
  /\ \A o \in offers : /\ o.initiator # o.counterparty
                       /\ o.id < nextTradeId
                       /\ o.give.monsters \cap o.want.monsters = {}
  /\ ReapersMatchOffers

(* The row the scheduler fires is that of a stale offer: the reducer's      *)
(* second look never spares one.                                            *)
LEMMA ReaperDeletesItsOffer ==
  ASSUME BoundAssumption, TypeOK, OffersInv, NEW r \in reapers, TradeOfferReaper(r)
  PROVE  \E o \in offers : DeleteOffers({o})
<1>1. PICK o \in offers : r = [tradeId |-> o.id, at |-> o.createdAt + TradeTTL]
  BY DEF OffersInv, ReapersMatchOffers
<1>2. offers' = offers \ {o}
  BY <1>1 DEF TradeOfferReaper, IsOfferStale, OffersInv, OneActiveOffer
<1>3. reapers' = {x \in reapers : o.id # x.tradeId}
  <2>1. ASSUME NEW x \in reapers, x.tradeId = o.id
        PROVE  x = r
    <3>1. PICK y \in offers : x = [tradeId |-> y.id, at |-> y.createdAt + TradeTTL]
      BY DEF OffersInv, ReapersMatchOffers
    <3>2. y = o
      BY <2>1, <3>1 DEF OffersInv, OneActiveOffer
    <3> QED
      BY <3>1, <3>2, <1>1
  <2> QED
    BY <1>1, <2>1 DEF TradeOfferReaper
<1> QED
  BY <1>2, <1>3 DEF TradeOfferReaper, DeleteOffers

(* The four ways a step can treat the offers.                               *)
LEMMA OffersChange ==
  ASSUME BoundAssumption, TypeOK, OffersInv, [Next]_vars
  PROVE  \/ \E me, cp \in Players, give, want \in Side : ProposeTrade(me, cp, give, want)
         \/ \E me \in Players, o \in offers : AcceptTrade(me, o)
         \/ \E gone \in SUBSET offers : DeleteOffers(gone)
         \/ UNCHANGED trading
<1>1. CASE Trades
  <2>1. ASSUME NEW me \in Players, NEW o \in offers,
               DeclineTrade(me, o) \/ ConfirmTrade(me, o) \/ CancelTrade(me, o)
        PROVE  DeleteOffers({o})
    BY <2>1 DEF DeclineTrade, ConfirmTrade, CancelTrade
  <2> QED
    BY <1>1, <2>1, ReaperDeletesItsOffer DEF Trades
<1>2. CASE Battles
  BY <1>2 DEF Battles, StartWildTactical, StartPvpTactical, TakeBait, Recruit, Finish
<1>3. CASE Economy
  BY <1>3 DEF Economy, Buy, Sell, HealParty, Train, AdvanceDialogue
<1>4. CASE Identities
  <2>1. \A p : OffersOf(p) \in SUBSET offers
    BY DEF OffersOf
  <2> QED
    BY <1>4, <2>1 DEF Identities, JoinGame, OnDisconnect, ProvisionAccount, DeleteAccount,
       CompleteGuestClaim, CancelAccountDeletion, AccountDeletionReaper, ResolveAllLiveInteractions
<1>5. CASE Tick \/ UNCHANGED vars
  BY <1>5 DEF Tick, vars
<1> QED
  BY <1>1, <1>2, <1>3, <1>4, <1>5 DEF Next

LEMMA OffersStep ==
  ASSUME BoundAssumption, TypeOK, OffersInv, [Next]_vars
  PROVE  OffersInv'
<1>1. ASSUME NEW me \in Players, NEW cp \in Players, NEW give \in Side, NEW want \in Side,
             ProposeTrade(me, cp, give, want)
      PROVE  OffersInv'
  <2> DEFINE new == [id |-> nextTradeId, initiator |-> me, counterparty |-> cp,
                     give |-> give, want |-> want, status |-> "Pending",
                     createdAt |-> now,
                     openedInGrace |-> account[cp].status = "PendingDeletion"]
  <2>1. /\ offers' = offers \cup {new}
        /\ reapers' = reapers \cup {[tradeId |-> nextTradeId, at |-> now + TradeTTL]}
        /\ nextTradeId' = nextTradeId + 1 /\ nextTradeId \in Nat
    BY <1>1, BoundAssumption DEF ProposeTrade, TypeOK, BoundAssumption
  <2>2. \A o \in offers : Parties(o) \cap Parties(new) = {} /\ o.id # new.id
    <3>1. \A o \in offers : o.id < nextTradeId
      BY DEF OffersInv
    <3>2. \A o \in offers : me \notin Parties(o) /\ cp \notin Parties(o)
      BY <1>1 DEF ProposeTrade, HasActiveTrade, OffersOf
    <3>3. \A o \in offers : o.id \in Nat
      BY BoundAssumption DEF TypeOK, Offer, BoundAssumption
    <3> QED
      BY <2>1, <3>1, <3>2, <3>3 DEF Parties
  <2>3. OneActiveOffer'
    BY <2>1, <2>2 DEF OffersInv, OneActiveOffer, Parties
  <2>4. \A o \in offers' : /\ o.initiator # o.counterparty
                           /\ o.id < nextTradeId'
                           /\ o.give.monsters \cap o.want.monsters = {}
    <3>1. \A o \in offers : o.id \in Nat /\ o.id < nextTradeId
      BY BoundAssumption DEF TypeOK, Offer, OffersInv, BoundAssumption
    <3>2. new.initiator # new.counterparty /\ new.give.monsters \cap new.want.monsters = {}
      BY <1>1 DEF ProposeTrade
    <3> QED
      BY <2>1, <3>1, <3>2 DEF OffersInv
  <2>5. ReapersMatchOffers'
    <3>1. reapers = {[tradeId |-> o.id, at |-> o.createdAt + TradeTTL] : o \in offers}
      BY DEF OffersInv, ReapersMatchOffers
    <3>2. new.id = nextTradeId /\ new.createdAt = now
      OBVIOUS
    <3> HIDE DEF new
    <3> QED
      BY <2>1, <3>1, <3>2 DEF ReapersMatchOffers
  <2> QED
    BY <2>3, <2>4, <2>5 DEF OffersInv
<1>2. ASSUME NEW me \in Players, NEW o \in offers, AcceptTrade(me, o)
      PROVE  OffersInv'
  <2> DEFINE new == [o EXCEPT !.status = "ConfirmedByCounterparty"]
  <2>1. o \in Offer
    BY DEF TypeOK
  <2>2. /\ new.id = o.id /\ new.initiator = o.initiator /\ new.counterparty = o.counterparty
        /\ new.give = o.give /\ new.want = o.want /\ new.createdAt = o.createdAt
    BY <2>1 DEF Offer
  <2>3. /\ offers' = (offers \ {o}) \cup {new}
        /\ reapers' = reapers /\ nextTradeId' = nextTradeId
    BY <1>2 DEF AcceptTrade
  <2> HIDE DEF new
  <2>4. OneActiveOffer'
    BY <2>2, <2>3 DEF OffersInv, OneActiveOffer, Parties
  <2>5. ReapersMatchOffers'
    BY <2>2, <2>3 DEF OffersInv, ReapersMatchOffers
  <2> QED
    BY <2>2, <2>3, <2>4, <2>5 DEF OffersInv
<1>3. ASSUME NEW gone \in SUBSET offers, DeleteOffers(gone)
      PROVE  OffersInv'
  <2>1. offers' \subseteq offers /\ nextTradeId' = nextTradeId
    BY <1>3 DEF DeleteOffers
  <2>2. ReapersMatchOffers'
    <3>1. reapers = {[tradeId |-> o.id, at |-> o.createdAt + TradeTTL] : o \in offers}
      BY DEF OffersInv, ReapersMatchOffers
    <3>2. \A o1, o2 \in offers : o1.id = o2.id => o1 = o2
      BY DEF OffersInv, OneActiveOffer
    <3> QED
      BY <1>3, <3>1, <3>2 DEF DeleteOffers, ReapersMatchOffers
  <2>3. OneActiveOffer'
    BY <2>1 DEF OffersInv, OneActiveOffer, Parties
  <2> QED
    BY <2>1, <2>2, <2>3 DEF OffersInv
<1>4. CASE UNCHANGED trading
  BY <1>4 DEF trading, OffersInv, OneActiveOffer, ReapersMatchOffers, Parties
<1> QED
  BY <1>1, <1>2, <1>3, <1>4, OffersChange

-----------------------------------------------------------------------------
(* Both parties of an offer are present.                                    *)

LEMMA JoinedStep ==
  ASSUME OffersBetweenJoined, TypeOK, [Next]_vars
  PROVE  OffersBetweenJoined'
<1>1. ASSUME offers' \subseteq offers, player \subseteq player'
      PROVE  OffersBetweenJoined'
  BY <1>1 DEF OffersBetweenJoined, Parties
<1>2. CASE Trades
  <2>1. ASSUME NEW me \in Players, NEW cp \in Players, NEW give \in Side, NEW want \in Side,
               ProposeTrade(me, cp, give, want)
        PROVE  OffersBetweenJoined'
    BY <2>1 DEF ProposeTrade, OffersBetweenJoined, Parties
  <2>2. ASSUME NEW me \in Players, NEW o \in offers, AcceptTrade(me, o)
        PROVE  OffersBetweenJoined'
    <3> DEFINE new == [o EXCEPT !.status = "ConfirmedByCounterparty"]
    <3>1. o \in Offer
      BY DEF TypeOK
    <3>2. new.initiator = o.initiator /\ new.counterparty = o.counterparty
      BY <3>1 DEF Offer
    <3>3. offers' = (offers \ {o}) \cup {new} /\ player' = player
      BY <2>2 DEF AcceptTrade
    <3> HIDE DEF new
    <3> QED
      BY <3>2, <3>3 DEF OffersBetweenJoined, Parties
  <2> QED
    BY <1>1, <1>2, <2>1, <2>2 DEF Trades, DeclineTrade, ConfirmTrade, CancelTrade,
       TradeOfferReaper, DeleteOffers
<1>3. CASE Battles
  BY <1>1, <1>3 DEF Battles, StartWildTactical, StartPvpTactical, TakeBait, Recruit, Finish,
     trading
<1>4. CASE Economy
  BY <1>1, <1>4 DEF Economy, Buy, Sell, HealParty, Train, AdvanceDialogue, trading
<1>5. CASE Identities
  <2>1. ASSUME NEW p \in Players, NEW pay \in 0..MaxReward, OnDisconnect(p, pay)
        PROVE  OffersBetweenJoined'
    BY <2>1 DEF OnDisconnect, ResolveAllLiveInteractions, DeleteOffers, OffersOf,
       OffersBetweenJoined, Parties
  <2> QED
    BY <1>1, <1>5, <2>1 DEF Identities, JoinGame, ProvisionAccount, DeleteAccount,
       CompleteGuestClaim, CancelAccountDeletion, AccountDeletionReaper, ResolveAllLiveInteractions, DeleteOffers,
       trading
<1>6. CASE Tick \/ UNCHANGED vars
  BY <1>1, <1>6 DEF Tick, vars, trading
<1> QED
  BY <1>2, <1>3, <1>4, <1>5, <1>6 DEF Next

-----------------------------------------------------------------------------
(* What is promised is held.                                                *)

Keeps(o, p) ==
  /\ Gives(o, p).currency <= wallet[p]
  /\ \A i \in Items : Gives(o, p).items[i] <= inventory[p][i]
  /\ \A m \in Gives(o, p).monsters : owner[m] = p

Promised == \A o \in offers : \A p \in Parties(o) : Keeps(o, p)

LEMMA PartyOfOffer ==
  ASSUME TypeOK, BoundAssumption, NEW o \in offers, NEW p \in Parties(o)
  PROVE  /\ p \in Players /\ o \in OffersOf(p)
         /\ Gives(o, p).currency \in Nat /\ wallet[p] \in 0..MaxBalance
         /\ Gives(o, p).monsters \subseteq Monsters
         /\ \A i \in Items : Gives(o, p).items[i] \in Nat /\ inventory[p][i] \in 0..MaxItemStack
<1>1. p \in Players /\ o \in OffersOf(p)
  BY DEF TypeOK, Offer, Parties, OffersOf
<1>2. Gives(o, p) \in Side
  BY SideType
<1> QED
  BY <1>1, <1>2, BoundAssumption DEF TypeOK, Side, BoundAssumption

(* A step that only adds to what p has, and takes none of its monsters,     *)
(* keeps p's promises; one that leaves p alone does.                        *)
LEMMA KeepsMore ==
  ASSUME TypeOK, BoundAssumption, NEW o \in offers, NEW p \in Parties(o), Keeps(o, p),
         wallet'[p] \in Nat, wallet'[p] >= wallet[p],
         \A i \in Items : inventory'[p][i] \in Nat /\ inventory'[p][i] >= inventory[p][i],
         \A m \in Monsters : owner[m] = p => owner'[m] = p
  PROVE  Keeps(o, p)'
<1>1. /\ Gives(o, p).currency \in Nat /\ wallet[p] \in Nat
      /\ \A i \in Items : Gives(o, p).items[i] \in Nat /\ inventory[p][i] \in Nat
      /\ Gives(o, p).monsters \subseteq Monsters
  BY PartyOfOffer, BoundAssumption DEF BoundAssumption
<1> QED
  BY <1>1 DEF Keeps, Gives

(* What an offer locks bounds what p may spend.                             *)
LEMMA LockedAmounts ==
  ASSUME TypeOK, BoundAssumption, OneActiveOffer, NEW o \in offers, NEW p \in Parties(o)
  PROVE  /\ EscrowedCurrency(p) = Gives(o, p).currency
         /\ \A i \in Items : EscrowedItemQty(p, i) = Gives(o, p).items[i]
BY PartyOfOffer, EscrowAmounts

LEMMA ProposeKeepsPromises ==
  ASSUME BoundAssumption, TypeOK, OffersInv, Promised,
         NEW me \in Players, NEW cp \in Players, NEW give \in Side, NEW want \in Side,
         ProposeTrade(me, cp, give, want)
  PROVE  Promised'
<1> DEFINE new == [id |-> nextTradeId, initiator |-> me, counterparty |-> cp,
                   give |-> give, want |-> want, status |-> "Pending",
                   createdAt |-> now,
                   openedInGrace |-> account[cp].status = "PendingDeletion"]
<1>1. offers' = offers \cup {new} /\ UNCHANGED assets
  BY DEF ProposeTrade
<1>2. ASSUME NEW p \in Players, NEW side \in Side, OffersOf(p) = {}, CanOffer(p, side)
      PROVE  /\ side.currency <= wallet[p]
             /\ \A i \in Items : side.items[i] <= inventory[p][i]
             /\ \A m \in side.monsters : owner[m] = p
  <2>1. EscrowedCurrency(p) = 0 /\ \A i \in Items : EscrowedItemQty(p, i) = 0
    BY <1>2, EscrowAmounts DEF OffersInv
  <2>2. wallet[p] \in Nat /\ \A i \in Items : inventory[p][i] \in Nat
    BY BoundAssumption DEF TypeOK, BoundAssumption
  <2> QED
    BY <1>2, <2>1, <2>2 DEF CanOffer, AvailableCurrency, AvailableItem, Monus
<1>3. OffersOf(me) = {} /\ OffersOf(cp) = {} /\ me # cp /\ CanOffer(me, give) /\ CanOffer(cp, want)
  BY DEF ProposeTrade, HasActiveTrade
<1>4. \A p \in Parties(new) : Keeps(new, p)
  BY <1>2, <1>3 DEF Parties, Gives, Keeps
<1> HIDE DEF new
<1> QED
  BY <1>1, <1>4 DEF Promised, Keeps, Parties, Gives, assets

LEMMA AcceptKeepsPromises ==
  ASSUME TypeOK, Promised, NEW me \in Players, NEW o \in offers, AcceptTrade(me, o)
  PROVE  Promised'
<1> DEFINE new == [o EXCEPT !.status = "ConfirmedByCounterparty"]
<1>1. /\ new.initiator = o.initiator /\ new.counterparty = o.counterparty
      /\ new.give = o.give /\ new.want = o.want
  BY DEF TypeOK, Offer
<1>2. offers' = (offers \ {o}) \cup {new} /\ UNCHANGED assets
  BY DEF AcceptTrade
<1> HIDE DEF new
<1> QED
  BY <1>1, <1>2 DEF Promised, Keeps, Parties, Gives, assets

(* A swap moves only what its own two sides promised, and their promises    *)
(* end with it.                                                             *)
LEMMA ConfirmKeepsPromises ==
  ASSUME TypeOK, OffersInv, Promised, NEW me \in Players, NEW o \in offers,
         ConfirmTrade(me, o)
  PROVE  Promised'
<1>1. offers' = offers \ {o}
  BY DEF ConfirmTrade, DeleteOffers
<1> SUFFICES ASSUME NEW x \in offers \ {o}, NEW p \in Parties(x)
             PROVE  Keeps(x, p)'
  BY <1>1 DEF Promised, Parties
<1>2. p \in Players /\ p \notin Parties(o)
  BY DEF TypeOK, Offer, OffersInv, OneActiveOffer, Parties
<1>3. wallet'[p] = wallet[p] /\ \A i \in Items : inventory'[p][i] = inventory[p][i]
  BY <1>2 DEF ConfirmTrade
<1>4. ASSUME NEW m \in Gives(x, p).monsters
      PROVE  owner'[m] = p
  <2>1. owner[m] = p /\ m \in Monsters
    BY DEF Promised, Keeps, TypeOK, Offer, Side, Gives
  <2>2. m \notin o.give.monsters /\ m \notin o.want.monsters
    <3>1. \A y \in o.give.monsters : owner[y] = o.initiator
      BY DEF Promised, Keeps, Parties, Gives
    <3>2. \A y \in o.want.monsters : owner[y] = o.counterparty
      BY DEF Promised, Keeps, Parties, Gives, OffersInv
    <3> QED
      BY <2>1, <3>1, <3>2, <1>2 DEF Parties
  <2> QED
    BY <2>1, <2>2 DEF ConfirmTrade
<1> QED
  BY <1>3, <1>4 DEF Promised, Keeps, Gives

(* Steps of the other tables: the offers that remain were there before, and *)
(* what their parties promised is still theirs.                             *)
LEMMA BattlesKeepPromises ==
  ASSUME IdentityAssumption, BoundAssumption, TypeOK, OffersInv, Promised, Battles
  PROVE  Promised'
<1>1. UNCHANGED trading
  BY DEF Battles, StartWildTactical, StartPvpTactical, TakeBait, Recruit, Finish
<1> SUFFICES ASSUME NEW o \in offers, NEW p \in Parties(o)
             PROVE  Keeps(o, p)'
  BY <1>1 DEF trading, Promised, Parties
<1> USE DEF OffersInv
<1>2. Keeps(o, p)
  BY DEF Promised
<1>3. /\ p \in Players /\ wallet[p] \in 0..MaxBalance /\ wallet[p] \in Nat
      /\ \A i \in Items : inventory[p][i] \in Nat /\ Gives(o, p).items[i] \in Nat
      /\ Gives(o, p).monsters \subseteq Monsters
  BY PartyOfOffer, BoundAssumption DEF BoundAssumption
<1>4. ASSUME UNCHANGED assets
      PROVE  Keeps(o, p)'
  BY <1>2, <1>4 DEF assets, Keeps, Gives
<1>5. ASSUME NEW b \in battles, NEW i \in Items, TakeBait(b, i)
      PROVE  Keeps(o, p)'
  <2>1. b.player = p => Gives(o, p).items[i] <= inventory[p][i] - 1
    BY <1>5, <1>3, LockedAmounts DEF TakeBait, AvailableItem, Monus
  <2>2. inventory' = [inventory EXCEPT ![b.player][i] = @ - 1] /\ UNCHANGED <<owner, wallet>>
    BY <1>5 DEF TakeBait, ConsumeItem
  <2>3. inventory[p] \in [Items -> 0..MaxItemStack] /\ inventory \in [Players -> [Items -> 0..MaxItemStack]]
    BY <1>3 DEF TypeOK
  <2>4. ASSUME NEW j \in Items
        PROVE  Gives(o, p).items[j] <= inventory'[p][j]
    BY <2>1, <2>2, <2>3, <1>2, <1>3 DEF Keeps
  <2> QED
    BY <2>2, <2>4, <1>2 DEF Keeps, Gives
<1>6. ASSUME NEW b \in battles, NEW m \in Monsters, Recruit(b, m)
      PROVE  Keeps(o, p)'
  <2>1. owner' = [owner EXCEPT ![m] = b.player] /\ owner[m] = Unborn
        /\ UNCHANGED <<inventory, wallet>>
    BY <1>6 DEF Recruit
  <2>2. \A n \in Monsters : owner[n] = p => owner'[n] = p
    BY <2>1, <1>3, IdentityAssumption DEF TypeOK, IdentityAssumption
  <2> QED
    BY <2>1, <2>2, <1>2, <1>3 DEF Keeps, Gives
<1>7. ASSUME NEW b \in battles, NEW pay \in 0..MaxReward, Finish(b, pay)
      PROVE  Keeps(o, p)'
  <2>1. wallet' = [wallet EXCEPT ![b.player] = Granted(@, pay, MaxBalance)]
        /\ UNCHANGED <<owner, inventory>>
    BY <1>7 DEF Finish, GrantCurrency
  <2>2. Granted(wallet[p], pay, MaxBalance) >= wallet[p]
        /\ Granted(wallet[p], pay, MaxBalance) \in Nat
    <3>1. pay \in Nat /\ MaxBalance \in Nat
      BY BoundAssumption DEF BoundAssumption
    <3> QED
      BY <1>3, <3>1, GrantBounds
  <2>3. wallet'[p] \in Nat /\ wallet'[p] >= wallet[p]
    BY <2>1, <2>2, <1>3 DEF TypeOK
  <2> QED
    BY <2>1, <2>3, <1>2, <1>3, KeepsMore
<1> QED
  BY <1>4, <1>5, <1>6, <1>7 DEF Battles, StartWildTactical, StartPvpTactical

LEMMA EconomyKeepsPromises ==
  ASSUME BoundAssumption, TypeOK, OffersInv, Promised, Economy
  PROVE  Promised'
<1>1. UNCHANGED trading /\ UNCHANGED owner
  BY DEF Economy, Buy, Sell, HealParty, Train, AdvanceDialogue
<1> SUFFICES ASSUME NEW o \in offers, NEW p \in Parties(o)
             PROVE  Keeps(o, p)'
  BY <1>1 DEF trading, Promised, Parties
<1> USE DEF OffersInv
<1>2. Keeps(o, p)
  BY DEF Promised
<1>3. /\ p \in Players /\ wallet[p] \in 0..MaxBalance
      /\ \A i \in Items : inventory[p][i] \in 0..MaxItemStack /\ Gives(o, p).items[i] \in Nat
      /\ Gives(o, p).currency \in Nat
      /\ MaxBalance \in Nat /\ MaxItemStack \in Nat
  BY PartyOfOffer, BoundAssumption DEF BoundAssumption
<1>4. /\ EscrowedCurrency(p) = Gives(o, p).currency
      /\ \A i \in Items : EscrowedItemQty(p, i) = Gives(o, p).items[i]
  BY LockedAmounts
<1>5. wallet \in [Players -> 0..MaxBalance] /\ inventory \in [Players -> [Items -> 0..MaxItemStack]]
  BY DEF TypeOK
(* The debits of the shops, the healer and the trainer are bounded by what  *)
(* is free, the credits only add.                                           *)
<1>6. ASSUME NEW n \in Nat, n <= AvailableCurrency(p)
      PROVE  Gives(o, p).currency <= wallet[p] - n
  BY <1>6, <1>2, <1>3, <1>4, SpendBounds DEF AvailableCurrency, Keeps
<1>7. ASSUME NEW i \in Items, NEW n \in Nat, n <= AvailableItem(p, i)
      PROVE  Gives(o, p).items[i] <= inventory[p][i] - n
  BY <1>7, <1>2, <1>3, <1>4, SpendBounds DEF AvailableItem, Keeps
<1>8. ASSUME NEW n \in Nat
      PROVE  Gives(o, p).currency <= Granted(wallet[p], n, MaxBalance)
  <2>1. Granted(wallet[p], n, MaxBalance) >= wallet[p] /\ Granted(wallet[p], n, MaxBalance) \in Nat
    BY <1>3, GrantBounds
  <2> QED
    BY <2>1, <1>2, <1>3 DEF Keeps
<1>9. ASSUME NEW i \in Items, NEW n \in Nat
      PROVE  Gives(o, p).items[i] <= Granted(inventory[p][i], n, MaxItemStack)
  <2>1. Granted(inventory[p][i], n, MaxItemStack) >= inventory[p][i]
        /\ Granted(inventory[p][i], n, MaxItemStack) \in Nat
    BY <1>3, GrantBounds
  <2> QED
    BY <2>1, <1>2, <1>3 DEF Keeps
<1>10. ASSUME Gives(o, p).currency <= wallet'[p],
              \A j \in Items : Gives(o, p).items[j] <= inventory'[p][j]
       PROVE  Keeps(o, p)'
  BY <1>1, <1>2, <1>10 DEF Keeps, Gives
<1>11. ASSUME NEW x \in Players, NEW i \in Items, NEW qty \in 1..MaxReward, Buy(x, i, qty)
       PROVE  Keeps(o, p)'
  <2> DEFINE total == BuyPrice * qty
  <2>1. total \in Nat /\ qty \in Nat
    BY BoundAssumption DEF BoundAssumption
  <2>2. /\ total <= AvailableCurrency(x)
        /\ wallet' = [wallet EXCEPT ![x] = @ - total]
        /\ inventory' = [inventory EXCEPT ![x][i] = Granted(@, qty, MaxItemStack)]
    BY <1>11 DEF Buy, SpendCurrency, GrantItem
  <2> HIDE DEF total
  <2>3. Gives(o, p).currency <= wallet'[p]
    BY <2>1, <2>2, <1>2, <1>3, <1>5, <1>6 DEF Keeps
  <2>4. \A j \in Items : Gives(o, p).items[j] <= inventory'[p][j]
    BY <2>1, <2>2, <1>2, <1>3, <1>5, <1>9 DEF Keeps
  <2> QED
    BY <2>3, <2>4, <1>10
<1>12. ASSUME NEW x \in Players, NEW i \in Items, NEW qty \in 1..MaxReward, Sell(x, i, qty)
       PROVE  Keeps(o, p)'
  <2> DEFINE total == SellPrice * qty
  <2>1. total \in Nat /\ qty \in Nat
    BY BoundAssumption DEF BoundAssumption
  <2>2. /\ qty <= AvailableItem(x, i)
        /\ inventory' = [inventory EXCEPT ![x][i] = @ - qty]
        /\ wallet' = [wallet EXCEPT ![x] = Granted(@, total, MaxBalance)]
    BY <1>12 DEF Sell, ConsumeItem, GrantCurrency
  <2> HIDE DEF total
  <2>3. Gives(o, p).currency <= wallet'[p]
    BY <2>1, <2>2, <1>2, <1>3, <1>5, <1>8 DEF Keeps
  <2>4. \A j \in Items : Gives(o, p).items[j] <= inventory'[p][j]
    BY <2>1, <2>2, <1>2, <1>3, <1>5, <1>7 DEF Keeps
  <2> QED
    BY <2>3, <2>4, <1>10
<1>13. ASSUME NEW x \in Players, HealParty(x)
       PROVE  Keeps(o, p)'
  <2>1. /\ HealCost \in Nat /\ HealCost <= AvailableCurrency(x)
        /\ wallet' = [wallet EXCEPT ![x] = @ - HealCost] /\ UNCHANGED inventory
    BY <1>13, BoundAssumption DEF HealParty, SpendCurrency, BoundAssumption
  <2>2. Gives(o, p).currency <= wallet'[p]
    BY <2>1, <1>2, <1>3, <1>5, <1>6 DEF Keeps
  <2> QED
    BY <2>1, <2>2, <1>2, <1>10 DEF Keeps
<1>14. ASSUME NEW x \in Players, NEW m \in Monsters, NEW i \in Items, Train(x, m, i)
       PROVE  Keeps(o, p)'
  <2>1. /\ EscrowedItemQty(x, i) < inventory[x][i]
        /\ inventory' = [inventory EXCEPT ![x][i] = @ - 1] /\ UNCHANGED wallet
    BY <1>14 DEF Train, ConsumeItem
  <2>2. x = p => Gives(o, p).items[i] <= inventory[p][i] - 1
    BY <2>1, <1>3, <1>4
  <2>3. \A j \in Items : Gives(o, p).items[j] <= inventory'[p][j]
    BY <2>1, <2>2, <1>2, <1>3, <1>5 DEF Keeps
  <2> QED
    BY <2>1, <2>3, <1>2, <1>10 DEF Keeps
<1>15. ASSUME NEW x \in Players, NEW i \in Items, NEW qty \in 0..MaxReward,
              NEW coins \in 0..MaxReward, AdvanceDialogue(x, i, qty, coins)
       PROVE  Keeps(o, p)'
  <2>1. /\ inventory' = [inventory EXCEPT ![x][i] = Granted(@, qty, MaxItemStack)]
        /\ wallet' = [wallet EXCEPT ![x] = Granted(@, coins, MaxBalance)]
        /\ qty \in Nat /\ coins \in Nat
    BY <1>15, BoundAssumption DEF AdvanceDialogue, GrantItem, GrantCurrency, BoundAssumption
  <2>2. Gives(o, p).currency <= wallet'[p]
    BY <2>1, <1>2, <1>3, <1>5, <1>8 DEF Keeps
  <2>3. \A j \in Items : Gives(o, p).items[j] <= inventory'[p][j]
    BY <2>1, <1>2, <1>3, <1>5, <1>9 DEF Keeps
  <2> QED
    BY <2>2, <2>3, <1>10
<1> QED
  BY <1>11, <1>12, <1>13, <1>14, <1>15 DEF Economy

LEMMA IdentitiesKeepPromises ==
  ASSUME IdentityAssumption, BoundAssumption, TypeOK, OffersInv, Promised,
         OffersBetweenJoined, Identities
  PROVE  Promised'
<1>1. offers' \subseteq offers
  BY DEF Identities, JoinGame, OnDisconnect, ProvisionAccount, DeleteAccount,
     CompleteGuestClaim, CancelAccountDeletion, AccountDeletionReaper, ResolveAllLiveInteractions, DeleteOffers,
     trading
<1> SUFFICES ASSUME NEW o \in offers', NEW p \in Parties(o)
             PROVE  Keeps(o, p)'
  BY DEF Promised, Parties
<1>2. o \in offers /\ Keeps(o, p)
  BY <1>1 DEF Promised
<1>3. /\ p \in Players /\ wallet[p] \in 0..MaxBalance /\ wallet[p] \in Nat
      /\ \A i \in Items : inventory[p][i] \in Nat
      /\ Gives(o, p).monsters \subseteq Monsters
      /\ MaxBalance \in Nat
  BY <1>2, PartyOfOffer, BoundAssumption DEF BoundAssumption
<1>4. ASSUME UNCHANGED assets
      PROVE  Keeps(o, p)'
  BY <1>2, <1>4 DEF assets, Keeps, Gives
<1>5. ASSUME NEW x \in Players, JoinGame(x)
      PROVE  Keeps(o, p)'
  <2>1. UNCHANGED <<inventory, wallet>>
    BY <1>5 DEF JoinGame
  <2>2. \A m \in Monsters : owner[m] = p => owner'[m] = p
    BY <1>5, <1>3, IdentityAssumption DEF JoinGame, TypeOK, IdentityAssumption
  <2> QED
    BY <2>1, <2>2, <1>2, <1>3, KeepsMore
<1>6. ASSUME NEW x \in Players, NEW pay \in 0..MaxReward, OnDisconnect(x, pay)
      PROVE  Keeps(o, p)'
  <2>1. p # x
    BY <1>2, <1>6 DEF OnDisconnect, ResolveAllLiveInteractions, DeleteOffers, OffersOf
  <2>2. wallet'[p] = wallet[p] /\ UNCHANGED <<owner, inventory>>
    BY <1>6, <2>1, <1>3 DEF OnDisconnect, GrantCurrency, TypeOK
  <2> QED
    BY <2>2, <1>2 DEF Keeps, Gives
<1>7. ASSUME NEW x \in Players, AccountDeletionReaper(x)
      PROVE  Keeps(o, p)'
  <2>1. p # x
    BY <1>2, <1>7 DEF AccountDeletionReaper, ResolveAllLiveInteractions, DeleteOffers, OffersOf
  <2>2. wallet'[p] = wallet[p] /\ \A i \in Items : inventory'[p][i] = inventory[p][i]
    BY <1>7, <2>1, <1>3 DEF AccountDeletionReaper, TypeOK
  <2>3. \A m \in Monsters : owner[m] = p => owner'[m] = p
    BY <1>7, <2>1 DEF AccountDeletionReaper
  <2> QED
    BY <2>2, <2>3, <1>2, <1>3 DEF Keeps, Gives
<1>8. ASSUME NEW x \in Players, NEW guest \in Players, CompleteGuestClaim(x, guest)
      PROVE  Keeps(o, p)'
  <2>1. p # guest
    BY <1>2, <1>8 DEF CompleteGuestClaim, GuestIsGone, OffersBetweenJoined
  <2>2. wallet \in [Players -> 0..MaxBalance] /\ inventory \in [Players -> [Items -> 0..MaxItemStack]]
    BY DEF TypeOK
  <2>3. wallet[x] = 0 /\ \A i \in Items : inventory[x][i] = 0
    BY <1>8, <2>2, BoundAssumption DEF CompleteGuestClaim, OwnsGameData, BoundAssumption
  <2>4. wallet'[p] \in Nat /\ wallet'[p] >= wallet[p]
    BY <1>8, <2>1, <2>2, <2>3, <1>3, BoundAssumption
       DEF CompleteGuestClaim, Rekeyed, BoundAssumption
  <2>5. \A i \in Items : inventory'[p][i] \in Nat /\ inventory'[p][i] >= inventory[p][i]
    BY <1>8, <2>1, <2>2, <2>3, <1>3, BoundAssumption
       DEF CompleteGuestClaim, Rekeyed, BoundAssumption
  <2>6. \A m \in Monsters : owner[m] = p => owner'[m] = p
    BY <1>8, <2>1 DEF CompleteGuestClaim
  <2> QED
    BY <2>4, <2>5, <2>6, <1>2, KeepsMore
<1> QED
  BY <1>4, <1>5, <1>6, <1>7, <1>8
     DEF Identities, ProvisionAccount, DeleteAccount, CancelAccountDeletion

LEMMA PromisesStep ==
  ASSUME IdentityAssumption, BoundAssumption, TypeOK, OffersInv, Promised,
         OffersBetweenJoined, [Next]_vars
  PROVE  Promised'
<1>1. ASSUME offers' \subseteq offers, UNCHANGED assets
      PROVE  Promised'
  BY <1>1 DEF assets, Promised, Keeps, Parties, Gives
<1>2. CASE Trades
  <2>1. ASSUME NEW me \in Players, NEW o \in offers, DeclineTrade(me, o) \/ CancelTrade(me, o)
        PROVE  Promised'
    BY <1>1, <2>1 DEF DeclineTrade, CancelTrade, DeleteOffers
  <2>2. ASSUME NEW r \in reapers, TradeOfferReaper(r)
        PROVE  Promised'
    BY <1>1, <2>2 DEF TradeOfferReaper
  <2> QED
    BY <1>2, <2>1, <2>2, ProposeKeepsPromises, AcceptKeepsPromises, ConfirmKeepsPromises
       DEF Trades
<1>3. CASE Tick \/ UNCHANGED vars
  BY <1>1, <1>3 DEF Tick, vars, trading
<1> QED
  BY <1>2, <1>3, BattlesKeepPromises, EconomyKeepsPromises, IdentitiesKeepPromises DEF Next

-----------------------------------------------------------------------------
(* Battles and the monsters they lock.                                      *)

Fighters(b) == {b.player, b.opponent}
Fielded(b) == b.party \cup b.opponentParty

BattlesInv ==
  /\ BattleMonstersOwned
  /\ NoMonsterInTradeAndBattle
  /\ \A b \in battles : b.opponent = Wild => b.opponentParty = {}
  /\ \A b1, b2 \in battles : b1 # b2 => Fighters(b1) \cap Fighters(b2) \subseteq {Wild}

LEMMA FieldedByFighter ==
  ASSUME BattlesInv, TypeOK, NEW b \in battles, NEW m \in Fielded(b)
  PROVE  owner[m] \in Fighters(b) /\ owner[m] \in Players /\ m \in Monsters
<1>1. b \in Battle
  BY DEF TypeOK
<1> QED
  BY <1>1 DEF BattlesInv, BattleMonstersOwned, Fielded, Fighters, MonstersOf, Battle

LEMMA PromisedByParty ==
  ASSUME Promised, OffersInv, NEW o \in offers,
         NEW m \in o.give.monsters \cup o.want.monsters
  PROVE  /\ owner[m] \in Parties(o)
         /\ m \in Gives(o, owner[m]).monsters
BY DEF Promised, Keeps, Parties, Gives, OffersInv

(* A monster that fights on stays whose it is.                              *)
LEMMA FightersStay ==
  ASSUME IdentityAssumption, TypeOK, OffersInv, Promised, BattlesInv, [Next]_vars,
         NEW b \in battles, b \in battles', NEW m \in Fielded(b)
  PROVE  owner'[m] = owner[m]
<1>1. owner[m] \in Fighters(b) /\ owner[m] \in Players /\ m \in Monsters
  BY FieldedByFighter
<1>2. ASSUME NEW me \in Players, NEW o \in offers, ConfirmTrade(me, o)
      PROVE  owner'[m] = owner[m]
  <2>1. ASSUME m \in o.give.monsters \cup o.want.monsters
        PROVE  FALSE
    <3>1. owner[m] \in Parties(o) /\ m \in Gives(o, owner[m]).monsters
      BY <2>1, PromisedByParty
    <3>2. ~InBattle(owner[m], m)
      BY <1>2, <3>1 DEF ConfirmTrade
    <3> QED
      BY <1>1, <3>2 DEF InBattle, BattlesOf, Fielded, Fighters
  <2> QED
    BY <1>1, <1>2, <2>1 DEF ConfirmTrade
<1>3. ASSUME NEW x \in Players, AccountDeletionReaper(x)
      PROVE  owner'[m] = owner[m]
  <2>1. x \notin Fighters(b)
    BY <1>3 DEF AccountDeletionReaper, ResolveAllLiveInteractions, BattlesOf, Fighters
  <2> QED
    BY <1>1, <1>3, <2>1 DEF AccountDeletionReaper
<1>4. ASSUME NEW x \in Players, JoinGame(x)
      PROVE  owner'[m] = owner[m]
  BY <1>1, <1>4, IdentityAssumption DEF JoinGame, TypeOK, IdentityAssumption
<1>5. ASSUME NEW y \in battles, NEW n \in Monsters, Recruit(y, n)
      PROVE  owner'[m] = owner[m]
  BY <1>1, <1>5, IdentityAssumption DEF Recruit, TypeOK, IdentityAssumption
<1>12. ASSUME NEW x \in Players, NEW guest \in Players, CompleteGuestClaim(x, guest)
       PROVE  owner'[m] = owner[m]
  <2>1. guest \notin Fighters(b)
    BY <1>12 DEF CompleteGuestClaim, GuestIsGone, InOngoingBattle, BattlesOf, Fighters
  <2> QED
    BY <1>1, <1>12, <2>1 DEF CompleteGuestClaim
<1>6. ASSUME UNCHANGED owner
      PROVE  owner'[m] = owner[m]
  BY <1>6
<1>7. CASE Trades
  BY <1>2, <1>6, <1>7 DEF Trades, ProposeTrade, DeclineTrade, AcceptTrade, CancelTrade,
     TradeOfferReaper, assets
<1>8. CASE Battles
  BY <1>5, <1>6, <1>8 DEF Battles, StartWildTactical, StartPvpTactical, TakeBait, Finish, assets
<1>9. CASE Economy
  BY <1>6, <1>9 DEF Economy, Buy, Sell, HealParty, Train, AdvanceDialogue
<1>10. CASE Identities
  BY <1>3, <1>4, <1>6, <1>10, <1>12
     DEF Identities, OnDisconnect, ProvisionAccount, DeleteAccount, CancelAccountDeletion, assets
<1>11. CASE Tick \/ UNCHANGED vars
  BY <1>6, <1>11 DEF Tick, vars, assets
<1> QED
  BY <1>7, <1>8, <1>9, <1>10, <1>11 DEF Next

(* A battle starts, or none does.                                           *)
LEMMA BattlesChange ==
  ASSUME [Next]_vars
  PROVE  \/ battles' \subseteq battles
         \/ \E p \in Players, party \in SUBSET Monsters : StartWildTactical(p, party)
         \/ \E p, q \in Players, party, opponentParty \in SUBSET Monsters :
               StartPvpTactical(p, q, party, opponentParty)
<1>1. CASE Trades
  BY <1>1 DEF Trades, ProposeTrade, DeclineTrade, AcceptTrade, ConfirmTrade, CancelTrade,
     TradeOfferReaper
<1>2. CASE Battles
  BY <1>2 DEF Battles, TakeBait, Recruit, Finish
<1>3. CASE Economy
  BY <1>3 DEF Economy, Buy, Sell, HealParty, Train, AdvanceDialogue
<1>4. CASE Identities
  BY <1>4 DEF Identities, JoinGame, OnDisconnect, ProvisionAccount, DeleteAccount,
     CompleteGuestClaim, CancelAccountDeletion, AccountDeletionReaper, ResolveAllLiveInteractions
<1>5. CASE Tick \/ UNCHANGED vars
  BY <1>5 DEF Tick, vars
<1> QED
  BY <1>1, <1>2, <1>3, <1>4, <1>5 DEF Next

(* A battle that starts between idle fighters, each with free monsters of   *)
(* its own.                                                                 *)
LEMMA StartStep ==
  ASSUME IdentityAssumption, TypeOK, OffersInv, Promised, BattlesInv,
         NEW b \in Battle, battles' = battles \cup {b}, UNCHANGED <<assets, trading>>,
         b.party \subseteq MonstersOf(b.player), b.opponentParty \subseteq MonstersOf(b.opponent),
         b.opponent = Wild => b.opponentParty = {},
         \A x \in Fighters(b) \ {Wild} : BattlesOf(x) = {},
         \A m \in b.party : ~InTrade(b.player, m),
         \A m \in b.opponentParty : ~InTrade(b.opponent, m)
  PROVE  BattlesInv'
<1>1. owner' = owner /\ offers' = offers
  BY DEF assets, trading
<1>2. \A y \in battles : Fighters(y) \cap Fighters(b) \subseteq {Wild}
  BY DEF BattlesOf, Fighters
<1>3. ASSUME NEW y \in battles
      PROVE  Fielded(y) \cap Fielded(b) = {}
  <2>1. \A m \in Fielded(y) : owner[m] \in Fighters(y) /\ owner[m] \in Players
    BY FieldedByFighter
  <2>2. \A m \in Fielded(b) : owner[m] \in Fighters(b)
    BY DEF Fielded, Fighters, MonstersOf
  <2> QED
    BY <1>2, <2>1, <2>2, IdentityAssumption DEF IdentityAssumption
<1>4. BattleMonstersOwned'
  <2>1. \A y \in battles' : y.party \subseteq MonstersOf(y.player)'
                          /\ y.opponentParty \subseteq MonstersOf(y.opponent)'
    BY <1>1 DEF BattlesInv, BattleMonstersOwned, MonstersOf
  <2>2. \A b1, b2 \in battles' : b1 # b2 => Fielded(b1) \cap Fielded(b2) = {}
    BY <1>3 DEF BattlesInv, BattleMonstersOwned, Fielded
  <2> QED
    BY <2>1, <2>2 DEF BattleMonstersOwned, Fielded, MonstersOf
<1>5. NoMonsterInTradeAndBattle'
  <2>1. ASSUME NEW o \in offers, NEW m \in o.give.monsters \cup o.want.monsters
        PROVE  m \notin Fielded(b)
    <3>1. owner[m] \in Parties(o)
      BY PromisedByParty
    <3> QED
      BY <3>1 DEF Fielded, MonstersOf, InTrade, OffersOf
  <2> QED
    BY <1>1, <2>1 DEF BattlesInv, NoMonsterInTradeAndBattle, Fielded
<1> QED
  BY <1>1, <1>2, <1>4, <1>5 DEF BattlesInv, Fighters

LEMMA BattlesStep ==
  ASSUME IdentityAssumption, BoundAssumption, TypeOK, OffersInv, Promised, BattlesInv,
         [Next]_vars
  PROVE  BattlesInv'
<1>1. ASSUME NEW p \in Players, NEW party \in SUBSET Monsters, StartWildTactical(p, party)
      PROVE  BattlesInv'
  <2> DEFINE b == [player |-> p, opponent |-> Wild, party |-> party, opponentParty |-> {}]
  <2>1. b \in Battle /\ battles' = battles \cup {b} /\ UNCHANGED <<assets, trading>>
    BY <1>1 DEF StartWildTactical, Battle
  <2>2. /\ b.party \subseteq MonstersOf(b.player) /\ b.opponentParty = {}
        /\ \A x \in Fighters(b) \ {Wild} : BattlesOf(x) = {}
        /\ \A m \in b.party : ~InTrade(b.player, m)
    BY <1>1 DEF StartWildTactical, InOngoingBattle, Fighters
  <2> HIDE DEF b
  <2> QED
    BY <2>1, <2>2, StartStep
<1>2. ASSUME NEW p \in Players, NEW q \in Players, NEW party \in SUBSET Monsters,
             NEW opponentParty \in SUBSET Monsters, StartPvpTactical(p, q, party, opponentParty)
      PROVE  BattlesInv'
  <2> DEFINE b == [player |-> p, opponent |-> q, party |-> party,
                   opponentParty |-> opponentParty]
  <2>1. b \in Battle /\ battles' = battles \cup {b} /\ UNCHANGED <<assets, trading>>
    BY <1>2 DEF StartPvpTactical, Battle
  <2>2. /\ b.party \subseteq MonstersOf(b.player) /\ b.opponentParty \subseteq MonstersOf(b.opponent)
        /\ b.opponent # Wild
        /\ \A x \in Fighters(b) \ {Wild} : BattlesOf(x) = {}
        /\ \A m \in b.party : ~InTrade(b.player, m)
        /\ \A m \in b.opponentParty : ~InTrade(b.opponent, m)
    BY <1>2, IdentityAssumption
       DEF StartPvpTactical, InOngoingBattle, Fighters, IdentityAssumption
  <2> HIDE DEF b
  <2> QED
    BY <2>1, <2>2, StartStep
<1>3. ASSUME battles' \subseteq battles
      PROVE  BattlesInv'
  <2>1. BattleMonstersOwned'
    <3>1. ASSUME NEW b \in battles'
          PROVE  b.party \subseteq MonstersOf(b.player)' /\ b.opponentParty \subseteq MonstersOf(b.opponent)'
      <4>1. \A m \in Fielded(b) : owner'[m] = owner[m]
        BY <1>3, FightersStay
      <4> QED
        BY <1>3, <4>1 DEF BattlesInv, BattleMonstersOwned, MonstersOf, Fielded
    <3> QED
      BY <1>3, <3>1 DEF BattlesInv, BattleMonstersOwned, MonstersOf
  <2>2. NoMonsterInTradeAndBattle'
    <3>1. ASSUME NEW me \in Players, NEW cp \in Players, NEW give \in Side, NEW want \in Side,
                 ProposeTrade(me, cp, give, want)
          PROVE  NoMonsterInTradeAndBattle'
      <4>1. ASSUME NEW b \in battles, NEW m \in Fielded(b)
            PROVE  m \notin give.monsters \cup want.monsters
        <5>1. owner[m] \in Fighters(b)
          BY FieldedByFighter
        <5>2. b \in BattlesOf(owner[m])
          BY <5>1 DEF BattlesOf, Fighters
        <5> QED
          BY <3>1, <5>2 DEF ProposeTrade, CanOffer, InBattle, Fielded
      <4>2. \A o \in offers' : o \in offers \/ (o.give = give /\ o.want = want)
        BY <3>1 DEF ProposeTrade
      <4> QED
        BY <1>3, <4>1, <4>2 DEF BattlesInv, NoMonsterInTradeAndBattle, Fielded
    <3>2. ASSUME NEW me \in Players, NEW o \in offers, AcceptTrade(me, o)
          PROVE  NoMonsterInTradeAndBattle'
      <4>1. \A x \in offers' : \E y \in offers : x.give = y.give /\ x.want = y.want
        BY <3>2 DEF AcceptTrade, TypeOK, Offer
      <4> QED
        BY <1>3, <4>1 DEF BattlesInv, NoMonsterInTradeAndBattle
    <3>3. ASSUME offers' \subseteq offers
          PROVE  NoMonsterInTradeAndBattle'
      BY <1>3, <3>3 DEF BattlesInv, NoMonsterInTradeAndBattle
    <3> QED
      BY <3>1, <3>2, <3>3, OffersChange DEF DeleteOffers, trading
  <2> QED
    BY <1>3, <2>1, <2>2 DEF BattlesInv, Fighters
<1> QED
  BY <1>1, <1>2, <1>3, BattlesChange

-----------------------------------------------------------------------------
(* The inductive invariant.  TypeOK alone is not one: that a spender stays  *)
(* above zero takes OneActiveOffer, which bounds the escrow it subtracts;   *)
(* that promised goods stay put takes the battle lock and, when a guest is  *)
(* claimed, that who has an offer is present; and the battle lock takes the *)
(* promise that an offer's monsters are its parties'.                       *)
Inv == TypeOK /\ OffersInv /\ OffersBetweenJoined /\ Promised /\ BattlesInv

LEMMA InitInv ==
  ASSUME IdentityAssumption, BoundAssumption, Init
  PROVE  Inv
<1>1. TypeOK
  BY DEF Init, TypeOK, BoundAssumption
<1>2. OffersInv /\ OffersBetweenJoined /\ Promised /\ BattlesInv
  BY DEF Init, OffersBetweenJoined, OffersInv, OneActiveOffer, ReapersMatchOffers, Promised, BattlesInv,
     BattleMonstersOwned, NoMonsterInTradeAndBattle
<1> QED
  BY <1>1, <1>2 DEF Inv

LEMMA NextInv ==
  ASSUME IdentityAssumption, BoundAssumption, Inv, [Next]_vars
  PROVE  Inv'
BY TypeStep, OffersStep, JoinedStep, PromisesStep, BattlesStep DEF Inv, OffersInv

(* Inv holds in every reachable state.                                      *)
THEOREM Invariance == Spec => []Inv
<1>1. Init => Inv
  BY InitInv, IdentityAssumption, BoundAssumption
<1>2. Inv /\ [Next]_vars => Inv'
  BY NextInv, IdentityAssumption, BoundAssumption
<1> QED
  BY <1>1, <1>2, PTL DEF Spec

(* Every table keeps its schema and every count its cap, whatever the       *)
(* players, prices and caps are.                                            *)
THEOREM TypeCorrect == Spec => []TypeOK
<1>1. Inv => TypeOK
  BY DEF Inv
<1> QED
  BY <1>1, Invariance, PTL

(* A player is party to one live offer at most.                             *)
THEOREM OneActiveOfferHolds == Spec => []OneActiveOffer
<1>1. Inv => OneActiveOffer
  BY DEF Inv, OffersInv
<1> QED
  BY <1>1, Invariance, PTL

(* Each live offer has its expiry row, and each expiry row a live offer.    *)
THEOREM ReapersMatchOffersHolds == Spec => []ReapersMatchOffers
<1>1. Inv => ReapersMatchOffers
  BY DEF Inv, OffersInv
<1> QED
  BY <1>1, Invariance, PTL

(* Both parties of a live offer are joined players.                         *)
THEOREM OffersBetweenJoinedHolds == Spec => []OffersBetweenJoined
<1>1. Inv => OffersBetweenJoined
  BY DEF Inv
<1> QED
  BY <1>1, Invariance, PTL

(* Whatever an offer promises is still with the party that promised it.     *)
THEOREM EscrowBackedHolds == Spec => []EscrowBacked
<1>1. ASSUME Inv
      PROVE  EscrowBacked
  <2> SUFFICES ASSUME NEW p \in Players
               PROVE  /\ EscrowedCurrency(p) <= wallet[p]
                      /\ \A i \in Items : EscrowedItemQty(p, i) <= inventory[p][i]
                      /\ \A o \in OffersOf(p) : Gives(o, p).monsters \subseteq MonstersOf(p)
    BY DEF EscrowBacked
  <2> USE <1>1, BoundAssumption DEF Inv, OffersInv
  <2>1. wallet[p] \in Nat /\ \A i \in Items : inventory[p][i] \in Nat
    BY DEF TypeOK, BoundAssumption
  <2>2. CASE OffersOf(p) = {}
    BY <2>1, <2>2, EscrowAmounts
  <2>3. ASSUME NEW o \in OffersOf(p)
        PROVE  /\ EscrowedCurrency(p) <= wallet[p]
               /\ \A i \in Items : EscrowedItemQty(p, i) <= inventory[p][i]
               /\ Gives(o, p).monsters \subseteq MonstersOf(p)
    <3>1. o \in offers /\ p \in Parties(o)
      BY DEF OffersOf
    <3>2. Keeps(o, p)
      BY <3>1 DEF Promised
    <3> QED
      BY <3>1, <3>2, LockedAmounts, PartyOfOffer DEF Keeps, MonstersOf
  <2> QED
    BY <2>2, <2>3
<1> QED
  BY <1>1, Invariance, PTL

(* No monster is promised away and in a battle at once.                     *)
THEOREM TradeAndBattleExclusive == Spec => []NoMonsterInTradeAndBattle
<1>1. Inv => NoMonsterInTradeAndBattle
  BY DEF Inv, BattlesInv
<1> QED
  BY <1>1, Invariance, PTL

(* A battle fields its sides' own monsters as long as it lasts.             *)
THEOREM BattleMonstersOwnedHolds == Spec => []BattleMonstersOwned
<1>1. Inv => BattleMonstersOwned
  BY DEF Inv, BattlesInv
<1> QED
  BY <1>1, Invariance, PTL

(* No count passes its cap, and what is promised is held.                   *)
THEOREM HoldingsAreBacked == Spec => []HoldingsBacked
  BY TypeCorrect, EscrowBackedHolds, PTL DEF HoldingsBacked

(* A player has one live offer, and it has its one expiry row.              *)
THEOREM OneOfferOneReaperHolds == Spec => []OneOfferOneReaper
  BY OneActiveOfferHolds, ReapersMatchOffersHolds, PTL DEF OneOfferOneReaper

(* Offers are orderly: one of a player, between players who are there.      *)
THEOREM OffersStayOrderly == Spec => []OffersWellFormed
  BY OneOfferOneReaperHolds, OffersBetweenJoinedHolds, PTL DEF OffersWellFormed

(* A monster is fought with by its owner or promised away, never both.      *)
THEOREM MonstersAreCommittedOnce == Spec => []MonstersCommittedOnce
  BY BattleMonstersOwnedHolds, TradeAndBattleExclusive, PTL DEF MonstersCommittedOnce

-----------------------------------------------------------------------------
(* A swap is exact, and Trading implements EscrowContract.                  *)

(* With the headroom confirm_trade checks, settling loses nothing.          *)
LEMMA SettledExact ==
  ASSUME NEW cap \in Nat, NEW held \in 0..cap, NEW out \in 0..held, NEW in \in Nat,
         Headroom(Monus(held, out), in, cap)
  PROVE  Settled(held, out, in, cap) + out = held + in
<1>1. Monus(held, out) = held - out /\ held - out \in 0..cap
  BY DEF Monus
<1> QED
  BY <1>1 DEF Settled, Granted, Headroom

LEMMA ExactSwap ==
  ASSUME BoundAssumption, Inv, NEW me \in Players, NEW o \in offers, ConfirmTrade(me, o),
         NEW q \in Parties(o)
  PROVE  /\ wallet'[q] + Gives(o, q).currency = wallet[q] + Gets(o, q).currency
         /\ \A i \in Items :
              inventory'[q][i] + Gives(o, q).items[i] = inventory[q][i] + Gets(o, q).items[i]
         /\ {m \in Monsters : owner'[m] = q}
              = (MonstersOf(q) \ Gives(o, q).monsters) \cup Gets(o, q).monsters
<1> USE DEF Inv
<1>1. /\ q \in Players /\ MaxBalance \in Nat /\ MaxItemStack \in Nat
      /\ Gives(o, q).currency \in Nat /\ wallet[q] \in 0..MaxBalance
      /\ \A i \in Items : Gives(o, q).items[i] \in Nat /\ inventory[q][i] \in 0..MaxItemStack
  BY PartyOfOffer, BoundAssumption DEF BoundAssumption
<1>2. Gets(o, q).currency \in Nat /\ \A i \in Items : Gets(o, q).items[i] \in Nat
  BY SideType, BoundAssumption DEF Side, BoundAssumption
<1>3. wallet'[q] + Gives(o, q).currency = wallet[q] + Gets(o, q).currency
  <2>1. /\ Gives(o, q).currency \in 0..wallet[q]
        /\ Headroom(Monus(wallet[q], Gives(o, q).currency), Gets(o, q).currency, MaxBalance)
    BY <1>1 DEF ConfirmTrade
  <2>2. wallet'[q] = Settled(wallet[q], Gives(o, q).currency, Gets(o, q).currency, MaxBalance)
    BY <1>1 DEF ConfirmTrade
  <2> QED
    BY <1>1, <1>2, <2>1, <2>2, SettledExact
<1>4. ASSUME NEW i \in Items
      PROVE  inventory'[q][i] + Gives(o, q).items[i] = inventory[q][i] + Gets(o, q).items[i]
  <2>1. /\ Gives(o, q).items[i] \in 0..inventory[q][i]
        /\ Headroom(Monus(inventory[q][i], Gives(o, q).items[i]), Gets(o, q).items[i],
                    MaxItemStack)
    BY <1>1 DEF ConfirmTrade
  <2>2. inventory'[q][i]
          = Settled(inventory[q][i], Gives(o, q).items[i], Gets(o, q).items[i], MaxItemStack)
    BY <1>1 DEF ConfirmTrade
  <2> QED
    BY <1>1, <1>2, <2>1, <2>2, SettledExact
<1>5. {m \in Monsters : owner'[m] = q}
        = (MonstersOf(q) \ Gives(o, q).monsters) \cup Gets(o, q).monsters
  <2>1. /\ o.initiator # o.counterparty /\ o.give.monsters \cap o.want.monsters = {}
        /\ o.give.monsters \subseteq Monsters /\ o.want.monsters \subseteq Monsters
    BY DEF OffersInv, TypeOK, Offer, Side
  <2>2. /\ \A m \in o.give.monsters : owner[m] = o.initiator
        /\ \A m \in o.want.monsters : owner[m] = o.counterparty
    BY <2>1 DEF Promised, Keeps, Parties, Gives
  <2>3. owner' = [m \in Monsters |->
          CASE m \in o.give.monsters -> o.counterparty
            [] m \in o.want.monsters -> o.initiator
            [] OTHER -> owner[m]]
    BY DEF ConfirmTrade
  <2>4. CASE q = o.initiator
    BY <2>1, <2>2, <2>3, <2>4 DEF Gives, Gets, MonstersOf
  <2>5. CASE q = o.counterparty
    BY <2>1, <2>2, <2>3, <2>5 DEF Gives, Gets, MonstersOf
  <2> QED
    BY <2>4, <2>5 DEF Parties
<1> QED
  BY <1>3, <1>4, <1>5

(* No swap makes, loses or misplaces a coin, an item or a monster.          *)
THEOREM ExactSettlementHolds == Spec => ExactSettlement
<1> DEFINE Exact == \A p \in Players, o \in offers :
      ConfirmTrade(p, o) => \A q \in Parties(o) :
        /\ wallet'[q] + Gives(o, q).currency = wallet[q] + Gets(o, q).currency
        /\ \A i \in Items :
             inventory'[q][i] + Gives(o, q).items[i] = inventory[q][i] + Gets(o, q).items[i]
        /\ {m \in Monsters : owner'[m] = q}
             = (MonstersOf(q) \ Gives(o, q).monsters) \cup Gets(o, q).monsters
<1>1. Inv => Exact
  BY ExactSwap, BoundAssumption
<1>2. Inv => [Exact]_vars
  BY <1>1
<1> HIDE DEF Exact
<1>3. Spec => [][Exact]_vars
  BY <1>2, Invariance, PTL DEF Spec
<1> USE DEF Exact
<1> QED
  BY <1>3 DEF ExactSettlement

-----------------------------------------------------------------------------
(* The refinement.  Offers are contracts, tables are holdings.              *)

(* The parties hold what the contract of a live offer names.                *)
LEMMA OfferIsBacked ==
  ASSUME Inv, NEW o \in offers
  PROVE  Escrow!Backed(ContractOf(o))
<1>1. Keeps(o, o.initiator) /\ Keeps(o, o.counterparty) /\ o.initiator # o.counterparty
  BY DEF Inv, Promised, Parties, OffersInv
<1> QED
  BY <1>1 DEF Escrow!Backed, Escrow!Holds, ContractOf, Keeps, Gives

LEMMA ProposeOpens ==
  ASSUME BoundAssumption, Inv, Inv', NEW me \in Players, NEW cp \in Players,
         NEW give \in Side, NEW want \in Side, ProposeTrade(me, cp, give, want)
  PROVE  Escrow!Next
<1>1. PICK new \in offers' :
        /\ new = [id |-> nextTradeId, initiator |-> me, counterparty |-> cp,
                  give |-> give, want |-> want, status |-> "Pending", createdAt |-> now,
                  openedInGrace |-> account[cp].status = "PendingDeletion"]
        /\ offers' = offers \cup {new} /\ UNCHANGED <<owner, inventory, wallet>>
  BY DEF ProposeTrade, assets
<1> DEFINE c == ContractOf(new)
<1>2. c.first = me /\ c.second = cp /\ c.id = nextTradeId /\ c.status = "Pending"
      /\ c.give = give /\ c.want = want
  BY <1>1 DEF ContractOf
<1>3. me # cp /\ OffersOf(me) = {} /\ OffersOf(cp) = {}
  BY DEF ProposeTrade, HasActiveTrade
<1>4. \A o \in offers : o.id # nextTradeId
  BY BoundAssumption DEF Inv, OffersInv, TypeOK, Offer, BoundAssumption
<1>5. \A d \in {ContractOf(o) : o \in offers} : d.id # c.id /\ Escrow!Apart(c, d)
  BY <1>2, <1>3, <1>4 DEF ContractOf, OffersOf, Parties, Escrow!Apart
<1>6. Escrow!Backed(c)
  <2>1. new.initiator = me /\ new.counterparty = cp /\ new.give = give /\ new.want = want
    BY <1>1
  <2>2. Keeps(new, me)' /\ Keeps(new, cp)'
    BY <2>1 DEF Inv, Promised, Parties
  <2> QED
    BY <2>1, <2>2, <1>1, <1>2, <1>3 DEF Keeps, Gives, Escrow!Backed, Escrow!Holds
<1>7. {ContractOf(o) : o \in offers}' = {ContractOf(o) : o \in offers} \cup {c}
  BY <1>1 DEF ContractOf
<1> HIDE DEF c
<1>8. Escrow!Open(c)
  BY <1>1, <1>2, <1>3, <1>5, <1>6, <1>7 DEF Escrow!Open
<1> QED
  BY <1>5, <1>7, <1>8 DEF Escrow!Next

LEMMA AcceptAgrees ==
  ASSUME Inv, NEW me \in Players, NEW o \in offers, AcceptTrade(me, o)
  PROVE  Escrow!Next
<1> DEFINE new == [o EXCEPT !.status = "ConfirmedByCounterparty"]
           c == ContractOf(o)
<1>1. o \in Offer
  BY DEF Inv, TypeOK
<1>2. offers' = (offers \ {o}) \cup {new} /\ UNCHANGED <<owner, inventory, wallet>>
  BY DEF AcceptTrade, assets
<1>3. ContractOf(new) = [c EXCEPT !.status = "ConfirmedByCounterparty"] /\ c.status = "Pending"
  <2>1. /\ new.id = o.id /\ new.initiator = o.initiator /\ new.counterparty = o.counterparty
        /\ new.give = o.give /\ new.want = o.want /\ new.status = "ConfirmedByCounterparty"
    BY <1>1 DEF Offer
  <2>2. c.status = "Pending"
    BY DEF ContractOf, AcceptTrade
  <2> HIDE DEF new
  <2> QED
    BY <2>1, <2>2 DEF ContractOf
<1>4. \A x \in offers \ {o} : ContractOf(x) # c
  BY DEF ContractOf, Inv, OffersInv, OneActiveOffer
<1> HIDE DEF new
<1>5. {ContractOf(x) : x \in offers}'
        = ({ContractOf(x) : x \in offers} \ {c}) \cup {[c EXCEPT !.status = "ConfirmedByCounterparty"]}
  <2> DEFINE d == [c EXCEPT !.status = "ConfirmedByCounterparty"]
  <2>1. ContractOf(new) = d
    BY <1>3
  <2>2. {ContractOf(x) : x \in offers}' = {ContractOf(x) : x \in offers'}
    BY DEF ContractOf
  <2>3. {ContractOf(x) : x \in (offers \ {o}) \cup {new}}
          = ({ContractOf(x) : x \in offers} \ {c}) \cup {d}
    <3> HIDE DEF c, d
    <3>1. c = ContractOf(o)
      BY DEF c
    <3> QED
      BY <2>1, <1>4, <3>1
  <2> QED
    BY <1>2, <2>2, <2>3
<1>6. c \in {ContractOf(x) : x \in offers}
  OBVIOUS
<1> HIDE DEF c
<1>7. Escrow!Agree(c)
  BY <1>2, <1>3, <1>5 DEF Escrow!Agree
<1> QED
  BY <1>6, <1>7 DEF Escrow!Next

LEMMA ConfirmSettles ==
  ASSUME BoundAssumption, Inv, NEW me \in Players, NEW o \in offers, ConfirmTrade(me, o)
  PROVE  Escrow!Next
<1> DEFINE c == ContractOf(o)
<1>1. o \in Offer /\ o.initiator # o.counterparty
  BY DEF Inv, TypeOK, OffersInv
<1>2. /\ c.first = o.initiator /\ c.second = o.counterparty /\ c.give = o.give
      /\ c.want = o.want /\ c.status = "ConfirmedByCounterparty"
  BY DEF ContractOf, ConfirmTrade
<1>3. {ContractOf(x) : x \in offers}' = {ContractOf(x) : x \in offers} \ {c}
  <2>1. \A x \in offers \ {o} : ContractOf(x) # c
    BY DEF ContractOf, Inv, OffersInv, OneActiveOffer
  <2>2. offers' = offers \ {o}
    BY DEF ConfirmTrade, DeleteOffers
  <2> QED
    BY <2>1, <2>2 DEF ContractOf
<1>4. Escrow!Swapped(o.initiator, o.give, o.want)
  <2>1. Gives(o, o.initiator) = o.give /\ Gets(o, o.initiator) = o.want /\ o.initiator \in Parties(o)
    BY DEF Gives, Gets, Parties
  <2> QED
    BY <2>1, ExactSwap DEF Escrow!Swapped, MonstersOf
<1>5. Escrow!Swapped(o.counterparty, o.want, o.give)
  <2>1. /\ Gives(o, o.counterparty) = o.want /\ Gets(o, o.counterparty) = o.give
        /\ o.counterparty \in Parties(o)
    BY <1>1 DEF Gives, Gets, Parties
  <2> QED
    BY <2>1, ExactSwap DEF Escrow!Swapped, MonstersOf
<1>6. \A p \in Players \ {o.initiator, o.counterparty} :
        wallet'[p] = wallet[p] /\ inventory'[p] = inventory[p]
  BY DEF ConfirmTrade, Parties, Inv, TypeOK
<1>7. \A m \in Monsters : m \notin o.give.monsters \cup o.want.monsters => owner'[m] = owner[m]
  BY DEF ConfirmTrade
<1>8. c \in {ContractOf(x) : x \in offers}
  OBVIOUS
<1> HIDE DEF c
<1>9. Escrow!Settle(c)
  BY <1>2, <1>3, <1>4, <1>5, <1>6, <1>7 DEF Escrow!Settle
<1> QED
  BY <1>8, <1>9 DEF Escrow!Next

(* A step that ends offers or none and touches the goods of one player.     *)
LEMMA SoloStep ==
  ASSUME Inv', NEW p \in Players, offers' \subseteq offers,
         \A q \in Players \ {p} : wallet'[q] = wallet[q] /\ inventory'[q] = inventory[q],
         \A m \in Monsters : owner'[m] # owner[m] =>
            (owner[m] = Unborn /\ owner'[m] = p) \/ (owner[m] = p /\ owner'[m] = Erased)
  PROVE  Escrow!Next
<1>1. {ContractOf(x) : x \in offers}' \subseteq {ContractOf(x) : x \in offers}
  BY DEF ContractOf
<1>2. ASSUME NEW o \in offers'
      PROVE  Escrow!Backed(ContractOf(o))'
  <2>1. Keeps(o, o.initiator)' /\ Keeps(o, o.counterparty)' /\ o.initiator # o.counterparty
    BY DEF Inv, Promised, Parties, OffersInv
  <2> QED
    BY <2>1 DEF Escrow!Backed, Escrow!Holds, ContractOf, Keeps, Gives
<1>3. \A c \in {ContractOf(x) : x \in offers}' : Escrow!Backed(c)'
  BY <1>2 DEF ContractOf, Escrow!Backed, Escrow!Holds
<1>4. Escrow!Use(p)
  BY <1>1, <1>3 DEF Escrow!Use
<1> QED
  BY <1>4 DEF Escrow!Next

LEMMA TradesRefine ==
  ASSUME BoundAssumption, Inv, Inv', Trades
  PROVE  Escrow!Next
<1>1. ASSUME NEW me \in Players, NEW o \in offers, DeclineTrade(me, o) \/ CancelTrade(me, o)
      PROVE  Escrow!Next
  <2>1. offers' \subseteq offers /\ UNCHANGED <<owner, inventory, wallet>>
    BY <1>1 DEF DeclineTrade, CancelTrade, DeleteOffers, assets
  <2> QED
    BY <2>1, SoloStep
<1>2. ASSUME NEW r \in reapers, TradeOfferReaper(r)
      PROVE  Escrow!Next
  <2>1. PICK o \in offers : DeleteOffers({o})
    BY <1>2, ReaperDeletesItsOffer DEF Inv
  <2>2. o.initiator \in Players
    BY DEF Inv, TypeOK, Offer
  <2>3. offers' \subseteq offers /\ UNCHANGED <<owner, inventory, wallet>>
    BY <1>2, <2>1 DEF TradeOfferReaper, DeleteOffers, assets
  <2> QED
    BY <2>2, <2>3, SoloStep
<1> QED
  BY <1>1, <1>2, ProposeOpens, AcceptAgrees, ConfirmSettles DEF Trades

LEMMA BattlesRefine ==
  ASSUME Inv, Inv', Battles
  PROVE  Escrow!Next \/ UNCHANGED <<owner, inventory, wallet, offers>>
<1>1. \A b \in battles : b.player \in Players
  BY DEF Inv, TypeOK, Battle
<1>2. ASSUME NEW b \in battles, NEW i \in Items, TakeBait(b, i)
      PROVE  Escrow!Next
  <2>1. /\ offers' \subseteq offers /\ UNCHANGED <<owner, wallet>>
        /\ \A q \in Players \ {b.player} : inventory'[q] = inventory[q]
    BY <1>2 DEF TakeBait, ConsumeItem, trading, Inv, TypeOK
  <2> QED
    BY <1>1, <2>1, SoloStep
<1>3. ASSUME NEW b \in battles, NEW n \in Monsters, Recruit(b, n)
      PROVE  Escrow!Next
  <2>1. /\ offers' \subseteq offers /\ UNCHANGED <<inventory, wallet>>
        /\ \A m \in Monsters : owner'[m] # owner[m] => owner[m] = Unborn /\ owner'[m] = b.player
    BY <1>3 DEF Recruit, trading, Inv, TypeOK
  <2> QED
    BY <1>1, <2>1, SoloStep
<1>4. ASSUME NEW b \in battles, NEW pay \in 0..MaxReward, Finish(b, pay)
      PROVE  Escrow!Next
  <2>1. /\ offers' \subseteq offers /\ UNCHANGED <<owner, inventory>>
        /\ \A q \in Players \ {b.player} : wallet'[q] = wallet[q]
    BY <1>4 DEF Finish, GrantCurrency, trading, Inv, TypeOK
  <2> QED
    BY <1>1, <2>1, SoloStep
<1> QED
  BY <1>2, <1>3, <1>4 DEF Battles, StartWildTactical, StartPvpTactical, assets, trading

LEMMA EconomyRefines ==
  ASSUME Inv, Inv', Economy
  PROVE  Escrow!Next
<1>1. PICK p \in Players :
        \/ \E i \in Items, qty \in 1..MaxReward : Buy(p, i, qty) \/ Sell(p, i, qty)
        \/ HealParty(p)
        \/ \E m \in Monsters, i \in Items : Train(p, m, i)
        \/ \E i \in Items, qty, coins \in 0..MaxReward : AdvanceDialogue(p, i, qty, coins)
  BY DEF Economy
<1>2. offers' \subseteq offers /\ UNCHANGED owner
  BY <1>1 DEF Buy, Sell, HealParty, Train, AdvanceDialogue, trading
<1>3. \A q \in Players \ {p} : wallet'[q] = wallet[q] /\ inventory'[q] = inventory[q]
  BY <1>1 DEF Buy, Sell, HealParty, Train, AdvanceDialogue, SpendCurrency, GrantItem,
     ConsumeItem, GrantCurrency, Inv, TypeOK
<1> QED
  BY <1>2, <1>3, SoloStep

(* A claim: the guest has no offer, being gone, and its heir had nothing.   *)
LEMMA ClaimBequeaths ==
  ASSUME BoundAssumption, Inv, NEW me \in Players, NEW guest \in Players,
         CompleteGuestClaim(me, guest)
  PROVE  Escrow!Next
<1>1. /\ offers' = offers /\ guest \notin player
      /\ owner' = [m \in Monsters |-> IF owner[m] = guest THEN me ELSE owner[m]]
      /\ inventory' = Rekeyed(inventory, guest, me, [i \in Items |-> 0])
      /\ wallet' = Rekeyed(wallet, guest, me, 0)
  BY DEF CompleteGuestClaim, GuestIsGone, trading
<1>2. wallet \in [Players -> 0..MaxBalance] /\ inventory \in [Players -> [Items -> 0..MaxItemStack]]
  BY DEF Inv, TypeOK
<1>3. wallet[me] = 0 /\ \A i \in Items : inventory[me][i] = 0
  BY <1>2, BoundAssumption DEF CompleteGuestClaim, OwnsGameData, BoundAssumption
<1>4. guest # me
  BY DEF CompleteGuestClaim
<1>5. \A c \in {ContractOf(o) : o \in offers} : guest \notin {c.first, c.second}
  BY <1>1 DEF ContractOf, Inv, OffersBetweenJoined, Parties
<1>6. wallet'[guest] = 0 /\ wallet'[me] = wallet[me] + wallet[guest]
  BY <1>1, <1>2, <1>3, <1>4, BoundAssumption DEF Rekeyed, BoundAssumption
<1>7. \A i \in Items : inventory'[guest][i] = 0 /\ inventory'[me][i] = inventory[me][i] + inventory[guest][i]
  BY <1>1, <1>2, <1>3, <1>4, BoundAssumption DEF Rekeyed, BoundAssumption
<1>8. \A q \in Players \ {guest, me} : wallet'[q] = wallet[q] /\ inventory'[q] = inventory[q]
  BY <1>1, <1>2 DEF Rekeyed
<1>9. {ContractOf(o) : o \in offers}' = {ContractOf(o) : o \in offers}
  BY <1>1 DEF ContractOf
<1>10. Escrow!Bequeath(guest, me)
  BY <1>1, <1>4, <1>5, <1>6, <1>7, <1>8, <1>9 DEF Escrow!Bequeath
<1> QED
  BY <1>10 DEF Escrow!Next

LEMMA IdentitiesRefine ==
  ASSUME BoundAssumption, Inv, Inv', Identities
  PROVE  Escrow!Next
<1> SUFFICES ASSUME ~ \E p, guest \in Players : CompleteGuestClaim(p, guest)
             PROVE  Escrow!Next
  BY ClaimBequeaths
<1>1. PICK p \in Players :
        \/ JoinGame(p)
        \/ \E pay \in 0..MaxReward : OnDisconnect(p, pay)
        \/ ProvisionAccount(p) \/ DeleteAccount(p) \/ CancelAccountDeletion(p)
        \/ AccountDeletionReaper(p)
  BY DEF Identities
<1>2. offers' \subseteq offers
  BY <1>1 DEF JoinGame, OnDisconnect, ProvisionAccount, DeleteAccount, CancelAccountDeletion,
     AccountDeletionReaper, ResolveAllLiveInteractions, DeleteOffers, trading
<1>3. \A q \in Players \ {p} : wallet'[q] = wallet[q] /\ inventory'[q] = inventory[q]
  BY <1>1 DEF JoinGame, OnDisconnect, ProvisionAccount, DeleteAccount, CancelAccountDeletion,
     AccountDeletionReaper, GrantCurrency, assets, Inv, TypeOK
<1>4. \A m \in Monsters : owner'[m] # owner[m] =>
        (owner[m] = Unborn /\ owner'[m] = p) \/ (owner[m] = p /\ owner'[m] = Erased)
  BY <1>1 DEF JoinGame, OnDisconnect, ProvisionAccount, DeleteAccount, CancelAccountDeletion,
     AccountDeletionReaper, assets, Inv, TypeOK
<1> QED
  BY <1>2, <1>3, <1>4, SoloStep

(* The server implements the contract: between its tables and its many      *)
(* calls there is no way to touch promised goods, nor to settle inexactly.  *)
THEOREM Refinement == Spec => ImplementsEscrowContract
<1>1. Init => Escrow!Init
  BY DEF Init, Escrow!Init
<1>2. Inv /\ Inv' /\ [Next]_vars => [Escrow!Next]_(Escrow!vars)
  <2> SUFFICES ASSUME Inv, Inv', [Next]_vars
               PROVE  Escrow!Next \/ UNCHANGED <<owner, inventory, wallet, offers>>
    BY DEF Escrow!vars, ContractOf
  <2>1. CASE Tick \/ UNCHANGED vars
    BY <2>1 DEF Tick, vars, assets, trading
  <2> QED
    BY <2>1, TradesRefine, BattlesRefine, EconomyRefines, IdentitiesRefine, BoundAssumption
       DEF Next
<1> QED
  BY <1>1, <1>2, Invariance, PTL DEF Spec, ImplementsEscrowContract, Escrow!Spec

-----------------------------------------------------------------------------
(* The grace period.  Accepting is refused by comparing two clock readings, *)
(* so the invariant relates them: an offer opened in the grace period is    *)
(* stamped at or after the request, for as long as the request stands.      *)

GraceInv ==
  /\ \A p \in Players : account[p].requestedAt <= now
  /\ \A o \in offers : o.openedInGrace =>
       /\ o.status = "Pending"
       /\ account[o.counterparty].status = "PendingDeletion"
       /\ o.createdAt >= account[o.counterparty].requestedAt

LEMMA GraceStep ==
  ASSUME BoundAssumption, TypeOK, GraceInv, [Next]_vars
  PROVE  GraceInv'
<1>1. ASSUME offers' \subseteq offers, UNCHANGED <<account, now>>
      PROVE  GraceInv'
  BY <1>1 DEF GraceInv
<1>2. ASSUME NEW me \in Players, NEW cp \in Players, NEW give \in Side, NEW want \in Side,
             ProposeTrade(me, cp, give, want)
      PROVE  GraceInv'
  <2> DEFINE new == [id |-> nextTradeId, initiator |-> me, counterparty |-> cp,
                     give |-> give, want |-> want, status |-> "Pending",
                     createdAt |-> now,
                     openedInGrace |-> account[cp].status = "PendingDeletion"]
  <2>1. /\ offers' = offers \cup {new} /\ UNCHANGED <<account, now>>
        /\ account[cp].requestedAt <= now /\ now \in Nat /\ account[cp].requestedAt \in Nat
    BY <1>2, BoundAssumption DEF ProposeTrade, GraceInv, TypeOK, BoundAssumption
  <2>2. /\ new.status = "Pending" /\ new.counterparty = cp /\ new.createdAt = now
        /\ new.openedInGrace => account[cp].status = "PendingDeletion"
    OBVIOUS
  <2> HIDE DEF new
  <2> QED
    BY <2>1, <2>2 DEF GraceInv
<1>3. ASSUME NEW me \in Players, NEW o \in offers, AcceptTrade(me, o)
      PROVE  GraceInv'
  <2>1. ~o.openedInGrace
    BY <1>3 DEF AcceptTrade, RefusesCommitmentOpenedAt, GraceInv
  <2>2. \A x \in offers' : x \in offers \/ ~x.openedInGrace
    BY <1>3, <2>1 DEF AcceptTrade, TypeOK, Offer
  <2> QED
    BY <1>3, <2>2 DEF AcceptTrade, GraceInv
<1>4. CASE Trades
  BY <1>1, <1>2, <1>3, <1>4 DEF Trades, DeclineTrade, ConfirmTrade, CancelTrade,
     TradeOfferReaper, DeleteOffers
<1>5. CASE Battles
  BY <1>1, <1>5 DEF Battles, StartWildTactical, StartPvpTactical, TakeBait, Recruit, Finish,
     trading
<1>6. CASE Economy
  BY <1>1, <1>6 DEF Economy, Buy, Sell, HealParty, Train, AdvanceDialogue, trading
<1>7. CASE Identities
  <2>5. ASSUME NEW p \in Players, NEW guest \in Players, CompleteGuestClaim(p, guest)
        PROVE  GraceInv'
    <3>1. /\ offers' = offers /\ now' = now
          /\ \A q \in Players : /\ account'[q].status = account[q].status
                                /\ account'[q].requestedAt = account[q].requestedAt
      BY <2>5 DEF CompleteGuestClaim, trading, TypeOK
    <3>2. \A o \in offers : o.counterparty \in Players
      BY DEF TypeOK, Offer
    <3> QED
      BY <3>1, <3>2 DEF GraceInv
  <2>1. ASSUME NEW p \in Players, JoinGame(p) \/ \E pay \in 0..MaxReward : OnDisconnect(p, pay)
        PROVE  GraceInv'
    BY <1>1, <2>1 DEF JoinGame, OnDisconnect, ResolveAllLiveInteractions, DeleteOffers, trading
  <2>2. ASSUME NEW p \in Players, ProvisionAccount(p) \/ DeleteAccount(p)
        PROVE  GraceInv'
    <3>1. /\ offers' = offers /\ now' = now /\ now \in Nat
          /\ \A q \in Players \ {p} : account'[q] = account[q]
          /\ account'[p].requestedAt <= now
          /\ account[p].status # "PendingDeletion"
      BY <2>2, BoundAssumption
         DEF ProvisionAccount, DeleteAccount, trading, TypeOK, BoundAssumption
    <3>2. \A o \in offers : o.counterparty \in Players
      BY DEF TypeOK, Offer
    <3> QED
      BY <3>1, <3>2 DEF GraceInv
  <2>3. ASSUME NEW p \in Players, CancelAccountDeletion(p)
        PROVE  GraceInv'
    <3>1. /\ \A q \in Players \ {p} : account'[q] = account[q]
          /\ account'[p].requestedAt = 0 /\ now' = now /\ now \in Nat
      BY <2>3, BoundAssumption DEF CancelAccountDeletion, TypeOK, BoundAssumption
    <3>2. \A o \in offers' : o \in offers /\ o.counterparty \in Players
      BY <2>3 DEF CancelAccountDeletion, DeleteOffers, TypeOK, Offer
    <3>3. \A o \in offers' : o.counterparty = p => ~o.openedInGrace
      BY <2>3 DEF CancelAccountDeletion, DeleteOffers, RefusesCommitmentOpenedAt, GraceInv
    <3> QED
      BY <3>1, <3>2, <3>3 DEF GraceInv
  <2>4. ASSUME NEW p \in Players, AccountDeletionReaper(p)
        PROVE  GraceInv'
    <3>1. /\ \A q \in Players \ {p} : account'[q] = account[q]
          /\ account'[p].requestedAt = account[p].requestedAt /\ now' = now
      BY <2>4 DEF AccountDeletionReaper, TypeOK
    <3>2. \A o \in offers' : o \in offers /\ o.counterparty \in Players \ {p}
      BY <2>4 DEF AccountDeletionReaper, ResolveAllLiveInteractions, DeleteOffers, OffersOf,
         Parties, TypeOK, Offer
    <3> QED
      BY <3>1, <3>2 DEF GraceInv
  <2> QED
    BY <1>7, <2>1, <2>2, <2>3, <2>4, <2>5 DEF Identities
<1>8. CASE Tick
  <2>1. now \in Nat /\ \A p \in Players : account[p].requestedAt \in Nat
    BY BoundAssumption DEF TypeOK, BoundAssumption
  <2> QED
    BY <1>8, <2>1 DEF Tick, trading, GraceInv
<1>9. CASE UNCHANGED vars
  BY <1>1, <1>9 DEF vars, trading
<1> QED
  BY <1>4, <1>5, <1>6, <1>7, <1>8, <1>9 DEF Next

(* What is proposed to an account in its grace period is never accepted,    *)
(* whatever that account does next: cancel, reach its end, register again.  *)
THEOREM GraceOffersNeverAcceptedHolds == Spec => []GraceOffersNeverAccepted
<1>1. Init => GraceInv
  BY BoundAssumption DEF Init, GraceInv, BoundAssumption
<1>2. Inv /\ GraceInv /\ [Next]_vars => GraceInv'
  BY GraceStep, BoundAssumption DEF Inv
<1>3. GraceInv => GraceOffersNeverAccepted
  BY DEF GraceInv, GraceOffersNeverAccepted
<1> QED
  BY <1>1, <1>2, <1>3, Invariance, PTL DEF Spec

-----------------------------------------------------------------------------
(* Erasure.  That an erased identity stays empty takes more than the gates: *)
(* it may still be addressed by a proposal, so the invariant says that no   *)
(* offer it is party to gets past Pending.                                  *)

Bare(p) ==
  /\ MonstersOf(p) = {} /\ wallet[p] = 0 /\ BattlesOf(p) = {}
  /\ \A i \in Items : inventory[p][i] = 0
  /\ \A o \in OffersOf(p) : o.status = "Pending" /\ o.counterparty = p

ErasedInv == \A p \in Players : account[p].status = "Terminal" => Bare(p)

LEMMA TradesKeepBare ==
  ASSUME IdentityAssumption, TypeOK, NEW p \in Players, account[p].status = "Terminal", Bare(p),
         Trades
  PROVE  Bare(p)'
<1>1. ASSUME offers' \subseteq offers, UNCHANGED <<battles, assets>>
      PROVE  Bare(p)'
  BY <1>1 DEF Bare, assets, MonstersOf, BattlesOf, OffersOf, Parties
<1>2. ASSUME NEW me \in Players, NEW cp \in Players, NEW give \in Side, NEW want \in Side,
             ProposeTrade(me, cp, give, want)
      PROVE  Bare(p)'
  <2>1. me # p
    BY <1>2 DEF ProposeTrade, IsPendingDeletion
  <2> QED
    BY <1>2, <2>1 DEF ProposeTrade, Bare, assets, MonstersOf, BattlesOf, OffersOf, Parties
<1>3. ASSUME NEW me \in Players, NEW o \in offers, AcceptTrade(me, o)
      PROVE  Bare(p)'
  <2>1. p \notin Parties(o)
    BY <1>3 DEF AcceptTrade, RefusesCommitmentOpenedAt, Bare, OffersOf
  <2>2. \A x \in offers' : x \in offers \/ p \notin Parties(x)
    BY <1>3, <2>1 DEF AcceptTrade, TypeOK, Offer, Parties
  <2> QED
    BY <1>3, <2>2 DEF AcceptTrade, Bare, assets, MonstersOf, BattlesOf, OffersOf, Parties
<1>4. ASSUME NEW me \in Players, NEW o \in offers, ConfirmTrade(me, o)
      PROVE  Bare(p)'
  <2>1. p \notin Parties(o)
    BY <1>4 DEF ConfirmTrade, Bare, OffersOf
  <2>2. /\ offers' \subseteq offers /\ battles' = battles
        /\ wallet'[p] = wallet[p] /\ \A i \in Items : inventory'[p][i] = inventory[p][i]
        /\ \A m \in Monsters : owner'[m] = p => owner[m] = p
    BY <1>4, <2>1 DEF ConfirmTrade, DeleteOffers, Parties
  <2> QED
    BY <2>2 DEF Bare, MonstersOf, BattlesOf, OffersOf, Parties
<1> QED
  BY <1>1, <1>2, <1>3, <1>4 DEF Trades, DeclineTrade, CancelTrade, TradeOfferReaper, DeleteOffers

LEMMA BattlesKeepBare ==
  ASSUME TypeOK, NEW p \in Players, account[p].status = "Terminal", Bare(p), Battles
  PROVE  Bare(p)'
<1>1. \A b \in battles : b.player # p /\ b.player \in Players
  BY DEF Bare, BattlesOf, TypeOK, Battle
<1>2. ASSUME offers' = offers, \A b \in battles' : p \notin {b.player, b.opponent},
             wallet'[p] = wallet[p], \A i \in Items : inventory'[p][i] = inventory[p][i],
             \A m \in Monsters : owner'[m] = p => owner[m] = p
      PROVE  Bare(p)'
  BY <1>2 DEF Bare, MonstersOf, BattlesOf, OffersOf
<1>3. ASSUME NEW x \in Players, NEW party \in SUBSET Monsters, StartWildTactical(x, party)
      PROVE  Bare(p)'
  <2> DEFINE nb == [player |-> x, opponent |-> Wild, party |-> party, opponentParty |-> {}]
  <2>0. battles' = battles \cup {nb}
    BY <1>3 DEF StartWildTactical
  <2>1. \A b \in battles' : b \in battles \/ (b.player = x /\ b.opponent = Wild)
    BY <2>0
  <2>2. x # p
    BY <1>3 DEF StartWildTactical, IsPendingDeletion
  <2> QED
    BY <1>2, <1>3, <2>1, <2>2, IdentityAssumption
       DEF StartWildTactical, assets, trading, Bare, BattlesOf, IdentityAssumption
<1>4. ASSUME NEW x \in Players, NEW y \in Players, NEW party \in SUBSET Monsters,
             NEW opponentParty \in SUBSET Monsters, StartPvpTactical(x, y, party, opponentParty)
      PROVE  Bare(p)'
  <2> DEFINE nb == [player |-> x, opponent |-> y, party |-> party, opponentParty |-> opponentParty]
  <2>0. battles' = battles \cup {nb}
    BY <1>4 DEF StartPvpTactical
  <2>1. \A b \in battles' : b \in battles \/ (b.player = x /\ b.opponent = y)
    BY <2>0
  <2>2. x # p /\ y # p
    BY <1>4 DEF StartPvpTactical, IsPendingDeletion
  <2> QED
    BY <1>2, <1>4, <2>1, <2>2 DEF StartPvpTactical, assets, trading, Bare, BattlesOf
<1>5. ASSUME NEW b \in battles, NEW i \in Items, TakeBait(b, i)
      PROVE  Bare(p)'
  BY <1>1, <1>2, <1>5 DEF TakeBait, ConsumeItem, trading, TypeOK, Bare, BattlesOf
<1>6. ASSUME NEW b \in battles, NEW m \in Monsters, Recruit(b, m)
      PROVE  Bare(p)'
  BY <1>1, <1>2, <1>6 DEF Recruit, trading, TypeOK, Bare, BattlesOf
<1>7. ASSUME NEW b \in battles, NEW pay \in 0..MaxReward, Finish(b, pay)
      PROVE  Bare(p)'
  BY <1>1, <1>2, <1>7 DEF Finish, GrantCurrency, trading, TypeOK, Bare, BattlesOf
<1> QED
  BY <1>3, <1>4, <1>5, <1>6, <1>7 DEF Battles

LEMMA EconomyKeepsBare ==
  ASSUME TypeOK, NEW p \in Players, account[p].status = "Terminal", Bare(p), Economy
  PROVE  Bare(p)'
<1>1. PICK x \in Players :
        \/ \E i \in Items, qty \in 1..MaxReward : Buy(x, i, qty) \/ Sell(x, i, qty)
        \/ HealParty(x)
        \/ \E m \in Monsters, i \in Items : Train(x, m, i)
        \/ \E i \in Items, qty, coins \in 0..MaxReward : AdvanceDialogue(x, i, qty, coins)
  BY DEF Economy
<1>2. x # p
  BY <1>1 DEF Buy, Sell, HealParty, Train, AdvanceDialogue, CanShop, IsPendingDeletion
<1>3. UNCHANGED <<offers, battles, owner>>
  BY <1>1 DEF Buy, Sell, HealParty, Train, AdvanceDialogue, trading
<1>4. wallet'[p] = wallet[p] /\ inventory'[p] = inventory[p]
  BY <1>1, <1>2 DEF Buy, Sell, HealParty, Train, AdvanceDialogue, SpendCurrency, GrantItem,
     ConsumeItem, GrantCurrency, TypeOK
<1> QED
  BY <1>3, <1>4 DEF Bare, MonstersOf, BattlesOf, OffersOf

LEMMA IdentitiesKeepBare ==
  ASSUME IdentityAssumption, BoundAssumption, TypeOK, NEW p \in Players,
         account[p].status = "Terminal" => Bare(p), account'[p].status = "Terminal", Identities
  PROVE  Bare(p)'
<1>1. ASSUME Bare(p), offers' \subseteq offers, battles' \subseteq battles,
             wallet'[p] = wallet[p], inventory'[p] = inventory[p],
             \A m \in Monsters : owner'[m] = p => owner[m] = p
      PROVE  Bare(p)'
  BY <1>1 DEF Bare, MonstersOf, BattlesOf, OffersOf, Parties
<1>2. ASSUME NEW x \in Players, JoinGame(x)
      PROVE  Bare(p)'
  <2>1. account'[p] = account[p] /\ x # p
    BY <1>2 DEF JoinGame, IsPendingDeletion
  <2>2. \A m \in Monsters : owner'[m] = p => owner[m] = p
    BY <1>2, <2>1 DEF JoinGame, TypeOK
  <2> QED
    BY <1>1, <1>2, <2>1, <2>2 DEF JoinGame, trading
<1>3. ASSUME NEW x \in Players, NEW pay \in 0..MaxReward, OnDisconnect(x, pay)
      PROVE  Bare(p)'
  <2>1. Bare(p)
    BY <1>3 DEF OnDisconnect
  <2>2. wallet'[p] = wallet[p]
    <3>1. x = p => pay = 0
      BY <1>3, <2>1 DEF OnDisconnect, Payouts, Bare
    <3>2. wallet' = [wallet EXCEPT ![x] = Granted(@, pay, MaxBalance)]
      BY <1>3 DEF OnDisconnect, GrantCurrency
    <3>3. wallet[p] = 0 /\ MaxBalance \in Nat /\ wallet \in [Players -> 0..MaxBalance]
      BY <2>1, BoundAssumption DEF Bare, TypeOK, BoundAssumption
    <3>4. Granted(0, 0, MaxBalance) = 0
      BY <3>3 DEF Granted
    <3> QED
      BY <3>1, <3>2, <3>3, <3>4
  <2> QED
    BY <1>1, <1>3, <2>1, <2>2 DEF OnDisconnect, ResolveAllLiveInteractions, DeleteOffers
<1>4. ASSUME NEW x \in Players,
             ProvisionAccount(x) \/ DeleteAccount(x) \/ CancelAccountDeletion(x)
      PROVE  Bare(p)'
  <2>1. account[p].status = "Terminal"
    <3>1. CASE x = p
      BY <1>4, <3>1 DEF ProvisionAccount, DeleteAccount, CancelAccountDeletion, TypeOK
    <3>2. CASE x # p
      BY <1>4, <3>2 DEF ProvisionAccount, DeleteAccount, CancelAccountDeletion, TypeOK
    <3> QED
      BY <3>1, <3>2
  <2> QED
    BY <1>1, <1>4, <2>1 DEF ProvisionAccount, DeleteAccount, CancelAccountDeletion, DeleteOffers,
       assets, trading
<1>5. ASSUME NEW x \in Players, AccountDeletionReaper(x)
      PROVE  Bare(p)'
  <2>1. CASE x = p
    BY <1>5, <2>1, IdentityAssumption
       DEF AccountDeletionReaper, ResolveAllLiveInteractions, DeleteOffers, Bare, MonstersOf,
           BattlesOf, OffersOf, TypeOK, IdentityAssumption
  <2>2. CASE x # p
    BY <1>1, <1>5, <2>2, IdentityAssumption
       DEF AccountDeletionReaper, ResolveAllLiveInteractions, DeleteOffers, TypeOK,
           IdentityAssumption
  <2> QED
    BY <2>1, <2>2
<1>6. ASSUME NEW x \in Players, NEW guest \in Players, CompleteGuestClaim(x, guest)
      PROVE  Bare(p)'
  <2>1. account[p].status = "Terminal" /\ x # p /\ x # guest
    <3>1. /\ account' = [account EXCEPT ![x].claimed = TRUE] /\ x # guest
          /\ account[x].status = "Active"
      BY <1>6 DEF CompleteGuestClaim
    <3>2. account'[p].status = account[p].status
      BY <3>1 DEF TypeOK
    <3> QED
      BY <3>1, <3>2
  <2>2. wallet'[p] = 0 /\ \A i \in Items : inventory'[p][i] = 0
    BY <1>6, <2>1 DEF CompleteGuestClaim, Rekeyed, TypeOK, Bare
  <2>3. \A m \in Monsters : owner'[m] = p => owner[m] = p
    BY <1>6, <2>1 DEF CompleteGuestClaim
  <2> QED
    BY <1>6, <2>1, <2>2, <2>3
       DEF CompleteGuestClaim, trading, Bare, MonstersOf, BattlesOf, OffersOf
<1> QED
  BY <1>2, <1>3, <1>4, <1>5, <1>6 DEF Identities

LEMMA ErasedStep ==
  ASSUME IdentityAssumption, BoundAssumption, TypeOK, ErasedInv, [Next]_vars
  PROVE  ErasedInv'
<1> SUFFICES ASSUME NEW p \in Players, account'[p].status = "Terminal"
             PROVE  Bare(p)'
  BY DEF ErasedInv
<1>1. account[p].status = "Terminal" => Bare(p)
  BY DEF ErasedInv
<1>2. CASE Trades \/ Battles \/ Economy \/ Tick \/ UNCHANGED vars
  <2>1. account' = account
    BY <1>2 DEF Trades, ProposeTrade, DeclineTrade, AcceptTrade, ConfirmTrade, CancelTrade,
       TradeOfferReaper, Battles, StartWildTactical, StartPvpTactical, TakeBait, Recruit, Finish,
       Economy, Buy, Sell, HealParty, Train, AdvanceDialogue, Tick, vars
  <2>2. CASE Tick \/ UNCHANGED vars
    BY <2>1, <2>2, <1>1 DEF Tick, vars, assets, trading, Bare, MonstersOf, BattlesOf, OffersOf
  <2> QED
    BY <1>1, <1>2, <2>1, <2>2, TradesKeepBare, BattlesKeepBare, EconomyKeepsBare
<1>3. CASE Identities
  BY <1>1, <1>3, IdentitiesKeepBare
<1> QED
  BY <1>2, <1>3 DEF Next

(* An erased identity owns nothing, and nothing ever finds its way back to  *)
(* it before it registers again.                                            *)
THEOREM ErasedOwnsNothingHolds == Spec => []ErasedOwnsNothing
<1>1. Init => ErasedInv
  BY DEF Init, ErasedInv
<1>2. Inv /\ ErasedInv /\ [Next]_vars => ErasedInv'
  BY ErasedStep, IdentityAssumption, BoundAssumption DEF Inv
<1>3. ErasedInv => ErasedOwnsNothing
  BY DEF ErasedInv, Bare, ErasedOwnsNothing
<1> QED
  BY <1>1, <1>2, <1>3, Invariance, PTL DEF Spec
=============================================================================
