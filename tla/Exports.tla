------------------------------ MODULE Exports -------------------------------
(***************************************************************************)
(* A player's copy of their data: the chunks of one request in the table   *)
(* `export_bundle`, the ceiling under which a request is admitted, and the *)
(* hourly sweep that retires what is a week old.                           *)
(*                                                                         *)
(* What is copied moves underneath: rows come and go in play, offers and   *)
(* battles have two parties, a guest's save passes to an account, and an   *)
(* account is erased while others still hold copies that name it.          *)
(*                                                                         *)
(* The clock is the origin of time: a stamp is how far it lies ahead of    *)
(* now, so a tick lowers every stamp by one and no bound on time is needed.*)
(***************************************************************************)
EXTENDS Integers, Sequences, FiniteSets

CONSTANTS
  Guests, Holders,
  Nobody,       \* no party: the wild's side of a battle
  Tombstone,    \* TOMBSTONE_IDENTITY
  ChunkRows,    \* EXPORT_CHUNK_ROWS
  Cooldown,     \* EXPORT_REQUEST_COOLDOWN_MS
  Probe,        \* EXPORT_STAMP_PROBE_WINDOW_MS
  TTL,          \* EXPORT_BUNDLE_TTL_MS
  MaxRead,      \* EXPORT_REAP_MAX_READ_PER_TICK
  MaxStamps,    \* EXPORT_REAP_MAX_STAMPS_PER_TICK
  LiveCap,      \* EXPORT_LIVE_ROW_CAP
  MaxRows,      \* bound: rows of one kind a player has
  MaxDeals,     \* bound: offers and battles at a time
  Lag           \* bound: how long a due bundle may wait for the sweep

Identities == Guests \cup Holders
Parties == Identities \cup {Nobody, Tombstone}

ASSUME ExportIdentities ==
  /\ Guests \cap Holders = {} /\ {Nobody, Tombstone} \cap Identities = {}

ASSUME ExportBounds ==
  /\ {ChunkRows, Probe, TTL, MaxRead, MaxStamps, MaxRows} \subseteq Nat \ {0}
  /\ {Cooldown, LiveCap, MaxDeals, Lag} \subseteq Nat

VARIABLES
  account,  \* status of the account row, "None" without one
  player,   \* the `player` table
  wallet,   \* identities with a `player_wallet` row
  own,      \* how many rows a player has that name nobody else
  deals,    \* `trade_offer` and `battle` rows
  chunks,   \* the `export_bundle` table
  sweeps    \* how many rows export_bundle_reaper_schedule has

people == <<account, player, wallet>>
vars == <<people, own, deals, chunks, sweeps>>

-----------------------------------------------------------------------------
(* The tables a copy has, in the manifest's order; a kind stands for the    *)
(* tables that are read the same way.                                       *)
Exportable == <<"own", "offer", "battle">>

Deal == [kind : {"offer", "battle"}, a : Identities \cup {Tombstone}, b : Parties]
PartyOf(p, d) == p \in {d.a, d.b}
RowsOf(p, t) == {d \in deals : d.kind = t /\ PartyOf(p, d)}
RowCount(p, t) == IF t = "own" THEN own[p] ELSE Cardinality(RowsOf(p, t))

(* Whom a serialised row names: an offer both parties, a battle only the    *)
(* one who asks.                                                            *)
Names(p, t) ==
  {p} \cup IF t = "offer" THEN UNION {{d.a, d.b} : d \in RowsOf(p, t)} ELSE {}

(* A table fills as many chunks as its rows need, and one when it has none. *)
ChunkCount(p, t) ==
  LET n == RowCount(p, t) IN IF n = 0 THEN 1 ELSE (n + ChunkRows - 1) \div ChunkRows

(* The chunks of tables 1 .. k.                                             *)
Upto(p, k) ==
  LET n(i) == IF i <= k THEN ChunkCount(p, Exportable[i]) ELSE 0 IN n(1) + n(2) + n(3)

PlanExportChunks(p, stamp) ==
  LET total == Upto(p, 3)
      TableOf(i) == Exportable[CHOOSE k \in 1 .. 3 : Upto(p, k - 1) <= i /\ i < Upto(p, k)]
  IN {[owner |-> p, stamp |-> stamp, index |-> i, total |-> total, names |-> Names(p, TableOf(i))]
        : i \in 0 .. total - 1}

-----------------------------------------------------------------------------
ChunksOf(p) == {c \in chunks : c.owner = p}
Stamps(cs) == {c.stamp : c \in cs}
IsPendingDeletion(p) == p \in Holders /\ account[p] \in {"PendingDeletion", "Terminal"}
IsAccountHolder(p) == p \in Holders /\ account[p] # "None"

Purged(p) == chunks \ ChunksOf(p)

(* None asked before, or long enough ago.                                   *)
CooldownElapsed(p) == \A s \in Stamps(ChunksOf(p)) : 0 - s >= Cooldown

MinBundleRows == Len(Exportable)

(* The ceiling by what the caller has invested.                             *)
LiveRowCap(p) ==
  IF IsAccountHolder(p) THEN LiveCap
  ELSE IF p \in wallet THEN LiveCap \div 2 ELSE (LiveCap \div 2) \div 2

AdmissionOpen_Smallest(live, requested, cap) == Cardinality(live) + MinBundleRows <= cap
AdmissionOpen(live, requested, cap) == Cardinality(live) + requested <= cap

(* The first millisecond from now on that no live row carries.              *)
MintedStamp_Now(live) == {0}
MintedStamp(live) ==
  LET free == {s \in 0 .. Probe - 1 : s \notin Stamps(live)}
  IN {s \in free : \A r \in free : s <= r}

(* The schedule keeps one row: armed where there is none, spares deleted.   *)
Armed_DeletesAll(n) == IF n = 0 THEN 1 ELSE 0
Armed(n) == 1

Init ==
  /\ account = [p \in Holders |-> "None"] /\ player = {} /\ wallet = {}
  /\ own = [p \in Identities |-> 0] /\ deals = {} /\ chunks = {}
  /\ sweeps \in {0, 1}

(* The purge, the stamp and both gates are one transaction.                 *)
RequestDataExport(p) ==
  LET live == Purged(p)
      cap == LiveRowCap(p)
  IN /\ IsAccountHolder(p) \/ p \in player
     /\ ~IsPendingDeletion(p)
     /\ CooldownElapsed(p)
     /\ AdmissionOpen(live, MinBundleRows, cap)
     /\ \E stamp \in MintedStamp(live) :
          LET plan == PlanExportChunks(p, stamp) IN
          /\ AdmissionOpen(live, Cardinality(plan), cap)
          /\ chunks' = live \cup plan
     /\ sweeps' = Armed(sweeps)
     /\ UNCHANGED <<people, own, deals>>

-----------------------------------------------------------------------------
(* The sweep: a window of expired rows is read in the order of their stamps *)
(* and every bundle it touches is deleted whole.                            *)
Expired(s) == 0 - s >= TTL
Read(cs) ==
  {s \in Stamps(cs) : Expired(s) /\ Cardinality({c \in cs : c.stamp < s}) < MaxRead}
PlanExportReapStamps(cs) ==
  {s \in Read(cs) : Cardinality({r \in Read(cs) : r < s}) < MaxStamps}

Reaped(cs) == {c \in cs : c.stamp \in PlanExportReapStamps(cs)}

ExportBundleReaper ==
  /\ sweeps > 0
  /\ chunks' = chunks \ Reaped(chunks)
  /\ UNCHANGED <<people, own, deals, sweeps>>

(* A publisher's sync arms the sweep like a request does.                   *)
SyncContent ==
  /\ sweeps' = Armed(sweeps)
  /\ UNCHANGED <<people, own, deals, chunks>>

-----------------------------------------------------------------------------
(* What the copies are of.                                                  *)
JoinGame(p) ==
  /\ p \in Holders => account[p] = "Active"
  /\ player' = player \cup {p}
  /\ own' = [own EXCEPT ![p] = IF own[p] = 0 THEN 1 ELSE own[p]]
  /\ UNCHANGED <<account, wallet, deals, chunks, sweeps>>

OnConnect(p) ==
  /\ account[p] \in {"None", "Terminal"}
  /\ account' = [account EXCEPT ![p] = "Active"]
  /\ UNCHANGED <<player, wallet, own, deals, chunks, sweeps>>

WithoutOffers(p) == {d \in deals : d.kind = "offer" => ~PartyOf(p, d)}

OnDisconnect(p) ==
  /\ p \in player
  /\ player' = player \ {p}
  /\ deals' = WithoutOffers(p)
  /\ UNCHANGED <<account, wallet, own, chunks, sweeps>>

(* Play: monsters, items and quests come and go; currency is earned.        *)
Play(p) ==
  /\ p \in player /\ ~IsPendingDeletion(p)
  /\ \E n \in 1 .. MaxRows : own' = [own EXCEPT ![p] = n]
  /\ wallet' \in {wallet, wallet \cup {p}}
  /\ UNCHANGED <<account, player, deals, chunks, sweeps>>

(* An offer to somebody, or a battle against somebody or the wild.          *)
Begin(p) ==
  /\ p \in player /\ ~IsPendingDeletion(p)
  /\ Cardinality(deals) < MaxDeals
  /\ \E d \in Deal :
       /\ d.a = p /\ d.b \in {q \in player : q # p /\ ~IsPendingDeletion(q)} \cup {Nobody}
       /\ d.kind = "offer" => d.b # Nobody
       /\ deals' = deals \cup {d}
  /\ UNCHANGED <<people, own, chunks, sweeps>>

(* An offer is answered or expires; a battle is swept a day after its end.  *)
End ==
  /\ \E d \in deals : deals' = deals \ {d}
  /\ UNCHANGED <<people, own, chunks, sweeps>>

(* An account without data takes over what a guest who left owned; the      *)
(* guest's copy is deleted, battles stay with the guest.                    *)
CompleteGuestClaim(p, guest) ==
  /\ account[p] = "Active" /\ own[p] = 0 /\ p \notin wallet
  /\ guest \notin player /\ own[guest] > 0
  /\ own' = [own EXCEPT ![p] = own[guest], ![guest] = 0]
  /\ wallet' = IF guest \in wallet THEN (wallet \ {guest}) \cup {p} ELSE wallet
  /\ chunks' = Purged(guest)
  /\ UNCHANGED <<account, player, deals, sweeps>>

DeleteAccount(p) ==
  /\ account[p] = "Active"
  /\ account' = [account EXCEPT ![p] = "PendingDeletion"]
  /\ UNCHANGED <<player, wallet, own, deals, chunks, sweeps>>

CancelAccountDeletion(p) ==
  /\ account[p] = "PendingDeletion"
  /\ account' = [account EXCEPT ![p] = "Active"]
  /\ UNCHANGED <<player, wallet, own, deals, chunks, sweeps>>

(* The cascade: rows are erased, a battle keeps its row without the name.   *)
Anonymized(p, d) ==
  [d EXCEPT !.a = IF @ = p THEN Tombstone ELSE @, !.b = IF @ = p THEN Tombstone ELSE @]

AccountDeletionReaper(p) ==
  /\ account[p] = "PendingDeletion"
  /\ account' = [account EXCEPT ![p] = "Terminal"]
  /\ wallet' = wallet \ {p}
  /\ own' = [own EXCEPT ![p] = 0]
  /\ deals' = {Anonymized(p, d) : d \in WithoutOffers(p)}
  /\ chunks' = Purged(p)
  /\ UNCHANGED <<player, sweeps>>

(* A millisecond passes.                                                    *)
Tick ==
  /\ \A s \in Stamps(chunks) : s > 0 - (TTL + Lag)
  /\ chunks # {}
  /\ chunks' = {[c EXCEPT !.stamp = @ - 1] : c \in chunks}
  /\ UNCHANGED <<people, own, deals, sweeps>>

Next ==
  \/ \E p \in Identities : RequestDataExport(p)
  \/ ExportBundleReaper
  \/ SyncContent
  \/ \E p \in Identities : JoinGame(p) \/ OnDisconnect(p) \/ Play(p) \/ Begin(p)
  \/ \E p \in Holders :
       \/ OnConnect(p) \/ DeleteAccount(p) \/ CancelAccountDeletion(p) \/ AccountDeletionReaper(p)
       \/ \E g \in Guests : CompleteGuestClaim(p, g)
  \/ End
  \/ Tick

Spec == Init /\ [][Next]_vars
FairSpec == Spec /\ WF_vars(ExportBundleReaper) /\ WF_vars(Tick)

-----------------------------------------------------------------------------
TypeOK ==
  /\ account \in [Holders -> {"None", "Active", "PendingDeletion", "Terminal"}]
  /\ player \subseteq Identities /\ wallet \subseteq Identities
  /\ own \in [Identities -> 0 .. MaxRows]
  /\ deals \subseteq Deal
  /\ sweeps \in {0, 1}

(* A stamp stands for one request: its chunks are all there, numbered       *)
(* without a gap, and its owner has no other.                               *)
BundlesAreWhole ==
  \A c \in chunks :
    LET bundle == {d \in chunks : d.stamp = c.stamp} IN
    /\ ChunksOf(c.owner) = bundle
    /\ {d.index : d \in bundle} = 0 .. c.total - 1
    /\ Cardinality(bundle) = c.total

(* A copy never waits for a sweep nobody has scheduled.                     *)
SweepIsArmed == chunks # {} => sweeps > 0

(* The export table holds nothing but whole copies, one for each player,    *)
(* and the sweep that retires them is armed, whatever is requested, swept,  *)
(* claimed and erased in one millisecond.                                   *)
BundlesWellFormed == TypeOK /\ BundlesAreWhole /\ SweepIsArmed

(* Whoever holds an account finds half of the ceiling free of the copies of *)
(* those who do not, and whoever has earned something half of the rest.     *)
SharesHold ==
  LET rows(who) == Cardinality({c \in chunks : c.owner \in who})
      anonymous == {p \in Identities : ~IsAccountHolder(p)}
  IN /\ rows(Identities) <= LiveCap
     /\ rows(anonymous) <= LiveCap \div 2
     /\ rows(anonymous \ wallet) <= (LiveCap \div 2) \div 2

(* What was erased is in the end forgotten by the copies of others too,     *)
(* unless its account is opened afresh.                                     *)
ErasedIsForgotten ==
  \A p \in Holders :
    account[p] = "Terminal" ~>
      account[p] # "Terminal" \/ (\A c \in chunks : p \notin c.names)
=============================================================================
