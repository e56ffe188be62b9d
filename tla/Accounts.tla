------------------------------ MODULE Accounts ------------------------------
(***************************************************************************)
(* Who is connected, who plays, and whose a saved game is: the session     *)
(* rows kept per socket, the hand-over of a guest's save to an account by  *)
(* a claim code, and the two schedules behind it, the expiry of codes and  *)
(* the erasure of accounts after a period of grace.                        *)
(*                                                                         *)
(* An action is one committed reducer or connection hook.  Interleaved are *)
(* several sockets of one identity, two people who hold the same code, the *)
(* scheduler's rows, and a publisher who upgrades the module.  A save      *)
(* stands for all game data of one identity (its rows one by one, battles  *)
(* and offers are in Trading).                                             *)
(***************************************************************************)
EXTENDS Naturals, Sequences, FiniteSets

CONSTANTS
  Guests,     \* identities whose token no allowed issuer signed
  Holders,    \* identities that sign in: an account row on first connection
  Sockets,    \* connection ids
  Codes,      \* claim codes clients mint
  Saves,      \* saves ever started
  None,       \* nobody: a closed socket, a guest with no claim in flight
  Unborn,     \* owner of a save not started yet
  Erased,     \* owner of a save a deletion destroyed
  ClaimTTL,   \* CLAIM_TTL_MS
  Grace,      \* DELETION_GRACE_MS_DEFAULT
  Early,      \* how far the clock may read before the time a row fired for
  Legacy,     \* accounts pending since before the deletion schedule existed
  MaxNow      \* bound: the clock stops here

Identities == Guests \cup Holders

ASSUME AccountIdentities ==
  /\ Guests \cap Holders = {} /\ Legacy \subseteq Holders
  /\ {None, Unborn, Erased} \cap Identities = {} /\ Unborn # Erased

ASSUME AccountBounds ==
  /\ ClaimTTL \in Nat \ {0} /\ Grace \in Nat \ {0}
  /\ Early \in Nat /\ MaxNow \in Nat

VARIABLES
  now,              \* ctx.timestamp in ms
  open,             \* the connections the host knows, with their identity
  session,          \* the `player_session` table, by connection id
  player,           \* the `player` table: identities in the game
  holder,           \* whose a save is
  account,          \* the `account` table
  claim,            \* the `guest_claim` table, by guest identity
  claimReapers,     \* fire times of a guest's guest_claim_reaper_schedule rows
  deletionReapers,  \* and of an account's account_deletion_reaper_schedule rows
  synced            \* sync_content ran since the schedule was introduced

presence == <<open, session, player>>
claims == <<claim, claimReapers>>
vars == <<now, presence, holder, account, claims, deletionReapers, synced>>

-----------------------------------------------------------------------------
Account == [status : {"None", "Active", "PendingDeletion", "Terminal"},
            requestedAt : Nat, claimed : BOOLEAN]
Claim == [code : Codes, expiresAt : Nat]

ASSUME NobodyIsNoClaim == None \notin Claim

NewAccount(status) == [status |-> status, requestedAt |-> 0, claimed |-> FALSE]

(* A reducer is called over an open connection.                             *)
Connected(p) == \E c \in Sockets : open[c] = p

SavesOf(p) == {s \in Saves : holder[s] = p}
Pending(p) == p \in Holders /\ account[p].status = "PendingDeletion"
IsPendingDeletion(p) == p \in Holders /\ account[p].status \in {"PendingDeletion", "Terminal"}

(* The schedule: a due row is deleted by the firing itself.                 *)
Due(at) == at <= now + Early
Unfired(rows, i) == SubSeq(rows, 1, i - 1) \o SubSeq(rows, i + 1, Len(rows))

Init ==
  /\ now = 0
  /\ open = [c \in Sockets |-> None]
  /\ session = [c \in Sockets |-> None]
  /\ player = {}
  /\ holder = [s \in Saves |-> Unborn]
  /\ account = [p \in Holders |->
       NewAccount(IF p \in Legacy THEN "PendingDeletion" ELSE "None")]
  /\ claim = [g \in Guests |-> None]
  /\ claimReapers = [g \in Guests |-> <<>>]
  /\ deletionReapers = [p \in Holders |-> <<>>]
  /\ synced = (Legacy = {})

-----------------------------------------------------------------------------
(* Sessions.                                                                *)

(* The session is recorded for everyone, before a token is looked at.       *)
SessionOpened_SignedInOnly(c, p) ==
  IF p \in Holders THEN [session EXCEPT ![c] = p] ELSE session
SessionOpened(c, p) == [session EXCEPT ![c] = p]

(* An erased account starts over; any other keeps its row.                  *)
OnConnect(c, p) ==
  /\ open[c] = None
  /\ open' = [open EXCEPT ![c] = p]
  /\ session' = SessionOpened(c, p)
  /\ account' = IF p \in Holders /\ account[p].status \in {"None", "Terminal"}
                THEN [account EXCEPT ![p] = NewAccount("Active")]
                ELSE account
  /\ UNCHANGED <<now, player, holder, claims, deletionReapers, synced>>

(* Has me another connection on record, once this one's row is gone?        *)
HasLiveSession_OwnRowStill(c, me) == \E d \in Sockets : session[d] = me
HasLiveSession(c, me) == \E d \in Sockets \ {c} : session[d] = me

OnDisconnect(c) ==
  /\ open[c] # None
  /\ open' = [open EXCEPT ![c] = None]
  /\ session' = [session EXCEPT ![c] = None]
  /\ player' = IF HasLiveSession(c, open[c]) THEN player ELSE player \ {open[c]}
  /\ UNCHANGED <<now, holder, account, claims, deletionReapers, synced>>

(* Joining starts a save for whoever has none.                              *)
JoinGame(p) ==
  /\ Connected(p) /\ ~IsPendingDeletion(p) /\ p \notin player
  /\ player' = player \cup {p}
  /\ \/ SavesOf(p) # {} /\ UNCHANGED holder
     \/ /\ SavesOf(p) = {}
        /\ \E s \in SavesOf(Unborn) : holder' = [holder EXCEPT ![s] = p]
  /\ UNCHANGED <<now, open, session, account, claims, deletionReapers, synced>>

-----------------------------------------------------------------------------
(* Guest claims.                                                            *)

GuestsWithCode(code) == {g \in Guests : claim[g] # None /\ claim[g].code = code}

ClaimIsExpired(at) == now >= at

(* A new claim disarms the one it replaces before it arms its own.          *)
Replaced(g, at) == [claimReapers EXCEPT ![g] = <<at>>]

(* The code column is unique: a code another guest holds aborts the call.   *)
StartGuestClaim(g, code) ==
  /\ Connected(g) /\ g \in player
  /\ GuestsWithCode(code) \subseteq {g}
  /\ now + ClaimTTL <= MaxNow
  /\ claim' = [claim EXCEPT ![g] = [code |-> code, expiresAt |-> now + ClaimTTL]]
  /\ claimReapers' = Replaced(g, now + ClaimTTL)
  /\ UNCHANGED <<now, presence, holder, account, deletionReapers, synced>>

(* Guards 9 and 11.                                                         *)
GuestHasLeft_Unchecked(g) == TRUE
GuestHasLeft(g) == g \notin player
OwnsNothing(me) == SavesOf(me) = {}

CompleteGuestClaim(me, code) ==
  /\ Connected(me)
  /\ account[me].status = "Active" /\ ~account[me].claimed
  /\ \E g \in GuestsWithCode(code) :
       /\ ~ClaimIsExpired(claim[g].expiresAt)
       /\ GuestHasLeft(g) /\ OwnsNothing(me)
       /\ holder' = [s \in Saves |-> IF holder[s] = g THEN me ELSE holder[s]]
       /\ claim' = [claim EXCEPT ![g] = None]
       /\ claimReapers' = [claimReapers EXCEPT ![g] = <<>>]
  /\ account' = [account EXCEPT ![me].claimed = TRUE]
  /\ UNCHANGED <<now, presence, deletionReapers, synced>>

GuestClaimReaper(g, i) ==
  /\ Due(claimReapers[g][i])
  /\ claimReapers' = [claimReapers EXCEPT ![g] = Unfired(@, i)]
  /\ claim' = IF claim[g] # None /\ ClaimIsExpired(claim[g].expiresAt)
              THEN [claim EXCEPT ![g] = None]
              ELSE claim
  /\ UNCHANGED <<now, presence, holder, account, deletionReapers, synced>>

-----------------------------------------------------------------------------
(* Deletion.                                                                *)

FireAt(p) == account[p].requestedAt + Grace

DeleteAccount(p) ==
  /\ Connected(p) /\ account[p].status = "Active"
  /\ now + Grace <= MaxNow
  /\ account' = [account EXCEPT ![p].status = "PendingDeletion", ![p].requestedAt = now]
  /\ deletionReapers' = [deletionReapers EXCEPT ![p] = Append(@, now + Grace)]
  /\ UNCHANGED <<now, presence, holder, claims, synced>>

Disarmed(p) == [deletionReapers EXCEPT ![p] = <<>>]

CancelAccountDeletion(p) ==
  /\ Connected(p) /\ Pending(p)
  /\ account' = [account EXCEPT ![p].status = "Active", ![p].requestedAt = 0]
  /\ deletionReapers' = Disarmed(p)
  /\ UNCHANGED <<now, presence, holder, claims, synced>>

(* Which rows are left when row i of p has fired: one that fired before its *)
(* request is due is armed anew, from the request's own stamp.              *)
ShouldRunCascade(p) == Pending(p) /\ FireAt(p) <= now
Rearmed_Dropped(p, i) == Unfired(deletionReapers[p], i)
Rearmed(p, i) ==
  IF Pending(p) /\ ~ShouldRunCascade(p)
  THEN Append(Unfired(deletionReapers[p], i), FireAt(p))
  ELSE Unfired(deletionReapers[p], i)

(* Erasure leaves the player row of a subject who is connected, and its     *)
(* sockets open; it takes their session rows.                               *)
SessionsErased(p) == [c \in Sockets |-> IF session[c] = p THEN None ELSE session[c]]

Cascade(p) ==
  /\ holder' = [s \in Saves |-> IF holder[s] = p THEN Erased ELSE holder[s]]
  /\ session' = SessionsErased(p)
  /\ account' = [account EXCEPT ![p].status = "Terminal"]

AccountDeletionReaper(p, i) ==
  /\ Due(deletionReapers[p][i])
  /\ deletionReapers' = [deletionReapers EXCEPT ![p] = Rearmed(p, i)]
  /\ IF ShouldRunCascade(p) THEN Cascade(p) ELSE UNCHANGED <<holder, session, account>>
  /\ UNCHANGED <<now, open, player, claims, synced>>

(* The publisher's sync arms the pending accounts that have no row.         *)
SyncContent ==
  /\ synced' = TRUE
  /\ deletionReapers' = [p \in Holders |->
       IF Pending(p) /\ deletionReapers[p] = <<>>
       THEN <<FireAt(p)>> ELSE deletionReapers[p]]
  /\ UNCHANGED <<now, presence, holder, account, claims>>

Tick ==
  /\ now < MaxNow /\ now' = now + 1
  /\ UNCHANGED <<presence, holder, account, claims, deletionReapers, synced>>

-----------------------------------------------------------------------------
Connections ==
  \/ \E c \in Sockets, p \in Identities : OnConnect(c, p)
  \/ \E c \in Sockets : OnDisconnect(c)
  \/ \E p \in Identities : JoinGame(p)

Claims ==
  \/ \E g \in Guests, code \in Codes : StartGuestClaim(g, code)
  \/ \E me \in Holders, code \in Codes : CompleteGuestClaim(me, code)
  \/ \E g \in Guests : \E i \in DOMAIN claimReapers[g] : GuestClaimReaper(g, i)

Deletions ==
  \/ \E p \in Holders : DeleteAccount(p) \/ CancelAccountDeletion(p)
  \/ \E p \in Holders : \E i \in DOMAIN deletionReapers[p] : AccountDeletionReaper(p, i)
  \/ SyncContent

Next == Connections \/ Claims \/ Deletions \/ Tick

Spec == Init /\ [][Next]_vars

(* Time passes, and the host fires every row at some time at or after its   *)
(* own (whatever it did before).  Nobody has to call anything.              *)
Fairness ==
  /\ WF_vars(Tick)
  /\ \A g \in Guests : WF_vars(\E i \in DOMAIN claimReapers[g] :
       claimReapers[g][i] <= now /\ GuestClaimReaper(g, i))
  /\ \A p \in Holders : WF_vars(\E i \in DOMAIN deletionReapers[p] :
       deletionReapers[p][i] <= now /\ AccountDeletionReaper(p, i))

FairSpec == Spec /\ Fairness

-----------------------------------------------------------------------------
(* The tables hold what their columns may hold.                             *)
TypeOK ==
  /\ now \in Nat
  /\ open \in [Sockets -> Identities \cup {None}]
  /\ session \in [Sockets -> Identities \cup {None}]
  /\ player \subseteq Identities
  /\ holder \in [Saves -> Identities \cup {Unborn, Erased}]
  /\ account \in [Holders -> Account]
  /\ claim \in [Guests -> Claim \cup {None}]
  /\ claimReapers \in [Guests -> Seq(Nat)]
  /\ deletionReapers \in [Holders -> Seq(Nat)]
  /\ synced \in BOOLEAN

(* Nobody stands in the world without a connection: however the sockets of  *)
(* an identity come and go, and whatever an erasure did to their rows, the  *)
(* last one to close takes the player row with it (on_disconnect).          *)
PresenceIsConnected == \A p \in player : Connected(p)

(* An erased account's open sockets lose their session rows.                *)
Forgotten(c) == open[c] # None /\ session[c] # open[c]
IsErased(p) == p \in Holders /\ account[p].status = "Terminal"

(* Closing a tab throws nobody out of the game while another tab of the     *)
(* same identity is open (the check in on_disconnect, on the rows that      *)
(* on_connect writes), with one exception, which guests never meet: the     *)
(* other tab was open when its account was erased (erase_player_sessions).  *)
(* Nothing else takes the row of an open tab.                               *)
OnlyErasureForgetsTabs ==
  [][/\ \A p \in player \ player', c \in Sockets : open'[c] = p => p \in Holders /\ Forgotten(c)
     /\ \A c \in Sockets : Forgotten(c)' => Forgotten(c) \/ IsErased(open[c])']_vars

(* Two playthroughs never end up with one identity: neither joining twice   *)
(* nor claiming merges saves (complete_guest_claim's guard 11, join_game).  *)
OneSave == \A s, t \in Saves :
  holder[s] = holder[t] /\ holder[s] \in Identities => s = t

(* A guest who is in the game has a save: it is not claimed away under its  *)
(* feet, in another tab (guard 9).                                          *)
PresentGuestsHaveSaves == \A g \in player \cap Guests : SavesOf(g) # {}

(* Saves are neither merged nor taken from a guest in the game.             *)
SavesAreSafe == OneSave /\ PresentGuestsHaveSaves

(* A claim has one armed reaper, at its own expiry, and no reaper outlives  *)
(* its claim: neither after completion, nor after replacement.  Only a row  *)
(* that fired ahead of its time may leave a claim without one.              *)
ClaimReapersMatch == \A g \in Guests :
  \/ claim[g] = None /\ claimReapers[g] = <<>>
  \/ claim[g] # None /\ claimReapers[g] = <<claim[g].expiresAt>>
  \/ claim[g] # None /\ claimReapers[g] = <<>> /\ Early > 0

(* An account is armed exactly while its deletion is pending, once and for  *)
(* the request's own time, through cancels, new requests, early firings and *)
(* repeated syncs; only an account older than the schedule may lack its     *)
(* row, until the first sync.                                               *)
DeletionReapersMatch == \A p \in Holders :
  \/ ~Pending(p) /\ deletionReapers[p] = <<>>
  \/ Pending(p) /\ deletionReapers[p] = <<FireAt(p)>>
  \/ Pending(p) /\ deletionReapers[p] = <<>> /\ ~synced /\ p \in Legacy

(* Until its owner connects again, an erased account has no save and no     *)
(* session row, even if it was playing when it was erased.                  *)
TerminalHoldsNothing == \A p \in Holders : account[p].status = "Terminal" =>
  SavesOf(p) = {} /\ \A c \in Sockets : session[c] # p

(* Whoever is in the world is connected, whoever was erased is not in it,   *)
(* and who is to be erased is armed for it: presence, session rows, saves   *)
(* and deletions agree through every order of connections, claims and       *)
(* erasures.                                                                *)
PresenceWellFormed ==
  TypeOK /\ PresenceIsConnected /\ TerminalHoldsNothing /\ DeletionReapersMatch

(* A pending deletion ends, in erasure or by a cancel, although a row may   *)
(* fire ahead of its time any number of times (the reaper's re-arm).        *)
DeletionEnds == \A p \in Holders : synced /\ Pending(p) ~> ~Pending(p)

(* A code goes away, used, replaced or forgotten (guest_claim_reaper),      *)
(* unless its one row fired ahead of its time: unlike the deletion reaper,  *)
(* this one does not arm another.                                           *)
CodesEnd == \A g \in Guests : \A t \in 0..MaxNow :
  LET Kept == claim[g] # None /\ claim[g].expiresAt = t
  IN Kept /\ claimReapers[g] # <<>> ~> ~Kept \/ (claimReapers[g] = <<>> /\ now < t)

(* What was asked for ends: every pending deletion and every code.          *)
RequestsEnd == DeletionEnds /\ CodesEnd
=============================================================================
