---------------------------- MODULE ClaimingProofs ----------------------------
(***************************************************************************)
(* Proofs about Accounts, and about Claiming, the browser's tab on top of  *)
(* it, for any identities, sockets, codes, saves and times.                *)
(*                                                                         *)
(* Of Accounts: presence follows connections, saves neither merge nor go   *)
(* missing, and the two schedules agree with the rows they serve.  Of      *)
(* Claiming: the tab only ever takes steps of Accounts, so what is proved  *)
(* there holds here too; it starts no game of its own for an account whose *)
(* claim would still bring the guest's; and no answer, however late, takes *)
(* a code away from it that works.                                         *)
(***************************************************************************)
EXTENDS Claiming, TLAPS

(* A session row names the identity of an open socket, and a guest's socket *)
(* always has one: only erasure removes rows of open sockets.               *)
SessionsInv ==
  /\ \A c \in Sockets : session[c] # None => session[c] = open[c]
  /\ \A c \in Sockets : open[c] \in Guests => session[c] = open[c]

SavesInv == OneSave /\ PresentGuestsHaveSaves

SchedulesInv == ClaimReapersMatch /\ DeletionReapersMatch

Inv == TypeOK /\ SessionsInv /\ PresenceIsConnected /\ SavesInv
  /\ TerminalHoldsNothing /\ SchedulesInv

-----------------------------------------------------------------------------
(* Rows of a schedule.                                                      *)

LEMMA UnfiredType ==
  ASSUME NEW rows \in Seq(Nat), NEW i \in DOMAIN rows
  PROVE  Unfired(rows, i) \in Seq(Nat)
  <1>1. i \in 1 .. Len(rows)
    OBVIOUS
  <1>2. SubSeq(rows, 1, i - 1) \in Seq(Nat) /\ SubSeq(rows, i + 1, Len(rows)) \in Seq(Nat)
    BY <1>1
  <1> QED BY <1>2 DEF Unfired

LEMMA UnfiredOnly ==
  ASSUME NEW at \in Nat, NEW i \in DOMAIN <<at>>
  PROVE  i = 1 /\ Unfired(<<at>>, i) = <<>>
  <1>1. i = 1
    OBVIOUS
  <1>2. SubSeq(<<at>>, 1, 0) = <<>> /\ SubSeq(<<at>>, 2, 1) = <<>>
    OBVIOUS
  <1> QED BY <1>1, <1>2 DEF Unfired

-----------------------------------------------------------------------------
(* Types.                                                                   *)

LEMMA FreshAccount ==
  ASSUME NEW status \in {"None", "Active", "PendingDeletion", "Terminal"}
  PROVE  NewAccount(status) \in Account
  BY DEF NewAccount, Account

LEMMA TypeInit == Init => TypeOK
  <1> SUFFICES ASSUME Init PROVE TypeOK
    OBVIOUS
  <1>1. account \in [Holders -> Account]
    BY FreshAccount DEF Init
  <1> QED BY <1>1 DEF Init, TypeOK

LEMMA TypeStep == TypeOK /\ [Next]_vars => TypeOK'
  <1> SUFFICES ASSUME TypeOK, [Next]_vars PROVE TypeOK'
    OBVIOUS
  <1> USE DEF TypeOK
  <1>1. ASSUME NEW c \in Sockets, NEW p \in Identities, OnConnect(c, p) PROVE TypeOK'
    <2>1. account' \in [Holders -> Account]
      BY <1>1, FreshAccount DEF OnConnect
    <2> QED BY <1>1, <2>1 DEF OnConnect, SessionOpened, claims
  <1>2. ASSUME NEW c \in Sockets, OnDisconnect(c) PROVE TypeOK'
    BY <1>2 DEF OnDisconnect, claims
  <1>3. ASSUME NEW p \in Identities, JoinGame(p) PROVE TypeOK'
    BY <1>3 DEF JoinGame, SavesOf, claims
  <1>4. ASSUME NEW g \in Guests, NEW code \in Codes, StartGuestClaim(g, code) PROVE TypeOK'
    <2>1. now + ClaimTTL \in Nat
      BY AccountBounds
    <2>2. [code |-> code, expiresAt |-> now + ClaimTTL] \in Claim
      BY <2>1 DEF Claim
    <2>3. claimReapers' \in [Guests -> Seq(Nat)]
      BY <1>4, <2>1 DEF StartGuestClaim, Replaced
    <2> QED BY <1>4, <2>2, <2>3 DEF StartGuestClaim, presence
  <1>5. ASSUME NEW me \in Holders, NEW code \in Codes, CompleteGuestClaim(me, code)
        PROVE  TypeOK'
    <2>1. account' \in [Holders -> Account]
      <3>1. account' = [account EXCEPT ![me].claimed = TRUE]
        BY <1>5 DEF CompleteGuestClaim
      <3> QED BY <3>1 DEF Account
    <2>2. PICK g \in Guests :
            /\ holder' = [s \in Saves |-> IF holder[s] = g THEN me ELSE holder[s]]
            /\ claim' = [claim EXCEPT ![g] = None]
            /\ claimReapers' = [claimReapers EXCEPT ![g] = <<>>]
      BY <1>5 DEF CompleteGuestClaim, GuestsWithCode
    <2>3. /\ holder' \in [Saves -> Identities \cup {Unborn, Erased}]
          /\ claim' \in [Guests -> Claim \cup {None}]
          /\ claimReapers' \in [Guests -> Seq(Nat)]
      BY <2>2 DEF Identities
    <2> QED BY <1>5, <2>1, <2>3 DEF CompleteGuestClaim, presence
  <1>6. ASSUME NEW g \in Guests, NEW i \in DOMAIN claimReapers[g], GuestClaimReaper(g, i)
        PROVE  TypeOK'
    BY <1>6, UnfiredType DEF GuestClaimReaper, presence
  <1>7. ASSUME NEW p \in Holders, DeleteAccount(p) PROVE TypeOK'
    <2>1. now + Grace \in Nat
      BY AccountBounds
    <2>2. deletionReapers' \in [Holders -> Seq(Nat)]
      BY <1>7, <2>1 DEF DeleteAccount
    <2>3. account' \in [Holders -> Account]
      BY <1>7, ZenonT(40) DEF DeleteAccount, Account
    <2> QED BY <1>7, <2>2, <2>3 DEF DeleteAccount, presence, claims
  <1>8. ASSUME NEW p \in Holders, CancelAccountDeletion(p) PROVE TypeOK'
    <2>1. account' \in [Holders -> Account]
      BY <1>8, ZenonT(40) DEF CancelAccountDeletion, Account
    <2> QED BY <1>8, <2>1 DEF CancelAccountDeletion, Disarmed, presence, claims
  <1>9. ASSUME NEW p \in Holders, NEW i \in DOMAIN deletionReapers[p],
               AccountDeletionReaper(p, i)
        PROVE  TypeOK'
    <2>1. FireAt(p) \in Nat
      BY AccountBounds DEF FireAt, Account
    <2>2. Unfired(deletionReapers[p], i) \in Seq(Nat)
      BY UnfiredType
    <2>3. Rearmed(p, i) \in Seq(Nat)
      BY <2>1, <2>2 DEF Rearmed
    <2>4. deletionReapers' \in [Holders -> Seq(Nat)]
      BY <1>9, <2>3 DEF AccountDeletionReaper
    <2>5. /\ account' \in [Holders -> Account]
          /\ holder' \in [Saves -> Identities \cup {Unborn, Erased}]
          /\ session' \in [Sockets -> Identities \cup {None}]
      <3>1. CASE ShouldRunCascade(p)
        <4>1. account' = [account EXCEPT ![p].status = "Terminal"]
          BY <1>9, <3>1 DEF AccountDeletionReaper, Cascade
        <4>2. account' \in [Holders -> Account]
          BY <4>1 DEF Account
        <4> QED BY <1>9, <3>1, <4>2 DEF AccountDeletionReaper, Cascade, SessionsErased
      <3>2. CASE ~ShouldRunCascade(p)
        BY <1>9, <3>2 DEF AccountDeletionReaper
      <3> QED BY <3>1, <3>2
    <2> QED BY <1>9, <2>4, <2>5 DEF AccountDeletionReaper, claims
  <1>10. ASSUME SyncContent PROVE TypeOK'
    <2>1. \A p \in Holders : FireAt(p) \in Nat
      BY AccountBounds DEF FireAt, Account
    <2>2. deletionReapers' \in [Holders -> Seq(Nat)]
      BY <1>10, <2>1 DEF SyncContent
    <2> QED BY <1>10, <2>2 DEF SyncContent, presence, claims
  <1>11. ASSUME Tick PROVE TypeOK'
    BY <1>11 DEF Tick, presence, claims
  <1>12. CASE UNCHANGED vars
    BY <1>12 DEF vars, presence, claims
  <1> QED BY <1>1, <1>2, <1>3, <1>4, <1>5, <1>6, <1>7, <1>8, <1>9, <1>10, <1>11, <1>12
          DEF Next, Connections, Claims, Deletions

-----------------------------------------------------------------------------
(* Presence.                                                                *)

(* The cases in which sockets, session rows or players change at all.       *)
LEMMA PresenceSteps ==
  ASSUME TypeOK, [Next]_vars
  PROVE  \/ \E c \in Sockets, p \in Identities : OnConnect(c, p)
         \/ \E c \in Sockets : OnDisconnect(c)
         \/ \E p \in Identities : JoinGame(p)
         \/ \E p \in Holders : Cascade(p) /\ UNCHANGED <<open, player>>
         \/ UNCHANGED presence
  <1>1. CASE Connections
    BY <1>1 DEF Connections
  <1>2. CASE Claims
    BY <1>2 DEF Claims, StartGuestClaim, CompleteGuestClaim, GuestClaimReaper
  <1>3. CASE Deletions
    BY <1>3 DEF Deletions, DeleteAccount, CancelAccountDeletion, AccountDeletionReaper,
                SyncContent, presence
  <1>4. CASE Tick
    BY <1>4 DEF Tick
  <1>5. CASE UNCHANGED vars
    BY <1>5 DEF vars
  <1> QED BY <1>1, <1>2, <1>3, <1>4, <1>5 DEF Next

LEMMA NobodyIsNoIdentity ==
  /\ None \notin Identities /\ Unborn \notin Identities /\ Erased \notin Identities
  /\ Guests \subseteq Identities /\ Holders \subseteq Identities
  /\ Guests \cap Holders = {}
  BY AccountIdentities DEF Identities

LEMMA SessionsStep ==
  ASSUME TypeOK, SessionsInv, [Next]_vars
  PROVE  SessionsInv'
  <1> USE DEF TypeOK
  <1>1. ASSUME NEW c \in Sockets, NEW p \in Identities, OnConnect(c, p) PROVE SessionsInv'
    BY <1>1 DEF OnConnect, SessionOpened, SessionsInv
  <1>2. ASSUME NEW c \in Sockets, OnDisconnect(c) PROVE SessionsInv'
    BY <1>2, NobodyIsNoIdentity DEF OnDisconnect, SessionsInv
  <1>3. ASSUME NEW p \in Identities, JoinGame(p) PROVE SessionsInv'
    BY <1>3 DEF JoinGame, SessionsInv
  <1>4. ASSUME NEW p \in Holders, Cascade(p), UNCHANGED <<open, player>> PROVE SessionsInv'
    BY <1>4, NobodyIsNoIdentity DEF Cascade, SessionsErased, SessionsInv
  <1>5. CASE UNCHANGED presence
    BY <1>5 DEF presence, SessionsInv
  <1> QED BY <1>1, <1>2, <1>3, <1>4, <1>5, PresenceSteps

LEMMA ConnectedStep ==
  ASSUME TypeOK, SessionsInv, PresenceIsConnected, [Next]_vars
  PROVE  PresenceIsConnected'
  <1> USE DEF TypeOK, PresenceIsConnected, Connected
  <1>1. ASSUME NEW c \in Sockets, NEW p \in Identities, OnConnect(c, p)
        PROVE  PresenceIsConnected'
    BY <1>1, NobodyIsNoIdentity DEF OnConnect
  <1>2. ASSUME NEW c \in Sockets, OnDisconnect(c) PROVE PresenceIsConnected'
    <2> SUFFICES ASSUME NEW p \in player' PROVE \E d \in Sockets : open'[d] = p
      OBVIOUS
    <2>1. p \in player /\ p \in Identities
      BY <1>2 DEF OnDisconnect
    <2>2. CASE p = open[c]
      <3>1. PICK d \in Sockets \ {c} : session[d] = p
        BY <1>2, <2>2, NobodyIsNoIdentity, <2>1 DEF OnDisconnect, HasLiveSession
      <3>2. open[d] = p
        BY <3>1, <2>1, NobodyIsNoIdentity DEF SessionsInv
      <3> QED BY <1>2, <3>1, <3>2 DEF OnDisconnect
    <2>3. CASE p # open[c]
      BY <1>2, <2>1, <2>3 DEF OnDisconnect
    <2> QED BY <2>2, <2>3
  <1>3. ASSUME NEW p \in Identities, JoinGame(p) PROVE PresenceIsConnected'
    BY <1>3 DEF JoinGame
  <1>4. CASE UNCHANGED <<open, player>>
    BY <1>4
  <1> QED BY <1>1, <1>2, <1>3, <1>4, PresenceSteps DEF presence

-----------------------------------------------------------------------------
(* Saves.                                                                   *)

LEMMA OneSaveStep ==
  ASSUME TypeOK, OneSave, [Next]_vars
  PROVE  OneSave'
  <1> USE DEF TypeOK, OneSave
  <1>1. ASSUME NEW p \in Identities, JoinGame(p) PROVE OneSave'
    <2>1. CASE UNCHANGED holder
      BY <2>1
    <2>2. ASSUME SavesOf(p) = {}, NEW s \in Saves, holder' = [holder EXCEPT ![s] = p]
          PROVE  OneSave'
      <3>1. \A t \in Saves : holder[t] # p
        BY <2>2 DEF SavesOf
      <3> QED BY <2>2, <3>1
    <2> QED BY <1>1, <2>1, <2>2 DEF JoinGame, SavesOf
  <1>2. ASSUME NEW me \in Holders, NEW code \in Codes, CompleteGuestClaim(me, code)
        PROVE  OneSave'
    <2>1. PICK g \in Guests :
            /\ SavesOf(me) = {}
            /\ holder' = [s \in Saves |-> IF holder[s] = g THEN me ELSE holder[s]]
      BY <1>2 DEF CompleteGuestClaim, GuestsWithCode, OwnsNothing
    <2> QED BY <2>1, NobodyIsNoIdentity DEF SavesOf
  <1>3. ASSUME NEW p \in Holders, NEW i \in DOMAIN deletionReapers[p],
               AccountDeletionReaper(p, i)
        PROVE  OneSave'
    <2>1. CASE ShouldRunCascade(p)
      <3>1. holder' = [s \in Saves |-> IF holder[s] = p THEN Erased ELSE holder[s]]
        BY <1>3, <2>1 DEF AccountDeletionReaper, Cascade
      <3> QED BY <3>1, NobodyIsNoIdentity
    <2>2. CASE ~ShouldRunCascade(p)
      BY <1>3, <2>2 DEF AccountDeletionReaper
    <2> QED BY <2>1, <2>2
  <1>4. CASE UNCHANGED holder
    BY <1>4
  <1>5. Next => \/ UNCHANGED holder
                \/ \E p \in Identities : JoinGame(p)
                \/ \E me \in Holders, code \in Codes : CompleteGuestClaim(me, code)
                \/ \E p \in Holders : \E i \in DOMAIN deletionReapers[p] :
                     AccountDeletionReaper(p, i)
    BY DEF Next, Connections, Claims, Deletions, OnConnect, OnDisconnect, StartGuestClaim,
           GuestClaimReaper, DeleteAccount, CancelAccountDeletion, SyncContent, Tick
  <1> QED BY <1>1, <1>2, <1>3, <1>4, <1>5 DEF vars

LEMMA PresentGuestsStep ==
  ASSUME TypeOK, PresentGuestsHaveSaves, [Next]_vars
  PROVE  PresentGuestsHaveSaves'
  <1> USE DEF TypeOK, PresentGuestsHaveSaves, SavesOf
  <1>1. ASSUME NEW p \in Identities, JoinGame(p) PROVE PresentGuestsHaveSaves'
    <2>1. CASE UNCHANGED holder
      BY <1>1, <2>1 DEF JoinGame
    <2>2. ASSUME NEW s \in Saves, holder[s] = Unborn, holder' = [holder EXCEPT ![s] = p]
          PROVE  PresentGuestsHaveSaves'
      BY <1>1, <2>2, NobodyIsNoIdentity DEF JoinGame
    <2> QED BY <1>1, <2>1, <2>2 DEF JoinGame
  <1>2. ASSUME NEW me \in Holders, NEW code \in Codes, CompleteGuestClaim(me, code)
        PROVE  PresentGuestsHaveSaves'
    <2>1. PICK g \in Guests :
            /\ g \notin player
            /\ holder' = [s \in Saves |-> IF holder[s] = g THEN me ELSE holder[s]]
      BY <1>2 DEF CompleteGuestClaim, GuestsWithCode, GuestHasLeft
    <2> QED BY <1>2, <2>1 DEF CompleteGuestClaim, presence
  <1>3. ASSUME NEW p \in Holders, NEW i \in DOMAIN deletionReapers[p],
               AccountDeletionReaper(p, i)
        PROVE  PresentGuestsHaveSaves'
    BY <1>3, NobodyIsNoIdentity DEF AccountDeletionReaper, Cascade
  <1>4. CASE UNCHANGED holder /\ player' \subseteq player
    BY <1>4
  <1>5. Next => \/ UNCHANGED holder /\ player' \subseteq player
                \/ \E p \in Identities : JoinGame(p)
                \/ \E me \in Holders, code \in Codes : CompleteGuestClaim(me, code)
                \/ \E p \in Holders : \E i \in DOMAIN deletionReapers[p] :
                     AccountDeletionReaper(p, i)
    BY DEF Next, Connections, Claims, Deletions, OnConnect, OnDisconnect, StartGuestClaim,
           GuestClaimReaper, DeleteAccount, CancelAccountDeletion, SyncContent, Tick, presence
  <1> QED BY <1>1, <1>2, <1>3, <1>4, <1>5 DEF vars, presence

LEMMA TerminalStep ==
  ASSUME TypeOK, TerminalHoldsNothing, [Next]_vars
  PROVE  TerminalHoldsNothing'
  <1> USE DEF TypeOK, TerminalHoldsNothing, SavesOf
  <1> DEFINE Gone(p) == (account[p].status = "Terminal" =>
               SavesOf(p) = {} /\ \A c \in Sockets : session[c] # p)
  <1> SUFFICES ASSUME NEW p \in Holders PROVE Gone(p)'
    OBVIOUS
  <1>0. Gone(p)
    OBVIOUS
  <1>1. ASSUME NEW c \in Sockets, NEW q \in Identities, OnConnect(c, q) PROVE Gone(p)'
    BY <1>0, <1>1 DEF OnConnect, SessionOpened, NewAccount
  <1>2. ASSUME NEW c \in Sockets, OnDisconnect(c) PROVE Gone(p)'
    BY <1>0, <1>2, NobodyIsNoIdentity DEF OnDisconnect
  <1>3. ASSUME NEW q \in Identities, JoinGame(q) PROVE Gone(p)'
    BY <1>0, <1>3, NobodyIsNoIdentity DEF JoinGame, IsPendingDeletion
  <1>4. ASSUME NEW me \in Holders, NEW code \in Codes, CompleteGuestClaim(me, code)
        PROVE  Gone(p)'
    <2>1. PICK g \in Guests :
            holder' = [s \in Saves |-> IF holder[s] = g THEN me ELSE holder[s]]
      BY <1>4 DEF CompleteGuestClaim, GuestsWithCode
    <2>2. account' = [account EXCEPT ![me].claimed = TRUE] /\ account[me].status = "Active"
          /\ UNCHANGED session
      BY <1>4 DEF CompleteGuestClaim, presence
    <2>3. account'[p].status = account[p].status
      BY <2>2 DEF Account
    <2> QED BY <1>0, <2>1, <2>2, <2>3
  <1>5. ASSUME NEW q \in Holders, DeleteAccount(q) \/ CancelAccountDeletion(q) PROVE Gone(p)'
    <2>1. account'[p].status = "Terminal" => account[p].status = "Terminal"
      <3>1. CASE DeleteAccount(q)
        BY <3>1 DEF DeleteAccount, Account
      <3>2. CASE CancelAccountDeletion(q)
        BY <3>2 DEF CancelAccountDeletion, Account
      <3> QED BY <1>5, <3>1, <3>2
    <2>2. UNCHANGED <<holder, session>>
      BY <1>5 DEF DeleteAccount, CancelAccountDeletion, presence
    <2> QED BY <1>0, <2>1, <2>2
  <1>6. ASSUME NEW q \in Holders, NEW i \in DOMAIN deletionReapers[q],
               AccountDeletionReaper(q, i)
        PROVE  Gone(p)'
    <2>1. CASE ShouldRunCascade(q)
      <3>1. /\ holder' = [s \in Saves |-> IF holder[s] = q THEN Erased ELSE holder[s]]
            /\ session' = [c \in Sockets |-> IF session[c] = q THEN None ELSE session[c]]
            /\ account' = [account EXCEPT ![q].status = "Terminal"]
        BY <1>6, <2>1 DEF AccountDeletionReaper, Cascade, SessionsErased
      <3>2. CASE p = q
        BY <3>1, <3>2, NobodyIsNoIdentity
      <3>3. CASE p # q
        <4>1. account'[p] = account[p]
          BY <3>1, <3>3
        <4> QED BY <1>0, <3>1, <4>1, NobodyIsNoIdentity
      <3> QED BY <3>2, <3>3
    <2>2. CASE ~ShouldRunCascade(q)
      BY <1>0, <1>6, <2>2 DEF AccountDeletionReaper
    <2> QED BY <2>1, <2>2
  <1>7. CASE UNCHANGED <<holder, session, account>>
    BY <1>0, <1>7
  <1>8. Next => \/ UNCHANGED <<holder, session, account>>
                \/ \E c \in Sockets, q \in Identities : OnConnect(c, q)
                \/ \E c \in Sockets : OnDisconnect(c)
                \/ \E q \in Identities : JoinGame(q)
                \/ \E me \in Holders, code \in Codes : CompleteGuestClaim(me, code)
                \/ \E q \in Holders : DeleteAccount(q) \/ CancelAccountDeletion(q)
                \/ \E q \in Holders : \E i \in DOMAIN deletionReapers[q] :
                     AccountDeletionReaper(q, i)
    BY DEF Next, Connections, Claims, Deletions, StartGuestClaim,
           GuestClaimReaper, SyncContent, Tick, presence
  <1> QED BY <1>1, <1>2, <1>3, <1>4, <1>5, <1>6, <1>7, <1>8 DEF vars, presence

-----------------------------------------------------------------------------
(* Schedules.                                                               *)

LEMMA ClaimReapersStep ==
  ASSUME TypeOK, ClaimReapersMatch, [Next]_vars
  PROVE  ClaimReapersMatch'
  <1> USE DEF TypeOK, ClaimReapersMatch
  <1> DEFINE Match(g) ==
        \/ claim[g] = None /\ claimReapers[g] = <<>>
        \/ claim[g] # None /\ claimReapers[g] = <<claim[g].expiresAt>>
        \/ claim[g] # None /\ claimReapers[g] = <<>> /\ Early > 0
  <1> SUFFICES ASSUME NEW g \in Guests PROVE Match(g)'
    OBVIOUS
  <1>0. Match(g)
    OBVIOUS
  <1>1. ASSUME NEW h \in Guests, NEW code \in Codes, StartGuestClaim(h, code)
        PROVE  Match(g)'
    <2> DEFINE new == [code |-> code, expiresAt |-> now + ClaimTTL]
    <2>1. claim' = [claim EXCEPT ![h] = new]
          /\ claimReapers' = [claimReapers EXCEPT ![h] = <<now + ClaimTTL>>]
      BY <1>1 DEF StartGuestClaim, Replaced
    <2>2. CASE g = h
      <3>1. now + ClaimTTL \in Nat
        BY AccountBounds
      <3>2. new \in Claim
        BY <3>1 DEF Claim
      <3>3. new # None
        BY <3>2, NobodyIsNoClaim
      <3> QED BY <2>1, <2>2, <3>3
    <2>3. CASE g # h
      BY <1>0, <2>1, <2>3
    <2> QED BY <2>2, <2>3
  <1>2. ASSUME NEW me \in Holders, NEW code \in Codes, CompleteGuestClaim(me, code)
        PROVE  Match(g)'
    <2>1. PICK h \in Guests :
            /\ claim' = [claim EXCEPT ![h] = None]
            /\ claimReapers' = [claimReapers EXCEPT ![h] = <<>>]
      BY <1>2 DEF CompleteGuestClaim, GuestsWithCode
    <2> QED BY <1>0, <2>1
  <1>3. ASSUME NEW h \in Guests, NEW i \in DOMAIN claimReapers[h], GuestClaimReaper(h, i)
        PROVE  Match(g)'
    <2>1. CASE g = h
      <3>1. claim[g] # None /\ claimReapers[g] = <<claim[g].expiresAt>>
        BY <1>0, <1>3, <2>1
      <3>2. claim[g].expiresAt \in Nat
        BY <3>1 DEF Claim
      <3>3. claimReapers'[g] = <<>> /\ claim[g].expiresAt <= now + Early
        <4>1. i = 1 /\ Unfired(claimReapers[g], i) = <<>>
          BY <2>1, <3>1, <3>2, UnfiredOnly
        <4>2. claimReapers'[g] = Unfired(claimReapers[g], i)
              /\ claimReapers[g][i] <= now + Early
          BY <1>3, <2>1 DEF GuestClaimReaper, Due
        <4> QED BY <3>1, <4>1, <4>2
      <3>4. CASE claim[g].expiresAt <= now
        <4>1. claim'[g] = None
          BY <1>3, <2>1, <3>1, <3>2, <3>4 DEF GuestClaimReaper, ClaimIsExpired
        <4> QED BY <3>3, <4>1
      <3>5. CASE ~(claim[g].expiresAt <= now)
        <4>1. claim'[g] = claim[g]
          BY <1>3, <2>1, <3>2, <3>5 DEF GuestClaimReaper, ClaimIsExpired
        <4>2. Early > 0
          BY <3>2, <3>3, <3>5, AccountBounds
        <4> QED BY <3>1, <3>3, <4>1, <4>2
      <3> QED BY <3>4, <3>5
    <2>2. CASE g # h
      BY <1>0, <1>3, <2>2 DEF GuestClaimReaper
    <2> QED BY <2>1, <2>2
  <1>4. CASE UNCHANGED claims
    BY <1>0, <1>4 DEF claims
  <1>5. Next => \/ UNCHANGED claims
                \/ \E h \in Guests, code \in Codes : StartGuestClaim(h, code)
                \/ \E me \in Holders, code \in Codes : CompleteGuestClaim(me, code)
                \/ \E h \in Guests : \E i \in DOMAIN claimReapers[h] : GuestClaimReaper(h, i)
    BY DEF Next, Connections, Claims, Deletions, OnConnect, OnDisconnect, JoinGame,
           DeleteAccount, CancelAccountDeletion, AccountDeletionReaper, SyncContent, Tick
  <1> QED BY <1>1, <1>2, <1>3, <1>4, <1>5 DEF vars

LEMMA DeletionReapersStep ==
  ASSUME TypeOK, DeletionReapersMatch, [Next]_vars
  PROVE  DeletionReapersMatch'
  <1> USE DEF TypeOK, DeletionReapersMatch
  <1> DEFINE Match(p) ==
        \/ ~Pending(p) /\ deletionReapers[p] = <<>>
        \/ Pending(p) /\ deletionReapers[p] = <<FireAt(p)>>
        \/ Pending(p) /\ deletionReapers[p] = <<>> /\ ~synced /\ p \in Legacy
  <1> SUFFICES ASSUME NEW p \in Holders PROVE Match(p)'
    OBVIOUS
  <1>0. Match(p) /\ account[p] \in Account /\ FireAt(p) \in Nat
    <2>1. account[p] \in Account
      OBVIOUS
    <2> QED BY <2>1, AccountBounds DEF FireAt, Account
  <1>1. ASSUME account'[p].status = account[p].status,
               account'[p].requestedAt = account[p].requestedAt,
               UNCHANGED <<deletionReapers, synced>>
        PROVE  Match(p)'
    BY <1>0, <1>1 DEF Pending, FireAt
  <1>2. ASSUME NEW c \in Sockets, NEW q \in Identities, OnConnect(c, q) PROVE Match(p)'
    BY <1>0, <1>2 DEF OnConnect, NewAccount, Pending, FireAt
  <1>3. ASSUME NEW me \in Holders, NEW code \in Codes, CompleteGuestClaim(me, code)
        PROVE  Match(p)'
    <2>1. account' = [account EXCEPT ![me].claimed = TRUE]
          /\ UNCHANGED <<deletionReapers, synced>>
      BY <1>3 DEF CompleteGuestClaim
    <2> QED BY <1>1, <2>1 DEF Account
  <1>4. ASSUME NEW q \in Holders, DeleteAccount(q) PROVE Match(p)'
    <2>1. CASE p = q
      <3>1. deletionReapers[p] = <<>>
        BY <1>0, <1>4, <2>1 DEF DeleteAccount, Pending
      <3>2. account'[p].status = "PendingDeletion" /\ account'[p].requestedAt = now
        BY <1>4, <2>1 DEF DeleteAccount, Account
      <3>3. deletionReapers'[p] = <<now + Grace>>
        BY <1>4, <2>1, <3>1 DEF DeleteAccount
      <3> QED BY <3>2, <3>3 DEF Pending, FireAt
    <2>2. CASE p # q
      BY <1>0, <1>4, <2>2 DEF DeleteAccount, Pending, FireAt
    <2> QED BY <2>1, <2>2
  <1>5. ASSUME NEW q \in Holders, CancelAccountDeletion(q) PROVE Match(p)'
    <2>1. CASE p = q
      BY <1>5, <2>1 DEF CancelAccountDeletion, Disarmed, Pending
    <2>2. CASE p # q
      BY <1>0, <1>5, <2>2 DEF CancelAccountDeletion, Disarmed, Pending, FireAt
    <2> QED BY <2>1, <2>2
  <1>6. ASSUME NEW q \in Holders, NEW i \in DOMAIN deletionReapers[q],
               AccountDeletionReaper(q, i)
        PROVE  Match(p)'
    <2>1. CASE p = q
      <3>1. Pending(p) /\ deletionReapers[p] = <<FireAt(p)>>
        BY <1>0, <1>6, <2>1
      <3>2. Unfired(deletionReapers[p], i) = <<>>
        BY <1>0, <2>1, <3>1, UnfiredOnly
      <3>3. CASE ShouldRunCascade(p)
        <4>1. deletionReapers'[p] = <<>>
          BY <1>6, <2>1, <3>2, <3>3 DEF AccountDeletionReaper, Rearmed
        <4>2. account'[p].status = "Terminal"
          BY <1>0, <1>6, <2>1, <3>3 DEF AccountDeletionReaper, Cascade, Account
        <4> QED BY <4>1, <4>2 DEF Pending
      <3>4. CASE ~ShouldRunCascade(p)
        <4>1. deletionReapers'[p] = <<FireAt(p)>>
          BY <1>0, <1>6, <2>1, <3>1, <3>2, <3>4 DEF AccountDeletionReaper, Rearmed
        <4>2. UNCHANGED account
          BY <1>6, <2>1, <3>4 DEF AccountDeletionReaper
        <4> QED BY <3>1, <4>1, <4>2 DEF Pending, FireAt
      <3> QED BY <3>3, <3>4
    <2>2. CASE p # q
      <3>1. deletionReapers'[p] = deletionReapers[p] /\ UNCHANGED synced
        BY <1>6, <2>2 DEF AccountDeletionReaper
      <3>2. account'[p] = account[p]
        BY <1>6, <2>2 DEF AccountDeletionReaper, Cascade
      <3> QED BY <1>0, <3>1, <3>2 DEF Pending, FireAt
    <2> QED BY <2>1, <2>2
  <1>7. CASE SyncContent
    BY <1>0, <1>7 DEF SyncContent, Pending, FireAt
  <1>8. CASE UNCHANGED <<account, deletionReapers, synced>>
    BY <1>1, <1>8
  <1>9. Next => \/ UNCHANGED <<account, deletionReapers, synced>>
                \/ \E c \in Sockets, q \in Identities : OnConnect(c, q)
                \/ \E me \in Holders, code \in Codes : CompleteGuestClaim(me, code)
                \/ \E q \in Holders : DeleteAccount(q) \/ CancelAccountDeletion(q)
                \/ \E q \in Holders : \E i \in DOMAIN deletionReapers[q] :
                     AccountDeletionReaper(q, i)
                \/ SyncContent
    BY DEF Next, Connections, Claims, Deletions, OnDisconnect, JoinGame, StartGuestClaim,
           GuestClaimReaper, Tick
  <1> QED BY <1>2, <1>3, <1>4, <1>5, <1>6, <1>7, <1>8, <1>9 DEF vars

-----------------------------------------------------------------------------
LEMMA InvInit == Init => Inv
  <1> SUFFICES ASSUME Init PROVE Inv
    OBVIOUS
  <1>1. TypeOK
    BY TypeInit
  <1>2. SessionsInv /\ PresenceIsConnected
    BY NobodyIsNoIdentity DEF Init, SessionsInv, PresenceIsConnected
  <1>3. SavesInv
    BY NobodyIsNoIdentity DEF Init, SavesInv, OneSave, PresentGuestsHaveSaves
  <1>4. TerminalHoldsNothing
    BY DEF Init, TerminalHoldsNothing, NewAccount
  <1>5. SchedulesInv
    <2>1. ClaimReapersMatch
      BY DEF Init, ClaimReapersMatch
    <2>2. DeletionReapersMatch
      BY DEF Init, DeletionReapersMatch, NewAccount, Pending
    <2> QED BY <2>1, <2>2 DEF SchedulesInv
  <1> QED BY <1>1, <1>2, <1>3, <1>4, <1>5 DEF Inv

(* No step of the server breaks it.                                         *)
LEMMA InvStep == Inv /\ [Next]_vars => Inv'
  BY TypeStep, SessionsStep, ConnectedStep, OneSaveStep, PresentGuestsStep, TerminalStep,
     ClaimReapersStep, DeletionReapersStep DEF Inv, SavesInv, SchedulesInv

(* Inv holds in every reachable state.                                      *)
THEOREM Invariance == Spec => []Inv
  BY InvInit, InvStep, PTL DEF Spec

(* TypeOK: the tables hold what their columns may hold.                     *)
THEOREM AccountsTypes == Spec => []TypeOK
  BY Invariance, PTL DEF Inv

(* Nobody stands in the world without a connection.                         *)
THEOREM PresenceFollowsConnections == Spec => []PresenceIsConnected
  BY Invariance, PTL DEF Inv

(* A socket that closes takes a player along only if its others are all     *)
(* forgotten, which a guest's never are.                                    *)
LEMMA OthersWereForgotten ==
  ASSUME TypeOK, SessionsInv, NEW c \in Sockets, OnDisconnect(c),
         NEW p \in player \ player', NEW d \in Sockets, open'[d] = p
  PROVE  p \in Holders /\ Forgotten(d)
  <1> USE DEF TypeOK
  <1>1. p = open[c] /\ ~HasLiveSession(c, p) /\ p \in Identities
    BY DEF OnDisconnect
  <1>2. d # c /\ open[d] = p
    BY <1>1, NobodyIsNoIdentity DEF OnDisconnect
  <1>3. session[d] # p
    BY <1>1, <1>2 DEF HasLiveSession
  <1>4. Forgotten(d)
    BY <1>1, <1>2, <1>3, NobodyIsNoIdentity DEF Forgotten
  <1>5. p \in Holders
    BY <1>1, <1>2, <1>3 DEF SessionsInv, Identities
  <1> QED BY <1>4, <1>5

(* Only the erasure of its account takes the row of an open socket.         *)
LEMMA ErasureForgets ==
  ASSUME TypeOK, SessionsInv, [Next]_vars, NEW d \in Sockets, Forgotten(d)'
  PROVE  Forgotten(d) \/ IsErased(open[d])'
  <1> USE DEF TypeOK, Forgotten
  <1>1. ASSUME NEW c \in Sockets, NEW p \in Identities, OnConnect(c, p) PROVE Forgotten(d)
    BY <1>1 DEF OnConnect, SessionOpened
  <1>2. ASSUME NEW c \in Sockets, OnDisconnect(c) PROVE Forgotten(d)
    BY <1>2 DEF OnDisconnect
  <1>3. ASSUME NEW p \in Identities, JoinGame(p) PROVE Forgotten(d)
    BY <1>3 DEF JoinGame
  <1>4. ASSUME NEW p \in Holders, Cascade(p), UNCHANGED <<open, player>>, ~Forgotten(d)
        PROVE  IsErased(open[d])'
    <2>1. open'[d] = p
      BY <1>4 DEF Cascade, SessionsErased
    <2>2. account'[p].status = "Terminal"
      BY <1>4 DEF Cascade, Account
    <2> QED BY <1>4, <2>1, <2>2 DEF IsErased
  <1>5. CASE UNCHANGED presence
    BY <1>5 DEF presence
  <1> QED BY <1>1, <1>2, <1>3, <1>4, <1>5, PresenceSteps

(* Closing a tab throws nobody out of the game while another is open that   *)
(* was not open when its account was erased, and only that erasure takes    *)
(* the row of an open tab.                                                  *)
THEOREM OpenTabsCount == Spec => OnlyErasureForgetsTabs
  <1>1. ASSUME Inv, [Next]_vars, NEW p \in player \ player', NEW d \in Sockets, open'[d] = p
        PROVE  p \in Holders /\ Forgotten(d)
    <2>1. TypeOK /\ SessionsInv
      BY <1>1 DEF Inv
    <2>2. ASSUME NEW c \in Sockets, NEW q \in Identities, OnConnect(c, q) PROVE FALSE
      BY <1>1, <2>2 DEF OnConnect
    <2>3. ASSUME NEW q \in Identities, JoinGame(q) PROVE FALSE
      BY <1>1, <2>3 DEF JoinGame
    <2>4. ~UNCHANGED player
      BY <1>1
    <2>5. PICK c \in Sockets : OnDisconnect(c)
      BY <1>1, <2>1, <2>2, <2>3, <2>4, PresenceSteps DEF presence
    <2> QED BY <1>1, <2>1, <2>5, OthersWereForgotten
  <1>2. ASSUME Inv, [Next]_vars, NEW d \in Sockets, Forgotten(d)'
        PROVE  Forgotten(d) \/ IsErased(open[d])'
    BY <1>2, ErasureForgets DEF Inv
  <1>3. Inv /\ [Next]_vars =>
          [/\ \A p \in player \ player', c \in Sockets :
                open'[c] = p => p \in Holders /\ Forgotten(c)
           /\ \A c \in Sockets : Forgotten(c)' => Forgotten(c) \/ IsErased(open[c])']_vars
    BY <1>1, <1>2
  <1> QED BY <1>3, Invariance, PTL DEF Spec, OnlyErasureForgetsTabs

(* Saves are never merged.                                                  *)
THEOREM SavesNeverMerge == Spec => []OneSave
  BY Invariance, PTL DEF Inv, SavesInv

(* No guest loses its save while it is in the game.                         *)
THEOREM PresentGuestsKeepSaves == Spec => []PresentGuestsHaveSaves
  BY Invariance, PTL DEF Inv, SavesInv

(* Erasure is complete and nothing returns to an erased account.            *)
THEOREM ErasureIsComplete == Spec => []TerminalHoldsNothing
  BY Invariance, PTL DEF Inv

(* A claim has its one reaper, at its own expiry.                            *)
THEOREM ClaimScheduleMatches == Spec => []ClaimReapersMatch
  BY Invariance, PTL DEF Inv, SchedulesInv

(* An account is armed exactly while its deletion is pending.               *)
THEOREM DeletionScheduleMatches == Spec => []DeletionReapersMatch
  BY Invariance, PTL DEF Inv, SchedulesInv

(* Whoever is in the world is connected and not erased.                     *)
THEOREM PresenceIsWellFormed == Spec => []PresenceWellFormed
  BY AccountsTypes, PresenceFollowsConnections, ErasureIsComplete, DeletionScheduleMatches, PTL
     DEF PresenceWellFormed

(* Saves are neither merged nor taken from a guest in the game.             *)
THEOREM SavesStaySafe == Spec => []SavesAreSafe
  BY SavesNeverMerge, PresentGuestsKeepSaves, PTL DEF SavesAreSafe

-----------------------------------------------------------------------------
(* The tab.                                                                 *)

(* What is under way: calls go out on sockets that are open, each with the  *)
(* identity it was built for, and carry codes the tab has minted.           *)
Call == [kind : {"join", "start", "complete"}, code : 0..MaxMints]

Answers == {"ok", "refused", "not now", "already claimed", "invalid", "expired", "other tab",
            "has data"}
Answer == [kind : {"start", "complete"}, answer : Answers, claimed : BOOLEAN]

Page == [at : {"game", "provider"}, leg : BOOLEAN, forced : BOOLEAN, parked : BOOLEAN,
         redirecting : BOOLEAN, phase : Phases, mayJoin : BOOLEAN, confirming : BOOLEAN]

TabTypes ==
  /\ minted \in 0..MaxMints /\ stored \in 0..minted /\ marked \in BOOLEAN
  /\ page \in Page
  /\ conn \in Sockets \cup {None}
  /\ link \in [kind : {"anon", "account"}, applied : BOOLEAN]
  /\ ours \subseteq Sockets
  /\ up \in [Sockets -> Seq(Call)] /\ down \in Seq(Answer)

(* Each socket is open for the identity its build was for, and a build      *)
(* that is gone has no answers under way.                                   *)
SocketsInv ==
  /\ \A c \in Sockets \ ours : up[c] = <<>>
  /\ \A c \in ours : open[c] \in {Guest, Holder}
  /\ conn \in ours => open[conn] = IF link.kind = "account" THEN Holder ELSE Guest
  /\ conn = None => down = <<>>

(* The guest's claim carries this code.                                     *)
HasCode(code) == claim[Guest] # None /\ claim[Guest].code = code

(* Codes come from this tab, and only the account redeems one.              *)
CodesInv ==
  /\ \A g \in Guests : claim[g] # None => g = Guest /\ claim[g].code \in 1..minted
  /\ \A c \in Sockets : \A i \in DOMAIN up[c] :
       /\ up[c][i].kind # "join" => up[c][i].code \in 1..minted
       /\ up[c][i].kind = "complete" => open[c] = Holder

(* A code is registered at most once.                                       *)
OnceInv ==
  /\ \A c \in Sockets : \A i \in DOMAIN up[c] :
       up[c][i].kind = "start" => ~HasCode(up[c][i].code)
  /\ \A c, d \in Sockets : \A i \in DOMAIN up[c], j \in DOMAIN up[d] :
       up[c][i].kind = "start" /\ up[d][j] = up[c][i] => c = d /\ i = j

(* It will not work (again).                                                *)
Dead(code) ==
  /\ \A c \in Sockets : \A i \in DOMAIN up[c] :
       up[c][i].kind = "start" /\ up[c][i].code = code => open[c] = Holder
  /\ HasCode(code) => ClaimIsExpired(claim[Guest].expiresAt)

(* A tab that may join has no code.                                         *)
GateInv == page.mayJoin => stored = 0

(* It does not make the tab forget a code that works.                       *)
Harmless(answer) ==
  \/ Dead(stored)
  \/ answer.kind = "complete" /\ answer.answer \notin {"ok", "expired", "invalid"}
  \/ answer.kind = "complete" /\ answer.answer = "invalid"
       /\ (stored \in late \/ ~HasCode(stored))

(* On an account's build a call is the redemption of the stored code, or    *)
(* that code works no more; and every answer leaves a working code alone.   *)
AccountBuildInv == link.kind = "account" =>
  /\ conn \in ours => \A i \in DOMAIN up[conn] :
       Dead(stored) \/ (up[conn][i].kind = "complete" /\ up[conn][i].code = stored)
  /\ \A i \in DOMAIN down : Harmless(down[i])

(* The guest is in the game by the time its i-th call is served.            *)
Before(c, i) == Guest \in player \/ \E j \in 1..(i - 1) : up[c][j].kind = "join"

(* On a guest's build only registrations that went well are answered, and   *)
(* no registration is served ahead of the join.                             *)
AnonBuildInv == link.kind = "anon" =>
  /\ \A i \in DOMAIN down : down[i].kind = "start" /\ down[i].answer = "ok"
  /\ conn \in ours =>
       /\ link.applied => Before(conn, Len(up[conn]) + 1)
       /\ \A i \in DOMAIN up[conn] : up[conn][i].kind = "start" => Before(conn, i)

(* What a working code depends on, inductive together with Accounts' Inv.   *)
TabInv == TabTypes /\ SocketsInv /\ CodesInv /\ OnceInv /\ GateInv /\ AccountBuildInv /\ AnonBuildInv

-----------------------------------------------------------------------------
(* Queues of calls and answers.                                             *)

LEMMA HeadAndTail ==
  ASSUME NEW S, NEW s \in Seq(S), s # <<>>
  PROVE  /\ Tail(s) \in Seq(S) /\ Head(s) = s[1] /\ 1 \in DOMAIN s /\ s[1] \in S
         /\ DOMAIN Tail(s) = 1 .. (Len(s) - 1) /\ Len(Tail(s)) = Len(s) - 1
         /\ \A i \in DOMAIN Tail(s) : i + 1 \in DOMAIN s /\ Tail(s)[i] = s[i + 1]
  OBVIOUS

LEMMA AppendLast ==
  ASSUME NEW S, NEW s \in Seq(S), NEW e \in S
  PROVE  /\ Append(s, e) \in Seq(S) /\ DOMAIN Append(s, e) = 1 .. (Len(s) + 1)
         /\ Len(Append(s, e)) = Len(s) + 1
         /\ Append(s, e)[Len(s) + 1] = e
         /\ \A i \in DOMAIN s : Append(s, e)[i] = s[i]
  OBVIOUS

LEMMA SentCalls ==
  ASSUME TabTypes, NEW call \in Call, up' = Sent(call)
  PROVE  /\ up' \in [Sockets -> Seq(Call)]
         /\ \A c \in Sockets : c # conn \/ conn \notin ours => up'[c] = up[c]
         /\ conn \in ours => /\ Len(up'[conn]) = Len(up[conn]) + 1
                             /\ DOMAIN up'[conn] = 1 .. (Len(up[conn]) + 1)
                             /\ up'[conn][Len(up[conn]) + 1] = call
                             /\ \A i \in DOMAIN up[conn] : up'[conn][i] = up[conn][i]
  <1>1. CASE conn \in ours
    <2>1. conn \in Sockets /\ up[conn] \in Seq(Call) /\ up \in [Sockets -> Seq(Call)]
      BY <1>1 DEF TabTypes
    <2>2. up' = [up EXCEPT ![conn] = Append(up[conn], call)]
      BY <1>1 DEF Sent
    <2>3. Append(up[conn], call) \in Seq(Call)
      BY <2>1, AppendLast
    <2>4. up'[conn] = Append(up[conn], call)
      BY <2>1, <2>2
    <2>5. /\ Len(up'[conn]) = Len(up[conn]) + 1
          /\ DOMAIN up'[conn] = 1 .. (Len(up[conn]) + 1)
          /\ up'[conn][Len(up[conn]) + 1] = call
          /\ \A i \in DOMAIN up[conn] : up'[conn][i] = up[conn][i]
      BY <2>1, <2>4, AppendLast
    <2>6. \A c \in Sockets : c # conn => up'[c] = up[c]
      BY <2>1, <2>2
    <2>7. up' \in [Sockets -> Seq(Call)]
      BY <2>1, <2>2, <2>3
    <2> QED BY <1>1, <2>5, <2>6, <2>7
  <1>2. CASE conn \notin ours
    BY <1>2 DEF Sent, TabTypes
  <1> QED BY <1>1, <1>2

-----------------------------------------------------------------------------
(* Pages.                                                                   *)

LEMMA PageFields ==
  ASSUME NEW p \in Page
  PROVE  /\ p.leg \in BOOLEAN /\ p.forced \in BOOLEAN /\ p.parked \in BOOLEAN
         /\ p.redirecting \in BOOLEAN /\ p.mayJoin \in BOOLEAN /\ p.confirming \in BOOLEAN
         /\ p.phase \in Phases /\ p.at \in {"game", "provider"}
  BY Zenon DEF Page

LEMMA PageUpdates ==
  ASSUME NEW p \in Page, NEW b \in BOOLEAN, NEW phase \in Phases, NEW at \in {"game", "provider"}
  PROVE  /\ [p EXCEPT !.leg = b] \in Page /\ [p EXCEPT !.forced = b] \in Page
         /\ [p EXCEPT !.parked = b] \in Page /\ [p EXCEPT !.redirecting = b] \in Page
         /\ [p EXCEPT !.mayJoin = b] \in Page /\ [p EXCEPT !.confirming = b] \in Page
         /\ [p EXCEPT !.phase = phase] \in Page /\ [p EXCEPT !.at = at] \in Page
         /\ [p EXCEPT !.mayJoin = b].mayJoin = b
         /\ [p EXCEPT !.leg = b].mayJoin = p.mayJoin
         /\ [p EXCEPT !.forced = b].mayJoin = p.mayJoin
         /\ [p EXCEPT !.parked = b].mayJoin = p.mayJoin
         /\ [p EXCEPT !.redirecting = b].mayJoin = p.mayJoin
         /\ [p EXCEPT !.confirming = b].mayJoin = p.mayJoin
         /\ [p EXCEPT !.phase = phase].mayJoin = p.mayJoin
         /\ [p EXCEPT !.at = at].mayJoin = p.mayJoin
  BY DEF Page

LEMMA FreshPage ==
  ASSUME NEW leg \in BOOLEAN
  PROVE  Fresh(leg) \in Page /\ ~Fresh(leg).mayJoin
  BY DEF Fresh, Page, Phases

(* What a step does to the page, and why it may offer a join only once the  *)
(* code is gone.                                                            *)
LEMMA PageStep ==
  ASSUME TabTypes, GateInv, [ClaimNext]_allvars
  PROVE  page' \in Page /\ GateInv'
  <1>0. page \in Page /\ stored \in Nat
    BY TabIdentities DEF TabTypes
  <1> USE DEF GateInv
  <1>1. ASSUME UNCHANGED <<page, stored>> PROVE page' \in Page /\ GateInv'
    BY <1>0, <1>1
  <1>2. CASE Park
    BY <1>0, <1>2 DEF Park, Page, storage
  <1>3. ASSUME NEW c \in Sockets, NEW credential \in {"anon", "account", "failed"},
               Build(c, credential)
        PROVE  page' \in Page /\ GateInv'
    <2>1. CASE credential = "failed"
      BY <1>0, <1>3, <2>1 DEF Build, Page, Phases
    <2>2. CASE credential # "failed"
      BY <1>0, <1>3, <2>2 DEF Build, Page, Phases
    <2> QED BY <2>1, <2>2
  <1>4. ASSUME NEW row \in BOOLEAN, Applied(row) PROVE page' \in Page /\ GateInv'
    BY <1>0, <1>4 DEF Applied, Page, Phases, storage
  <1>5. CASE Drop
    BY <1>1, <1>5 DEF Drop, storage
  <1>6. ASSUME NEW leg \in BOOLEAN, Load(leg) PROVE page' \in Page /\ GateInv'
    BY <1>6, FreshPage DEF Load
  <1>7. ASSUME NEW forced \in BOOLEAN, Resume(forced) PROVE page' \in Page /\ GateInv'
    BY <1>0, <1>7 DEF Resume, Page, storage
  <1>8. CASE OpenClaim
    BY <1>0, <1>8 DEF OpenClaim, Page, Phases, storage
  <1>9. CASE SignIn
    BY <1>0, <1>9 DEF SignIn, Page, Phases
  <1>10. CASE Redirect
    BY <1>0, <1>10 DEF Redirect, Page, Phases, storage
  <1>11. CASE Decline
    BY <1>0, <1>11 DEF Decline, Page, storage
  <1>12. CASE CancelDecline
    BY <1>0, <1>12 DEF CancelDecline, Page, storage
  <1>13. CASE ConfirmDecline
    BY <1>0, <1>13 DEF ConfirmDecline, Page
  <1>14. CASE JoinRequested
    BY <1>1, <1>14 DEF JoinRequested, storage
  <1>15. CASE Registered
    BY <1>0, <1>15 DEF Registered, Page, Phases
  <1>16. CASE Completed
    BY <1>0, <1>16 DEF Completed, Page, Phases
  <1>17. ASSUME NEW c \in Sockets, Serve(c) \/ Close(c) PROVE page' \in Page /\ GateInv'
    BY <1>1, <1>17 DEF Serve, Close, storage
  <1>18. CASE Elsewhere
    BY <1>1, <1>18 DEF Elsewhere, tabvars, storage
  <1>19. CASE UNCHANGED allvars
    BY <1>1, <1>19 DEF allvars, tabvars, storage
  <1> QED BY <1>2, <1>3, <1>4, <1>5, <1>6, <1>7, <1>8, <1>9, <1>10, <1>11, <1>12, <1>13, <1>14,
             <1>15, <1>16, <1>17, <1>18, <1>19 DEF ClaimNext, Browser, Player, Server

-----------------------------------------------------------------------------
(* Types.                                                                   *)

LEMMA JoinType == Join \in Call /\ Join.kind = "join"
  BY TabIdentities DEF Call, Join

LEMMA CallTypes ==
  ASSUME NEW code \in 0..MaxMints
  PROVE  /\ [kind |-> "start", code |-> code] \in Call
         /\ [kind |-> "complete", code |-> code] \in Call
  BY TabIdentities DEF Call, Join

LEMMA CallFields ==
  \A x, y \in Call : x.kind = y.kind /\ x.code = y.code => x = y
  BY DEF Call

LEMMA RefusalType ==
  ASSUME NEW me, NEW code
  PROVE  Refusal(me, code) \in Answers
  BY DEF Refusal, Answers

LEMMA AnsweredDown ==
  ASSUME TabTypes, NEW c, NEW kind \in {"start", "complete"},
         NEW answer \in Answers,
         Answered(c, kind, answer)
  PROVE  /\ down' \in Seq(Answer)
         /\ c # conn => down' = down
         /\ c = conn => \E a \in Answer :
              a.kind = kind /\ a.answer = answer /\ down' = Append(down, a)
  <1> DEFINE has == open[c] \in Holders /\ account[open[c]].claimed
             a == [kind |-> kind, answer |-> answer, claimed |-> has]
  <1>1. CASE c # conn
    BY <1>1 DEF Answered, TabTypes
  <1>2. CASE c = conn
    <2>1. down' = Append(down, a) /\ down \in Seq(Answer)
      BY <1>2 DEF Answered, TabTypes
    <2>2. has \in BOOLEAN
      OBVIOUS
    <2> HIDE DEF has
    <2>3. a \in Answer /\ a.kind = kind /\ a.answer = answer
      BY <2>2 DEF Answer
    <2> HIDE DEF a
    <2> QED BY <1>2, <2>1, <2>3, AppendLast
  <1> QED BY <1>1, <1>2

(* The calls of one socket move up by one when one is served.               *)
LEMMA ServedCalls ==
  ASSUME TabTypes, NEW c \in Sockets, up[c] # <<>>, up' = [up EXCEPT ![c] = Tail(@)]
  PROVE  /\ up' \in [Sockets -> Seq(Call)]
         /\ Len(up'[c]) = Len(up[c]) - 1
         /\ \A d \in Sockets : d # c => up'[d] = up[d]
         /\ \A i \in DOMAIN up'[c] : i + 1 \in DOMAIN up[c] /\ up'[c][i] = up[c][i + 1]
         /\ Head(up[c]) = up[c][1] /\ 1 \in DOMAIN up[c] /\ up[c][1] \in Call
  <1>1. up \in [Sockets -> Seq(Call)] /\ up[c] \in Seq(Call)
    BY DEF TabTypes
  <1>2. up'[c] = Tail(up[c]) /\ \A d \in Sockets : d # c => up'[d] = up[d]
    BY <1>1
  <1>3. /\ Tail(up[c]) \in Seq(Call) /\ Len(Tail(up[c])) = Len(up[c]) - 1
        /\ \A i \in DOMAIN Tail(up[c]) : i + 1 \in DOMAIN up[c] /\ Tail(up[c])[i] = up[c][i + 1]
        /\ Head(up[c]) = up[c][1] /\ 1 \in DOMAIN up[c] /\ up[c][1] \in Call
    BY <1>1, HeadAndTail
  <1>4. up' \in [Sockets -> Seq(Call)]
    BY <1>1, <1>3
  <1> QED BY <1>2, <1>3, <1>4

-----------------------------------------------------------------------------
(* What a page does to itself.                                              *)

LEMMA NoCodeIsDead == TabTypes /\ CodesInv => Dead(0)
  <1> SUFFICES ASSUME TabTypes, CodesInv PROVE Dead(0)
    OBVIOUS
  <1>1. ~HasCode(0)
    BY TabIdentities DEF CodesInv, HasCode
  <1>2. ASSUME NEW c \in Sockets, NEW i \in DOMAIN up[c], up[c][i].kind = "start"
        PROVE  up[c][i].code # 0
    BY <1>2 DEF CodesInv
  <1> QED BY <1>1, <1>2 DEF Dead

LEMMA QuietStep ==
  ASSUME TabInv, UNCHANGED <<vars, minted, marked, ours, up, late>>, stored' \in {0, stored},
         page' \in Page, GateInv',
         \/ /\ conn' = conn /\ (down' = down \/ (down # <<>> /\ down' = Tail(down)))
            /\ link' = link \/ (link.kind = "account" /\ link' = [link EXCEPT !.applied = TRUE])
         \/ conn' = None /\ link' = Down /\ down' = <<>>
  PROVE  TabInv'
  <1> USE DEF TabInv
  <1>0. UNCHANGED <<now, open, player, claim>>
    BY DEF vars, presence, claims
  <1>1. down' \in Seq(Answer) /\ \A i \in DOMAIN down' : \E j \in DOMAIN down : down'[i] = down[j]
    <2>0. down \in Seq(Answer)
      BY DEF TabTypes
    <2>1. CASE down' = down
      BY <2>0, <2>1
    <2>2. CASE down # <<>> /\ down' = Tail(down)
      BY <2>0, <2>2, HeadAndTail
    <2>3. CASE down' = <<>>
      BY <2>3
    <2> QED BY <2>1, <2>2, <2>3
  <1>2. TabTypes'
    <2>1. stored' \in 0..minted
      BY TabIdentities DEF TabTypes
    <2>2. link' \in [kind : {"anon", "account"}, applied : BOOLEAN]
      <3>1. Down \in [kind : {"anon", "account"}, applied : BOOLEAN]
        BY DEF Down
      <3>2. link \in [kind : {"anon", "account"}, applied : BOOLEAN]
        BY DEF TabTypes
      <3>3. [link EXCEPT !.applied = TRUE] \in [kind : {"anon", "account"}, applied : BOOLEAN]
        BY <3>2
      <3> HIDE DEF TabInv
      <3> QED BY <3>1, <3>2, <3>3, Zenon
    <2> QED BY <1>1, <2>1, <2>2 DEF TabTypes
  <1>3. SocketsInv'
    BY <1>0, TabIdentities DEF SocketsInv, TabTypes
  <1>4. CodesInv' /\ OnceInv'
    BY <1>0 DEF CodesInv, OnceInv, HasCode
  <1>5. /\ \A code : Dead(code) => Dead(code)'
        /\ \A code : ~HasCode(code) => ~HasCode(code)'
    BY <1>0 DEF Dead, HasCode, ClaimIsExpired
  <1>6. stored' = 0 => Dead(stored)'
    BY <1>5, NoCodeIsDead
  <1>7. CASE conn' = None /\ link' = Down /\ down' = <<>>
    <2>1. AccountBuildInv'
      BY <1>7 DEF AccountBuildInv, Down
    <2>2. AnonBuildInv'
      BY <1>7, TabIdentities DEF AnonBuildInv, TabTypes
    <2> QED BY <1>2, <1>3, <1>4, <2>1, <2>2
  <1>8. CASE conn' = conn /\ (link' = link \/ (link.kind = "account" /\ link'.kind = "account"))
    <2>1. AccountBuildInv'
      <3> SUFFICES ASSUME link.kind = "account", ~Dead(stored)' PROVE AccountBuildInv'
        BY <1>8 DEF AccountBuildInv, Harmless
      <3>1. stored' = stored /\ ~Dead(stored)
        BY <1>5, <1>6
      <3> QED BY <1>0, <1>1, <1>5, <1>8, <3>1 DEF AccountBuildInv, Harmless
    <2>2. AnonBuildInv'
      BY <1>0, <1>1, <1>8 DEF AnonBuildInv, Before
    <2> QED BY <1>2, <1>3, <1>4, <2>1, <2>2
  <1>9. link.kind = "account" /\ link' = [link EXCEPT !.applied = TRUE] => link'.kind = "account"
    BY DEF TabTypes
  <1> QED BY <1>7, <1>8, <1>9

(* Of all the page does, only building a connection and sending calls is    *)
(* more than that.                                                          *)
LEMMA PageKeeps ==
  ASSUME TabInv,
         \/ Park \/ Drop \/ Redirect \/ Registered \/ Completed
         \/ OpenClaim \/ Decline \/ CancelDecline \/ ConfirmDecline
         \/ \E b \in BOOLEAN : Load(b) \/ Resume(b)
  PROVE  TabInv'
  <1>0. page' \in Page /\ GateInv'
    BY PageStep DEF TabInv, ClaimNext, Browser, Player
  <1>1. CASE Park \/ OpenClaim \/ Decline \/ CancelDecline \/ (\E b \in BOOLEAN : Resume(b))
    <2>1. UNCHANGED <<vars, storage, wires, history>>
      BY <1>1 DEF Park, OpenClaim, Decline, CancelDecline, Resume
    <2> QED BY <1>0, <2>1, QuietStep DEF storage, wires, history
  <1>2. CASE Drop \/ (\E b \in BOOLEAN : Load(b))
    <2>1. UNCHANGED <<vars, storage, ours, up, history>> /\ conn' = None /\ link' = Down /\ down' = <<>>
      BY <1>2 DEF Drop, Load
    <2> QED BY <1>0, <2>1, QuietStep DEF storage, history
  <1>3. CASE Redirect
    <2>1. /\ UNCHANGED <<vars, storage, ours, up, history>>
          /\ \/ conn' = None /\ link' = Down /\ down' = <<>>
             \/ UNCHANGED <<conn, link, down>>
      BY <1>3 DEF Redirect
    <2> QED BY <1>0, <2>1, QuietStep DEF storage, history
  <1>4. CASE ConfirmDecline
    <2>1. UNCHANGED <<vars, marked, minted, wires, history>> /\ stored' = 0
      BY <1>4 DEF ConfirmDecline
    <2> QED BY <1>0, <2>1, QuietStep DEF wires, history
  <1>5. CASE Registered \/ Completed
    <2>1. /\ UNCHANGED <<vars, marked, minted, conn, link, ours, up, history>>
          /\ stored' \in {0, stored} /\ down # <<>> /\ down' = Tail(down)
      BY <1>5 DEF Registered, Completed
    <2> QED BY <1>0, <2>1, QuietStep DEF history
  <1> QED BY <1>1, <1>2, <1>3, <1>4, <1>5

-----------------------------------------------------------------------------
(* Sending.                                                                 *)

(* A queue after a call was sent: what it held before, and perhaps the call *)
(* at its end.                                                              *)
LEMMA SentEntries ==
  ASSUME TabTypes, NEW call \in Call, up' = Sent(call),
         NEW c \in Sockets, NEW i \in DOMAIN up'[c]
  PROVE  \/ i \in DOMAIN up[c] /\ up'[c][i] = up[c][i]
         \/ conn \in ours /\ c = conn /\ i = Len(up[conn]) + 1 /\ up'[c][i] = call
  <1>1. CASE c # conn \/ conn \notin ours
    BY <1>1, SentCalls
  <1>2. CASE c = conn /\ conn \in ours
    <2>1. /\ DOMAIN up'[conn] = 1 .. (Len(up[conn]) + 1)
          /\ up'[conn][Len(up[conn]) + 1] = call
          /\ \A j \in DOMAIN up[conn] : up'[conn][j] = up[conn][j]
      BY <1>2, SentCalls
    <2>2. DOMAIN up[conn] = 1 .. Len(up[conn]) /\ Len(up[conn]) \in Nat
      BY <1>2 DEF TabTypes
    <2>3. i \in 1 .. Len(up[conn]) \/ i = Len(up[conn]) + 1
      BY <1>2, <2>1, <2>2
    <2> QED BY <1>2, <2>1, <2>2, <2>3
  <1> QED BY <1>1, <1>2

LEMMA SendKeeps ==
  ASSUME TabInv, NEW call \in Call, up' = Sent(call),
         UNCHANGED <<vars, marked, conn, ours, down, late>>,
         page' \in Page, GateInv', minted' \in 0..MaxMints, minted <= minted',
         stored' \in 0..minted',
         link' \in [kind : {"anon", "account"}, applied : BOOLEAN], link'.kind = link.kind,
         call.kind # "join" => call.code \in 1..minted',
         call.kind = "complete" => link.kind = "account",
         call.kind = "start" => call.code > minted
  PROVE  /\ TabTypes' /\ SocketsInv' /\ CodesInv' /\ OnceInv'
         /\ \A code : (call.kind = "start" => call.code # code \/ link.kind = "account")
              /\ Dead(code) => Dead(code)'
         /\ UNCHANGED <<now, open, player, claim>>
  <1> USE DEF TabInv
  <1>0. UNCHANGED <<now, open, player, claim>>
    BY DEF vars, presence, claims
  <1>1. TabTypes'
    <2>1. up' \in [Sockets -> Seq(Call)]
      BY SentCalls
    <2> QED BY <2>1 DEF TabTypes
  <1>2. SocketsInv'
    <2>1. \A c \in Sockets \ ours : up'[c] = up[c]
      BY SentCalls
    <2> QED BY <1>0, <2>1 DEF SocketsInv
  <1>3. conn \in ours => open[conn] = IF link.kind = "account" THEN Holder ELSE Guest
    BY DEF SocketsInv
  <1>4. minted \in Nat /\ minted' \in Nat
    BY TabIdentities DEF TabTypes
  <1>5. CodesInv'
    <2>1. \A g \in Guests : claim'[g] # None => g = Guest /\ claim'[g].code \in 1..minted'
      BY <1>0, <1>4 DEF CodesInv
    <2>2. ASSUME NEW c \in Sockets, NEW i \in DOMAIN up'[c]
          PROVE  /\ up'[c][i].kind # "join" => up'[c][i].code \in 1..minted'
                 /\ up'[c][i].kind = "complete" => open'[c] = Holder
      <3>1. CASE i \in DOMAIN up[c] /\ up'[c][i] = up[c][i]
        BY <1>0, <1>4, <3>1 DEF CodesInv
      <3>2. CASE conn \in ours /\ c = conn /\ up'[c][i] = call
        BY <1>0, <1>3, <3>2
      <3> QED BY <3>1, <3>2, SentEntries
    <2> QED BY <2>1, <2>2 DEF CodesInv
  <1>6. \A c \in Sockets : \A i \in DOMAIN up[c] :
          up[c][i].kind = "start" => up[c][i].code \in 1..minted
    BY DEF CodesInv
  <1>7. call.kind = "start" => ~HasCode(call.code)
    BY <1>4, TabIdentities DEF CodesInv, HasCode, Call
  <1>8. OnceInv'
    <2>1. ASSUME NEW c \in Sockets, NEW i \in DOMAIN up'[c], up'[c][i].kind = "start"
          PROVE  ~HasCode(up[c][i].code)'
      <3>1. CASE i \in DOMAIN up[c] /\ up'[c][i] = up[c][i]
        BY <1>0, <2>1, <3>1 DEF OnceInv, HasCode
      <3>2. CASE conn \in ours /\ c = conn /\ up'[c][i] = call
        BY <1>0, <1>7, <2>1, <3>2 DEF HasCode
      <3> QED BY <3>1, <3>2, SentEntries
    <2>2. ASSUME NEW c \in Sockets, NEW d \in Sockets,
                 NEW i \in DOMAIN up'[c], NEW j \in DOMAIN up'[d],
                 up'[c][i].kind = "start", up'[d][j] = up'[c][i]
          PROVE  c = d /\ i = j
      <3>1. CASE i \in DOMAIN up[c] /\ up'[c][i] = up[c][i] /\ j \in DOMAIN up[d]
                 /\ up'[d][j] = up[d][j]
        BY <2>2, <3>1 DEF OnceInv
      <3>2. CASE up'[c][i] = call
        <4>1. ~(i \in DOMAIN up[c] /\ up'[c][i] = up[c][i])
          BY <1>4, <1>6, <2>2, <3>2 DEF Call
        <4>2. ~(j \in DOMAIN up[d] /\ up'[d][j] = up[d][j])
          BY <1>4, <1>6, <2>2, <3>2 DEF Call
        <4> QED BY <4>1, <4>2, SentEntries
      <3>3. CASE up'[d][j] = call
        BY <2>2, <3>2, <3>3
      <3> QED BY <3>1, <3>2, <3>3, SentEntries
    <2> QED BY <2>1, <2>2 DEF OnceInv
  <1>9. ASSUME NEW code, call.kind = "start" => call.code # code \/ link.kind = "account",
               Dead(code)
        PROVE  Dead(code)'
    <2>1. HasCode(code)' => ClaimIsExpired(claim[Guest].expiresAt)'
      BY <1>0, <1>9 DEF Dead, HasCode, ClaimIsExpired
    <2>2. ASSUME NEW c \in Sockets, NEW i \in DOMAIN up'[c],
                 up'[c][i].kind = "start", up'[c][i].code = code
          PROVE  open'[c] = Holder
      <3>1. CASE i \in DOMAIN up[c] /\ up'[c][i] = up[c][i]
        BY <1>0, <1>9, <2>2, <3>1 DEF Dead
      <3>2. CASE conn \in ours /\ c = conn /\ up'[c][i] = call
        BY <1>0, <1>3, <1>9, <2>2, <3>2
      <3> QED BY <3>1, <3>2, SentEntries
    <2> QED BY <2>1, <2>2 DEF Dead
  <1> QED BY <1>0, <1>1, <1>2, <1>5, <1>8, <1>9

(* On a build of the guest's, the join comes first.                         *)
LEMMA SendKeepsOrder ==
  ASSUME TabInv, NEW call \in Call, up' = Sent(call),
         UNCHANGED <<player, conn, ours, down>>, link'.kind = link.kind,
         call.kind = "start" => link.applied,
         link'.applied => link.applied \/ call.kind = "join"
  PROVE  AnonBuildInv'
  <1> SUFFICES ASSUME link.kind = "anon" PROVE AnonBuildInv'
    BY DEF AnonBuildInv
  <1>1. \A i \in DOMAIN down' : down'[i].kind = "start" /\ down'[i].answer = "ok"
    BY DEF TabInv, AnonBuildInv
  <1>2. CASE conn \notin ours
    BY <1>1, <1>2 DEF AnonBuildInv
  <1>3. CASE conn \in ours
    <2>1. PICK n \in Nat : /\ conn \in Sockets /\ n = Len(up[conn])
                           /\ DOMAIN up[conn] = 1 .. n
      BY <1>3 DEF TabInv, TabTypes
    <2>2. /\ Len(up'[conn]) = n + 1 /\ DOMAIN up'[conn] = 1 .. (n + 1)
          /\ up'[conn][n + 1] = call
          /\ \A i \in 1 .. n : up'[conn][i] = up[conn][i]
      BY <1>3, <2>1, SentCalls DEF TabInv
    <2>3. ASSUME NEW i \in 1 .. (n + 1), Before(conn, i) PROVE Before(conn, i)'
      BY <2>1, <2>2, <2>3 DEF Before
    <2>4. link.applied => Before(conn, n + 1)
      BY <1>3, <2>1 DEF TabInv, AnonBuildInv
    <2>5. link'.applied => Before(conn, Len(up[conn]) + 1)'
      <3>1. ASSUME Before(conn, n + 1) PROVE Before(conn, n + 2)'
        BY <2>1, <2>2, <3>1 DEF Before
      <3>2. ASSUME call.kind = "join" PROVE Before(conn, n + 2)'
        <4>1. n + 1 \in 1 .. ((n + 2) - 1) /\ up'[conn][n + 1].kind = "join"
          BY <2>1, <2>2, <3>2
        <4> QED BY <4>1 DEF Before
      <3>3. Len(up'[conn]) + 1 = n + 2
        BY <2>1, <2>2
      <3> QED BY <2>4, <3>1, <3>2, <3>3 DEF Before
    <2>6. ASSUME NEW i \in DOMAIN up'[conn], up'[conn][i].kind = "start"
          PROVE  Before(conn, i)'
      <3>1. CASE i \in 1 .. n
        <4>1. Before(conn, i)
          BY <1>3, <2>1, <2>2, <2>6, <3>1 DEF TabInv, AnonBuildInv
        <4> QED BY <2>1, <2>3, <3>1, <4>1
      <3>2. CASE i = n + 1
        BY <2>1, <2>2, <2>3, <2>4, <2>6, <3>2
      <3> QED BY <2>1, <2>2, <3>1, <3>2
    <2> QED BY <1>1, <2>5, <2>6 DEF AnonBuildInv
  <1> QED BY <1>2, <1>3

(* On a build of the account's, a code that could still be registered is    *)
(* only redeemed.                                                           *)
LEMMA SendKeepsVeto ==
  ASSUME TabInv, NEW call \in Call, up' = Sent(call), stored' = stored,
         UNCHANGED <<open, now, claim, conn, ours, down, late>>, link'.kind = link.kind,
         \A code : Dead(code) => Dead(code)',
         link.kind = "account" =>
           stored = 0 \/ (call.kind = "complete" /\ call.code = stored)
  PROVE  AccountBuildInv'
  <1> SUFFICES ASSUME link.kind = "account", ~Dead(stored)' PROVE AccountBuildInv'
    BY DEF AccountBuildInv, Harmless
  <1>1. ~Dead(stored) /\ stored # 0
    BY NoCodeIsDead DEF TabInv
  <1>2. ASSUME conn \in ours, NEW i \in DOMAIN up'[conn]
        PROVE  up'[conn][i].kind = "complete" /\ up'[conn][i].code = stored'
    <2>1. conn \in Sockets
      BY <1>2 DEF TabInv, TabTypes
    <2>2. CASE i \in DOMAIN up[conn] /\ up'[conn][i] = up[conn][i]
      BY <1>1, <1>2, <2>2 DEF TabInv, AccountBuildInv
    <2>3. CASE up'[conn][i] = call
      BY <1>1, <2>3
    <2> QED BY <1>2, <2>1, <2>2, <2>3, SentEntries DEF TabInv
  <1>3. ASSUME NEW i \in DOMAIN down
        PROVE  \/ down[i].kind = "complete" /\ down[i].answer \notin {"ok", "expired", "invalid"}
               \/ down[i].kind = "complete" /\ down[i].answer = "invalid"
                    /\ (stored \in late \/ ~HasCode(stored))
    BY <1>1 DEF TabInv, AccountBuildInv, Harmless
  <1>4. ~HasCode(stored) => ~HasCode(stored)'
    BY DEF HasCode
  <1> QED BY <1>2, <1>3, <1>4 DEF AccountBuildInv, Harmless

LEMMA AppliedKeeps ==
  ASSUME TabInv, NEW row \in BOOLEAN, Applied(row)
  PROVE  TabInv'
  <1> USE DEF TabInv
  <1>0. /\ page' \in Page /\ GateInv'
        /\ minted \in 0..MaxMints /\ stored \in 0..minted /\ minted \in Nat
        /\ UNCHANGED <<vars, storage, conn, ours, down, history>>
        /\ link \in [kind : {"anon", "account"}, applied : BOOLEAN]
        /\ link' = [link EXCEPT !.applied = TRUE]
    BY PageStep, TabIdentities DEF ClaimNext, Browser, Applied, TabTypes
  <1>1. /\ link' \in [kind : {"anon", "account"}, applied : BOOLEAN] /\ link'.kind = link.kind
        /\ minted' = minted /\ stored' = stored /\ marked' = marked /\ late' = late
        /\ minted <= minted' /\ stored' \in 0..minted' /\ minted' \in 0..MaxMints
    <2>1. link' \in [kind : {"anon", "account"}, applied : BOOLEAN] /\ link'.kind = link.kind
      BY <1>0
    <2>2. minted' = minted /\ stored' = stored /\ marked' = marked /\ late' = late
      BY <1>0 DEF storage, history
    <2> QED BY <1>0, <2>1, <2>2
  <1>2. CASE Joins(row) /\ up' = Sent(Join)
    <2>1. Join \in Call /\ Join.kind = "join"
      BY JoinType
    <2>2. link.kind = "account" => stored = 0
      BY <1>2 DEF Joins
    <2>3. /\ TabTypes' /\ SocketsInv' /\ CodesInv' /\ OnceInv'
          /\ \A code : Dead(code) => Dead(code)'
          /\ UNCHANGED <<now, open, player, claim>>
      <3>1. UNCHANGED <<vars, marked, conn, ours, down, late>>
        BY <1>0, <1>1
      <3>2. page' \in Page /\ GateInv'
        BY <1>0
      <3> HIDE DEF TabInv
      <3> QED BY ONLY TabInv, <1>1, <1>2, <2>1, <3>1, <3>2, SendKeeps
    <2>4. AnonBuildInv'
      BY <1>0, <1>1, <1>2, <2>1, <2>3, SendKeepsOrder
    <2>5. AccountBuildInv'
      BY <1>0, <1>1, <1>2, <2>1, <2>2, <2>3, SendKeepsVeto DEF storage, history
    <2> QED BY <1>0, <2>3, <2>4, <2>5
  <1>3. ASSUME ~Joins(row), up' = Sent([kind |-> "complete", code |-> stored])
        PROVE  TabInv'
    <2>1. link.kind = "account" /\ stored # 0 /\ stored \in 1..minted
      BY <1>0, <1>1, <1>3 DEF Joins
    <2> DEFINE call == [kind |-> "complete", code |-> stored]
    <2>2. stored \in 0..MaxMints
      BY <1>0, TabIdentities
    <2>3. PICK c \in Call : c.kind = "complete" /\ c.code = stored /\ up' = Sent(c)
      <3>1. call \in Call /\ call.kind = "complete" /\ call.code = stored
        BY <2>2, CallTypes
      <3> QED BY <1>3, <3>1
    <2>4. /\ TabTypes' /\ SocketsInv' /\ CodesInv' /\ OnceInv'
          /\ \A code : Dead(code) => Dead(code)'
          /\ UNCHANGED <<now, open, player, claim>>
      <3>1. UNCHANGED <<vars, marked, conn, ours, down, late>>
        BY <1>0, <1>1
      <3>2. page' \in Page /\ GateInv'
        BY <1>0
      <3>3. stored \in 1..minted'
        BY <1>1, <2>1
      <3> HIDE DEF TabInv
      <3> QED BY ONLY TabInv, <1>1, <2>1, <2>3, <3>1, <3>2, <3>3, SendKeeps
    <2>5. AnonBuildInv'
      BY <1>1, <2>1 DEF AnonBuildInv
    <2>6. AccountBuildInv'
      BY <1>0, <1>1, <2>3, <2>4, SendKeepsVeto DEF storage, history
    <2> QED BY <1>0, <2>4, <2>5, <2>6
  <1>4. CASE ~Joins(row) /\ UNCHANGED up
    <2>1. link.kind = "account"
      BY <1>4 DEF Joins
    <2> QED BY <1>0, <1>4, <2>1, QuietStep DEF storage, history
  <1> QED BY <1>2, <1>3, <1>4 DEF Applied

LEMMA JoinRequestedKeeps ==
  ASSUME TabInv, JoinRequested
  PROVE  TabInv'
  <1> USE DEF TabInv
  <1>0. /\ page' \in Page /\ GateInv'
        /\ minted \in 0..MaxMints /\ stored \in 0..minted /\ minted \in Nat
        /\ UNCHANGED <<vars, storage, page, conn, link, ours, down, history>>
        /\ link \in [kind : {"anon", "account"}, applied : BOOLEAN]
        /\ link.applied /\ stored = 0 /\ up' = Sent(Join)
    BY PageStep, TabIdentities DEF ClaimNext, Player, JoinRequested, TabTypes, Usable, GateInv
  <1>1. Join \in Call /\ Join.kind = "join"
    BY JoinType
  <1>2. /\ TabTypes' /\ SocketsInv' /\ CodesInv' /\ OnceInv'
        /\ \A code : Dead(code) => Dead(code)'
        /\ UNCHANGED <<now, open, player, claim>>
    BY <1>0, <1>1, SendKeeps DEF storage, history
  <1>3. AnonBuildInv'
    BY <1>0, <1>1, <1>2, SendKeepsOrder
  <1>4. AccountBuildInv'
    BY <1>0, <1>1, <1>2, SendKeepsVeto DEF storage, history
  <1> QED BY <1>0, <1>2, <1>3, <1>4

(* A code minted on a build of the account's will never be registered.      *)
LEMMA SignInKeeps ==
  ASSUME TabInv, SignIn
  PROVE  TabInv'
  <1> USE DEF TabInv
  <1>0. /\ page' \in Page /\ GateInv'
        /\ minted \in 0..MaxMints /\ stored \in 0..minted /\ minted \in Nat
        /\ UNCHANGED <<vars, marked, conn, link, ours, down, history>>
        /\ link \in [kind : {"anon", "account"}, applied : BOOLEAN]
    BY PageStep, TabIdentities DEF ClaimNext, Player, SignIn, TabTypes
  <1>1. CASE ~Usable
    <2>1. UNCHANGED <<stored, minted, up>>
      BY <1>1 DEF SignIn
    <2> QED BY <1>0, <2>1, QuietStep DEF history
  <1>2. CASE Usable
    <2>1. /\ link.applied /\ minted' = minted + 1 /\ stored' = minted + 1
          /\ minted' \in 1..MaxMints
      BY <1>0, <1>2, TabIdentities DEF SignIn, Usable
    <2>2. PICK call \in Call : call.kind = "start" /\ call.code = minted + 1 /\ up' = Sent(call)
      <3>1. [kind |-> "start", code |-> minted + 1] \in Call
        BY <1>0, <2>1, TabIdentities DEF Call
      <3> QED BY <1>2, <3>1 DEF SignIn
    <2>3. /\ TabTypes' /\ SocketsInv' /\ CodesInv' /\ OnceInv'
          /\ \A code : link.kind = "account" /\ Dead(code) => Dead(code)'
          /\ UNCHANGED <<now, open, player, claim>>
      BY <1>0, <2>1, <2>2, SendKeeps, TabIdentities DEF history
    <2>4. AnonBuildInv'
      BY <1>0, <2>1, <2>2, <2>3, SendKeepsOrder
    <2>5. Dead(minted + 1)
      BY <1>0, TabIdentities DEF CodesInv, Dead, HasCode
    <2>6. PICK code : code = minted + 1 /\ Dead(code)
      BY <2>5
    <2>7. link.kind = "account" => Dead(code)'
      BY <2>3, <2>6
    <2>8. link.kind = "account" => Dead(stored)'
      BY <2>1, <2>6, <2>7 DEF Dead
    <2>9. AccountBuildInv'
      BY <1>0, <2>8 DEF AccountBuildInv, Harmless
    <2> QED BY <1>0, <2>3, <2>4, <2>9
  <1> QED BY <1>1, <1>2

-----------------------------------------------------------------------------
(* What the server does.                                                    *)

(* Calls are served from the front of a queue, or lost with their socket.   *)
Moved(off) == \A c \in Sockets : \A i \in DOMAIN up'[c] :
  i + off[c] \in DOMAIN up[c] /\ up'[c][i] = up[c][i + off[c]]

LEMMA ServedMove ==
  ASSUME TabTypes, NEW c \in Sockets, up[c] # <<>>, up' = [up EXCEPT ![c] = Tail(@)]
  PROVE  \E off \in [Sockets -> Nat] : off[c] = 1 /\ Moved(off)
  <1> DEFINE off == [d \in Sockets |-> IF d = c THEN 1 ELSE 0]
  <1>1. off \in [Sockets -> Nat] /\ off[c] = 1 /\ \A d \in Sockets : d # c => off[d] = 0
    OBVIOUS
  <1> HIDE DEF off
  <1>2. ASSUME NEW d \in Sockets, NEW i \in DOMAIN up'[d]
        PROVE  i + off[d] \in DOMAIN up[d] /\ up'[d][i] = up[d][i + off[d]]
    <2>1. CASE d = c
      <3>1. \A j \in DOMAIN up'[c] : j + 1 \in DOMAIN up[c] /\ up'[c][j] = up[c][j + 1]
        BY ServedCalls
      <3> QED BY <1>1, <1>2, <2>1, <3>1
    <2>2. CASE d # c
      <3>1. up'[d] = up[d] /\ up[d] \in Seq(Call)
        BY <2>2, ServedCalls DEF TabTypes
      <3>2. i + 0 = i
        BY <1>2, <3>1
      <3> QED BY <1>1, <1>2, <2>2, <3>1, <3>2
    <2> QED BY <2>1, <2>2
  <1> QED BY <1>1, <1>2 DEF Moved

(* A code that will not work stays so while nothing is registered.          *)
LEMMA NothingRegistered ==
  ASSUME TypeOK, TabInv, TabTypes', NEW off \in [Sockets -> Nat], Moved(off),
         now' \in Nat, now <= now', minted' = minted,
         \A g \in Guests : claim'[g] # None => claim'[g] = claim[g],
         \A c \in Sockets : up'[c] # <<>> => open'[c] = open[c]
  PROVE  /\ CodesInv' /\ OnceInv'
         /\ \A code : Dead(code) => Dead(code)'
         /\ \A code : ~HasCode(code) => ~HasCode(code)'
  <1> USE DEF TabInv
  <1>0. ASSUME NEW c \in Sockets, NEW i \in DOMAIN up'[c]
        PROVE  /\ i \in Nat /\ open'[c] = open[c] /\ off[c] \in Nat
               /\ i + off[c] \in DOMAIN up[c] /\ up'[c][i] = up[c][i + off[c]]
    <2>1. up'[c] \in Seq(Call)
      BY DEF TabTypes
    <2> QED BY <1>0, <2>1 DEF Moved
  <1>1. \A code : HasCode(code)' => HasCode(code) /\ claim'[Guest] = claim[Guest]
    BY TabIdentities DEF HasCode
  <1>2. CodesInv'
    BY <1>0 DEF CodesInv
  <1>3. OnceInv'
    <2>1. ASSUME NEW c \in Sockets, NEW i \in DOMAIN up'[c], up'[c][i].kind = "start"
          PROVE  ~HasCode(up[c][i].code)'
      BY <1>0, <1>1, <2>1 DEF OnceInv
    <2>2. ASSUME NEW c \in Sockets, NEW d \in Sockets,
                 NEW i \in DOMAIN up'[c], NEW j \in DOMAIN up'[d],
                 up'[c][i].kind = "start", up'[d][j] = up'[c][i]
          PROVE  c = d /\ i = j
      <3>1. c = d /\ i + off[c] = j + off[d]
        BY <1>0, <2>2 DEF OnceInv
      <3> QED BY <1>0, <3>1
    <2> QED BY <2>1, <2>2 DEF OnceInv
  <1>4. ASSUME NEW code, Dead(code) PROVE Dead(code)'
    <2>1. HasCode(code)' => ClaimIsExpired(claim[Guest].expiresAt)'
      <3>1. HasCode(code)' => HasCode(code) /\ claim'[Guest] = claim[Guest]
                              /\ now >= claim[Guest].expiresAt /\ claim[Guest].expiresAt \in Nat
        BY <1>1, <1>4, TabIdentities DEF Dead, ClaimIsExpired, TypeOK, Claim, HasCode
      <3> QED BY <3>1 DEF ClaimIsExpired, TypeOK
    <2>2. ASSUME NEW c \in Sockets, NEW i \in DOMAIN up'[c],
                 up'[c][i].kind = "start", up'[c][i].code = code
          PROVE  open'[c] = Holder
      BY <1>0, <1>4, <2>2 DEF Dead
    <2> QED BY <2>1, <2>2 DEF Dead
  <1> QED BY <1>1, <1>2, <1>3, <1>4

(* A code is registered from a socket of the guest's, and from no other     *)
(* call again.                                                              *)
LEMMA OneRegistered ==
  ASSUME TabInv, TabTypes', NEW c \in Sockets, up[c] # <<>>, up' = [up EXCEPT ![c] = Tail(@)],
         up[c][1].kind = "start", open[c] = Guest, NEW at \in Nat,
         claim \in [Guests -> Claim \cup {None}],
         claim' = [claim EXCEPT ![Guest] = [code |-> up[c][1].code, expiresAt |-> at]],
         UNCHANGED <<now, open, minted>>
  PROVE  /\ CodesInv' /\ OnceInv'
         /\ \A code : Dead(code) => Dead(code)'
         /\ \A code : ~HasCode(code) /\ code # up[c][1].code => ~HasCode(code)'
  <1> USE DEF TabInv
  <1>0. PICK off \in [Sockets -> Nat] : off[c] = 1 /\ Moved(off)
    BY ServedMove
  <1>1. ASSUME NEW d \in Sockets, NEW i \in DOMAIN up'[d]
        PROVE  /\ i \in Nat \ {0} /\ off[d] \in Nat
               /\ i + off[d] \in DOMAIN up[d] /\ up'[d][i] = up[d][i + off[d]]
    <2>1. up'[d] \in Seq(Call)
      BY DEF TabTypes
    <2> QED BY <1>0, <1>1, <2>1 DEF Moved
  <1>2. PICK k : k = up[c][1].code /\ k \in 1..minted /\ 1 \in DOMAIN up[c]
    BY ServedCalls DEF CodesInv
  <1>3. \A code : HasCode(code)' <=> code = k
    <2>1. claim'[Guest] = [code |-> k, expiresAt |-> at]
      BY <1>2, TabIdentities
    <2>2. k \in Codes
      BY <1>2, TabIdentities DEF TabTypes
    <2>3. claim'[Guest] \in Claim /\ claim'[Guest].code = k
      BY <2>1, <2>2 DEF Claim
    <2> QED BY <2>3, NobodyIsNoClaim DEF HasCode
  <1>4. claim'[Guest] # None
    BY <1>3 DEF HasCode
  <1>5. ASSUME NEW d \in Sockets, NEW i \in DOMAIN up'[d], up'[d][i].kind = "start"
        PROVE  up'[d][i].code # k
    <2>1. up'[d][i] \in Call /\ up[c][1] \in Call
      BY <1>1, <1>2, SMTT(30) DEF TabTypes
    <2>2. up'[d][i].code = k => up'[d][i] = up[c][1]
      BY <1>2, <1>5, <2>1, CallFields
    <2>3. up[d][i + off[d]] # up[c][1]
      <3> SUFFICES ASSUME up[d][i + off[d]] = up[c][1] PROVE FALSE
        OBVIOUS
      <3>1. d = c /\ i + off[d] = 1
        BY <1>1, <1>2, <1>5 DEF OnceInv
      <3> QED BY <1>0, <1>1, <3>1
    <2> QED BY <1>1, <1>5, <2>2, <2>3
  <1>6. CodesInv'
    <2>1. \A g \in Guests : claim'[g] # None => g = Guest /\ claim'[g].code \in 1..minted
      BY <1>2, TabIdentities DEF CodesInv
    <2> QED BY <1>1, <2>1 DEF CodesInv
  <1>7. OnceInv'
    <2>1. ASSUME NEW d \in Sockets, NEW i \in DOMAIN up'[d], up'[d][i].kind = "start"
          PROVE  ~HasCode(up[d][i].code)'
      BY <1>3, <1>5, <2>1
    <2>2. ASSUME NEW d \in Sockets, NEW e \in Sockets,
                 NEW i \in DOMAIN up'[d], NEW j \in DOMAIN up'[e],
                 up'[d][i].kind = "start", up'[e][j] = up'[d][i]
          PROVE  d = e /\ i = j
      <3>1. d = e /\ i + off[d] = j + off[e]
        BY <1>1, <2>2 DEF OnceInv
      <3> QED BY <1>1, <3>1
    <2> QED BY <2>1, <2>2 DEF OnceInv
  <1>8. ASSUME NEW code, Dead(code) PROVE Dead(code)'
    <2>1. code # k
      BY <1>2, <1>8, NobodyIsNoIdentity, TabIdentities DEF Dead
    <2>2. ASSUME NEW d \in Sockets, NEW i \in DOMAIN up'[d],
                 up'[d][i].kind = "start", up'[d][i].code = code
          PROVE  open'[d] = Holder
      BY <1>1, <1>8, <2>2 DEF Dead
    <2> QED BY <1>3, <2>1, <2>2 DEF Dead
  <1> QED BY <1>2, <1>3, <1>6, <1>7, <1>8

(* What serving a call of socket c leaves alone.                            *)
LEMMA ServeRest ==
  ASSUME TabInv, NEW c \in ours, up[c] # <<>>, up' = [up EXCEPT ![c] = Tail(@)],
         UNCHANGED <<storage, page, conn, link, ours, open>>,
         down' \in Seq(Answer), c # conn => down' = down
  PROVE  TabTypes' /\ SocketsInv' /\ GateInv'
  <1> USE DEF TabInv
  <1>1. c \in Sockets /\ c # None
    BY TabIdentities DEF TabTypes
  <1>2. TabTypes'
    <2>1. up' \in [Sockets -> Seq(Call)]
      BY <1>1, ServedCalls
    <2> QED BY <2>1 DEF TabTypes, storage
  <1>3. SocketsInv'
    <2>1. \A d \in Sockets \ ours : up'[d] = up[d]
      BY <1>1, ServedCalls
    <2> QED BY <1>1, <2>1 DEF SocketsInv
  <1> QED BY <1>2, <1>3 DEF GateInv, storage

LEMMA ServeAnon ==
  ASSUME TabInv, NEW c \in ours, up[c] # <<>>, up' = [up EXCEPT ![c] = Tail(@)],
         UNCHANGED <<conn, link, ours>>, link.kind = "anon", player \subseteq player',
         c = conn /\ up[c][1].kind = "join" => Guest \in player',
         \A i \in DOMAIN down' : down'[i].kind = "start" /\ down'[i].answer = "ok"
  PROVE  AnonBuildInv'
  <1> USE DEF TabInv
  <1>0. c \in Sockets
    BY DEF TabTypes
  <1>1. CASE Guest \in player'
    BY <1>1 DEF AnonBuildInv, Before
  <1>2. CASE conn \notin ours
    BY <1>2 DEF AnonBuildInv
  <1>3. CASE conn \in ours /\ c # conn
    <2>1. up'[conn] = up[conn]
      BY <1>0, <1>3, ServedCalls DEF TabTypes
    <2> QED BY <1>3, <2>1 DEF AnonBuildInv, Before
  <1>4. CASE c = conn /\ Guest \notin player'
    <2>1. PICK n \in Nat : n = Len(up[conn]) /\ DOMAIN up[conn] = 1 .. n /\ n > 0
      <3>1. up[conn] \in Seq(Call) /\ 1 \in DOMAIN up[conn]
        BY <1>0, <1>4, ServedCalls DEF TabTypes
      <3> QED BY <3>1
    <2>2. /\ Len(up'[conn]) = n - 1 /\ DOMAIN up'[conn] = 1 .. (n - 1)
          /\ \A i \in 1 .. (n - 1) : up'[conn][i] = up[conn][i + 1]
      <3>1. /\ up'[conn] \in Seq(Call) /\ Len(up'[conn]) = n - 1
            /\ \A i \in DOMAIN up'[conn] : up'[conn][i] = up[conn][i + 1]
        BY <1>0, <1>4, <2>1, ServedCalls
      <3> QED BY <2>1, <3>1
    <2>3. ASSUME NEW i \in 1 .. n, Before(conn, i + 1) PROVE Before(conn, i)'
      <3>1. PICK j \in 1 .. i : up[conn][j].kind = "join"
        BY <1>4, <2>3 DEF Before
      <3>2. j # 1
        BY <1>4, <3>1
      <3>3. j - 1 \in 1 .. (i - 1) /\ j - 1 \in 1 .. (n - 1) /\ (j - 1) + 1 = j
        BY <2>1, <3>1, <3>2
      <3>4. up'[conn][j - 1].kind = "join"
        BY <2>2, <3>1, <3>3
      <3> QED BY <3>3, <3>4 DEF Before
    <2>4. link.applied => Before(conn, Len(up[conn]) + 1)'
      <3>1. link.applied => Before(conn, n + 1)
        BY <1>4, <2>1 DEF AnonBuildInv
      <3>2. link.applied => Before(conn, n)'
        BY <2>1, <2>3, <3>1
      <3>3. Len(up'[conn]) + 1 = n
        BY <2>1, <2>2
      <3> QED BY <3>2, <3>3 DEF Before
    <2>5. ASSUME NEW i \in DOMAIN up'[conn], up'[conn][i].kind = "start"
          PROVE  Before(conn, i)'
      <3>1. i + 1 \in DOMAIN up[conn] /\ up[conn][i + 1].kind = "start" /\ i \in 1 .. n
        BY <2>1, <2>2, <2>5
      <3>2. Before(conn, i + 1)
        BY <1>4, <3>1 DEF AnonBuildInv
      <3> QED BY <2>3, <3>1, <3>2
    <2> QED BY <2>4, <2>5 DEF AnonBuildInv
  <1> QED BY <1>1, <1>2, <1>3, <1>4

LEMMA ServeAccount ==
  ASSUME TabInv, NEW c \in ours, up[c] # <<>>, up' = [up EXCEPT ![c] = Tail(@)],
         UNCHANGED <<conn, link, ours, stored>>,
         Dead(stored) => Dead(stored)',
         ~HasCode(stored) => stored \in late' \/ ~HasCode(stored)', late \subseteq late',
         \/ down' = down
         \/ \E a \in Answer : down' = Append(down, a) /\ Harmless(a)'
  PROVE  AccountBuildInv'
  <1> USE DEF TabInv
  <1>0. c \in Sockets /\ down \in Seq(Answer)
    BY DEF TabTypes
  <1> SUFFICES ASSUME link.kind = "account" PROVE AccountBuildInv'
    BY DEF AccountBuildInv
  <1>1. ASSUME conn \in ours, NEW i \in DOMAIN up'[conn]
        PROVE  Dead(stored)' \/ (up'[conn][i].kind = "complete" /\ up'[conn][i].code = stored)
    <2>1. \E j \in DOMAIN up[conn] : up'[conn][i] = up[conn][j]
      <3>1. CASE c = conn
        <4>1. \A j \in DOMAIN up'[c] : j + 1 \in DOMAIN up[c] /\ up'[c][j] = up[c][j + 1]
          BY <1>0, ServedCalls
        <4> QED BY <1>1, <3>1, <4>1
      <3>2. CASE c # conn
        <4>1. up'[conn] = up[conn]
          BY <1>0, <1>1, <3>2, ServedCalls DEF TabTypes
        <4> QED BY <1>1, <4>1
      <3> QED BY <3>1, <3>2
    <2> QED BY <1>1, <2>1 DEF AccountBuildInv
  <1>2. ASSUME NEW a, Harmless(a) PROVE Harmless(a)'
    BY <1>2 DEF Harmless
  <1>3. \A i \in DOMAIN down : Harmless(down[i])
    BY DEF AccountBuildInv
  <1>4. ASSUME NEW i \in DOMAIN down' PROVE Harmless(down[i])'
    <2>1. CASE down' = down
      BY <1>2, <1>3, <1>4, <2>1
    <2>2. ASSUME NEW a \in Answer, down' = Append(down, a), Harmless(a)'
          PROVE  Harmless(down[i])'
      <3>1. CASE i \in DOMAIN down
        <4>1. down'[i] = down[i]
          BY <1>0, <2>2, <3>1, AppendLast
        <4> QED BY <1>2, <1>3, <3>1, <4>1
      <3>2. CASE i \notin DOMAIN down
        <4>1. i = Len(down) + 1
          BY <1>0, <1>4, <2>2, <3>2, AppendLast
        <4>2. down'[i] = a
          BY <1>0, <2>2, <4>1, AppendLast
        <4> QED BY <2>2, <4>2
      <3> QED BY <3>1, <3>2
    <2> QED BY <2>1, <2>2
  <1> QED BY <1>1, <1>4 DEF AccountBuildInv

(* Who is served, and what.                                                 *)
LEMMA Caller ==
  ASSUME TabInv, NEW c \in ours, up[c] # <<>>
  PROVE  /\ c \in Sockets /\ Head(up[c]) = up[c][1] /\ up[c][1] \in Call /\ 1 \in DOMAIN up[c]
         /\ open[c] \in {Guest, Holder} /\ open[c] \in Identities
         /\ Guest \notin Holders /\ Holder \notin Guests /\ Guest # Holder
         /\ c = conn => open[c] = IF link.kind = "account" THEN Holder ELSE Guest
         /\ up[c][1].kind # "join" => up[c][1].code \in Codes /\ up[c][1].code \in 1..minted
         /\ up[c][1].kind = "complete" => open[c] = Holder
  <1> USE DEF TabInv
  <1>1. c \in Sockets /\ up[c] \in Seq(Call) /\ minted \in 0..MaxMints
    BY DEF TabTypes
  <1>2. Head(up[c]) = up[c][1] /\ 1 \in DOMAIN up[c] /\ up[c][1] \in Call
    BY <1>1, HeadAndTail
  <1>3. open[c] \in {Guest, Holder} /\ (c = conn => open[c] = IF link.kind = "account" THEN Holder ELSE Guest)
    BY DEF SocketsInv
  <1>4. /\ up[c][1].kind # "join" => up[c][1].code \in 1..minted
        /\ up[c][1].kind = "complete" => open[c] = Holder
    BY <1>1, <1>2 DEF CodesInv
  <1>5. up[c][1].code \in 1..minted => up[c][1].code \in Codes
    BY <1>1, TabIdentities
  <1> QED BY <1>1, <1>2, <1>3, <1>4, <1>5, TabIdentities, NobodyIsNoIdentity

LEMMA ServeJoinKeeps ==
  ASSUME TypeOK, TabInv, NEW c \in ours, up[c] # <<>>, up' = [up EXCEPT ![c] = Tail(@)],
         UNCHANGED <<storage, page, conn, link, ours>>, ServeJoin(c, open[c])
  PROVE  TabInv' /\ [Next]_vars
  <1>0. /\ UNCHANGED <<now, open, claim, down, late, stored, minted>> /\ player \subseteq player'
        /\ Guest = open[c] => Guest \in player'
        /\ [Next]_vars
    <2>1. Guest = open[c] => ~IsPendingDeletion(open[c])
      BY Caller DEF IsPendingDeletion
    <2>2. CASE IsPendingDeletion(open[c]) \/ open[c] \in player
      BY <2>1, <2>2 DEF ServeJoin, vars, presence, claims, history, storage
    <2>3. CASE ~(IsPendingDeletion(open[c]) \/ open[c] \in player)
      <3>1. JoinGame(open[c]) /\ UNCHANGED <<down, history>>
        BY <2>3 DEF ServeJoin
      <3>2. Next
        BY <3>1, Caller DEF Next, Connections
      <3> QED BY <3>1, <3>2 DEF JoinGame, claims, history, storage
    <2> QED BY <2>2, <2>3
  <1>1. TabTypes' /\ SocketsInv' /\ GateInv'
    BY <1>0, ServeRest DEF TabInv, TabTypes
  <1>2. PICK off \in [Sockets -> Nat] : Moved(off)
    BY Caller, ServedMove DEF TabInv
  <1>3. /\ CodesInv' /\ OnceInv'
        /\ \A code : Dead(code) => Dead(code)'
        /\ \A code : ~HasCode(code) => ~HasCode(code)'
    <2>1. now \in Nat /\ now' \in Nat /\ now <= now'
      BY <1>0 DEF TypeOK
    <2> QED BY <1>0, <1>1, <1>2, <2>1, NothingRegistered
  <1>4. AnonBuildInv'
    <2>1. CASE link.kind = "anon"
      <3>1. c = conn => open[c] = Guest
        BY <2>1, Caller
      <3>2. \A i \in DOMAIN down' : down'[i].kind = "start" /\ down'[i].answer = "ok"
        BY <1>0, <2>1 DEF TabInv, AnonBuildInv
      <3> QED BY <1>0, <2>1, <3>1, <3>2, ServeAnon
    <2>2. CASE link.kind # "anon"
      BY <2>2 DEF AnonBuildInv
    <2> QED BY <2>1, <2>2
  <1>5. AccountBuildInv'
    <2>1. /\ Dead(stored) => Dead(stored)'
          /\ ~HasCode(stored) => ~HasCode(stored)'
      BY <1>0, <1>3 DEF Dead, HasCode
    <2> QED BY <1>0, <2>1, ServeAccount
  <1> QED BY <1>0, <1>1, <1>3, <1>4, <1>5 DEF TabInv

LEMMA ServeStartKeeps ==
  ASSUME TypeOK, TabInv, NEW c \in ours, up[c] # <<>>, up' = [up EXCEPT ![c] = Tail(@)],
         UNCHANGED <<storage, page, conn, link, ours>>, up[c][1].kind = "start",
         ServeStart(c, open[c], up[c][1].code)
  PROVE  TabInv' /\ [Next]_vars
  <1>0. stored' = stored /\ minted' = minted
    BY DEF storage
  <1>1. CASE open[c] \in Guests /\ open[c] \in player
    <2>1. PICK code \in Codes : code = up[c][1].code
      BY Caller
    <2>2. open[c] = Guest
      BY <1>1, Caller
    <2>3. /\ StartGuestClaim(Guest, code) /\ Answered(c, "start", "ok")
          /\ late' = IF c = conn THEN late ELSE late \cup {code}
      <3>1. ~(open[c] \in Holders \/ open[c] \notin player)
        BY <1>1, <2>2, Caller
      <3> QED BY <2>1, <2>2, <3>1 DEF ServeStart
    <2>4. /\ claim' = [claim EXCEPT ![Guest] = [code |-> code, expiresAt |-> now + ClaimTTL]]
          /\ UNCHANGED <<now, open, player>> /\ now + ClaimTTL \in Nat
          /\ claim \in [Guests -> Claim \cup {None}]
      BY <2>3, AccountBounds DEF StartGuestClaim, presence, TypeOK
    <2>5. /\ down' \in Seq(Answer) /\ (c # conn => down' = down)
          /\ c = conn => \E a \in Answer :
               a.kind = "start" /\ a.answer = "ok" /\ down' = Append(down, a)
      <3>1. TabTypes
        BY DEF TabInv
      <3>2. PICK answer \in Answers : answer = "ok" /\ Answered(c, "start", answer)
        BY <2>3 DEF Answers
      <3> QED BY ONLY <3>1, <3>2, AnsweredDown, ZenonT(40)
    <2>6. TabTypes' /\ SocketsInv' /\ GateInv'
      BY <2>4, <2>5, ServeRest
    <2>7. /\ CodesInv' /\ OnceInv'
          /\ \A k : Dead(k) => Dead(k)'
          /\ \A k : ~HasCode(k) /\ k # code => ~HasCode(k)'
      BY <1>0, <2>1, <2>2, <2>4, <2>6, Caller, OneRegistered
    <2>8. AnonBuildInv'
      <3>1. CASE link.kind = "anon"
        <4>1. \A i \in DOMAIN down : down[i].kind = "start" /\ down[i].answer = "ok"
          BY <3>1 DEF TabInv, AnonBuildInv
        <4>2. ASSUME NEW i \in DOMAIN down'
              PROVE  down'[i].kind = "start" /\ down'[i].answer = "ok"
          <5>1. CASE c # conn
            BY <2>5, <4>1, <4>2, <5>1
          <5>2. CASE c = conn
            <6>1. PICK a \in Answer : a.kind = "start" /\ a.answer = "ok" /\ down' = Append(down, a)
              BY <2>5, <5>2
            <6>2. down \in Seq(Answer)
              BY DEF TabInv, TabTypes
            <6>3. i \in DOMAIN down \/ i = Len(down) + 1
              BY <4>2, <6>1, <6>2, AppendLast
            <6>4. CASE i \in DOMAIN down
              <7>1. down'[i] = down[i]
                BY <6>1, <6>2, <6>4, AppendLast
              <7> QED BY <4>1, <6>4, <7>1
            <6>5. CASE i = Len(down) + 1
              <7>1. down'[i] = a
                BY <6>1, <6>2, <6>5, AppendLast
              <7> QED BY <6>1, <7>1
            <6> QED BY <6>3, <6>4, <6>5
          <5> QED BY <5>1, <5>2
        <4> QED BY <2>4, <3>1, <4>2, ServeAnon
      <3>2. CASE link.kind # "anon"
        BY <3>2 DEF AnonBuildInv
      <3> QED BY <3>1, <3>2
    <2>9. AccountBuildInv'
      <3>1. CASE link.kind = "account"
        <4>1. c # conn
          BY <2>2, <3>1, Caller
        <4>2. Dead(stored) => Dead(stored)'
          BY <1>0, <2>7 DEF Dead, HasCode
        <4>3. ~HasCode(stored) => stored \in late' \/ ~HasCode(stored)'
          BY <1>0, <2>3, <2>7, <4>1 DEF HasCode
        <4> QED BY <1>0, <2>3, <2>5, <4>1, <4>2, <4>3, ServeAccount
      <3>2. CASE link.kind # "account"
        BY <3>2 DEF AccountBuildInv
      <3> QED BY <3>1, <3>2
    <2>10. Next
      BY <2>3, TabIdentities DEF Next, Claims
    <2> QED BY <2>6, <2>7, <2>8, <2>9, <2>10 DEF TabInv
  <1>2. CASE ~(open[c] \in Guests /\ open[c] \in player)
    <2>1. UNCHANGED vars /\ Answered(c, "start", "refused") /\ UNCHANGED late
      BY <1>2 DEF ServeStart
    <2>2. UNCHANGED <<now, open, claim, player>>
      BY <2>1 DEF vars, presence, claims
    <2>3. /\ down' \in Seq(Answer) /\ (c # conn => down' = down)
          /\ c = conn => \E a \in Answer :
               a.kind = "start" /\ a.answer = "refused" /\ down' = Append(down, a)
      <3>1. TabTypes
        BY DEF TabInv
      <3>2. PICK answer \in Answers : answer = "refused" /\ Answered(c, "start", answer)
        BY <2>1 DEF Answers
      <3> QED BY ONLY <3>1, <3>2, AnsweredDown
    <2>4. TabTypes' /\ SocketsInv' /\ GateInv'
      BY <2>2, <2>3, ServeRest
    <2>5. PICK off \in [Sockets -> Nat] : Moved(off)
      BY Caller, ServedMove DEF TabInv
    <2>6. /\ CodesInv' /\ OnceInv'
          /\ \A k : Dead(k) => Dead(k)'
          /\ \A k : ~HasCode(k) => ~HasCode(k)'
      <3>1. now \in Nat /\ now' \in Nat /\ now <= now'
        BY <2>2 DEF TypeOK
      <3> QED BY <1>0, <2>2, <2>4, <2>5, <3>1, NothingRegistered
    <2>7. AnonBuildInv'
      <3>1. CASE link.kind = "anon"
        <4>1. c # conn
          <5> SUFFICES ASSUME c = conn PROVE FALSE
            OBVIOUS
          <5>1. Before(conn, 1)
            BY <3>1, Caller DEF TabInv, AnonBuildInv
          <5>2. Guest \in player
            BY <5>1 DEF Before
          <5> QED BY <1>2, <3>1, <5>2, Caller, TabIdentities
        <4>2. \A i \in DOMAIN down' : down'[i].kind = "start" /\ down'[i].answer = "ok"
          BY <2>3, <3>1, <4>1 DEF TabInv, AnonBuildInv
        <4> QED BY <2>2, <3>1, <4>1, <4>2, ServeAnon
      <3>2. CASE link.kind # "anon"
        BY <3>2 DEF AnonBuildInv
      <3> QED BY <3>1, <3>2
    <2>8. AccountBuildInv'
      <3>1. CASE link.kind = "account"
        <4>1. Dead(stored) => Dead(stored)'
          BY <1>0, <2>6 DEF Dead, HasCode
        <4>2. ~HasCode(stored) => ~HasCode(stored)'
          BY <1>0, <2>6 DEF HasCode
        <4>3. c = conn => Dead(stored)
          BY <3>1, Caller DEF TabInv, AccountBuildInv
        <4>4. down' = down \/ \E a \in Answer : down' = Append(down, a) /\ Harmless(a)'
          BY <2>3, <4>1, <4>3 DEF Harmless
        <4> QED BY <1>0, <2>1, <4>1, <4>2, <4>4, ServeAccount
      <3>2. CASE link.kind # "account"
        BY <3>2 DEF AccountBuildInv
      <3> QED BY <3>1, <3>2
    <2> QED BY <2>1, <2>4, <2>6, <2>7, <2>8 DEF TabInv
  <1> QED BY <1>1, <1>2

(* An answer to an attempt to redeem a code that the tab still has.         *)
LEMMA RefusedIsHarmless ==
  ASSUME TypeOK, TabInv, NEW code \in 1..minted, code = stored,
         Refusal(Holder, code) # "ok", NEW a \in Answer, a.kind = "complete",
         a.answer = Refusal(Holder, code)
  PROVE  Harmless(a)
  <1> USE DEF TabInv
  <1>1. GuestsWithCode(code) = {} <=> ~HasCode(code)
    BY TabIdentities DEF GuestsWithCode, HasCode, CodesInv
  <1>2. CASE a.answer = "expired"
    <2>1. PICK g \in GuestsWithCode(code) : ClaimIsExpired(claim[g].expiresAt)
      BY <1>2 DEF Refusal
    <2>2. g = Guest /\ HasCode(code)
      BY <2>1 DEF GuestsWithCode, CodesInv, HasCode
    <2>3. \A c \in Sockets : \A i \in DOMAIN up[c] :
            up[c][i].kind = "start" => up[c][i].code # code
      BY <2>2 DEF OnceInv
    <2> QED BY <2>1, <2>2, <2>3 DEF Harmless, Dead
  <1>3. CASE a.answer = "invalid"
    <2>1. GuestsWithCode(code) = {}
      BY <1>3 DEF Refusal
    <2> QED BY <1>1, <1>3, <2>1 DEF Harmless
  <1>4. CASE a.answer \notin {"ok", "expired", "invalid"}
    BY <1>4 DEF Harmless
  <1> QED BY <1>2, <1>3, <1>4

LEMMA ServeCompleteKeeps ==
  ASSUME TypeOK, TabInv, NEW c \in ours, up[c] # <<>>, up' = [up EXCEPT ![c] = Tail(@)],
         UNCHANGED <<storage, page, conn, link, ours>>, up[c][1].kind = "complete",
         ServeComplete(c, open[c], up[c][1].code)
  PROVE  TabInv' /\ [Next]_vars
  <1>0. stored' = stored /\ minted' = minted
    BY DEF storage
  <1>1. PICK code \in Codes : code = up[c][1].code /\ code \in 1..minted /\ open[c] = Holder
    BY Caller
  <1>2. PICK answer \in Answers : /\ answer = Refusal(Holder, code)
                                  /\ Answered(c, "complete", answer) /\ late' = late
    BY <1>1, RefusalType DEF ServeComplete
  <1>3. /\ down' \in Seq(Answer) /\ (c # conn => down' = down)
        /\ c = conn => \E a \in Answer :
             a.kind = "complete" /\ a.answer = answer /\ down' = Append(down, a)
    <2>1. TabTypes
      BY DEF TabInv
    <2> QED BY ONLY <1>2, <2>1, AnsweredDown, ZenonT(40)
  <1>4. CASE answer = "ok" /\ CompleteGuestClaim(Holder, code)
    <2>1. PICK g \in GuestsWithCode(code) : claim' = [claim EXCEPT ![g] = None]
      BY <1>4 DEF CompleteGuestClaim
    <2>2. g = Guest /\ HasCode(code)
      BY <2>1 DEF GuestsWithCode, CodesInv, HasCode, TabInv
    <2>3. UNCHANGED <<now, open, player>>
      BY <1>4 DEF CompleteGuestClaim, presence
    <2>4. claim'[Guest] = None /\ \A h \in Guests : claim'[h] # None => claim'[h] = claim[h]
      BY <2>1, <2>2, TabIdentities DEF TypeOK
    <2>5. TabTypes' /\ SocketsInv' /\ GateInv'
      BY <1>3, <2>3, ServeRest
    <2>6. PICK off \in [Sockets -> Nat] : Moved(off)
      BY Caller, ServedMove DEF TabInv
    <2>7. /\ CodesInv' /\ OnceInv'
          /\ \A k : Dead(k) => Dead(k)'
          /\ \A k : ~HasCode(k) => ~HasCode(k)'
      <3>1. now \in Nat /\ now' \in Nat /\ now <= now'
        BY <2>3 DEF TypeOK
      <3> QED BY <1>0, <2>3, <2>4, <2>5, <2>6, <3>1, NothingRegistered
    <2>8. Dead(code)'
      <3>1. \A d \in Sockets : \A i \in DOMAIN up[d] :
              up[d][i].kind = "start" => up[d][i].code # code
        BY <2>2 DEF OnceInv, TabInv
      <3>2. \A d \in Sockets : \A i \in DOMAIN up'[d] : \E j \in DOMAIN up[d] : up'[d][i] = up[d][j]
        BY <2>6 DEF Moved
      <3> QED BY <2>4, <3>1, <3>2 DEF Dead, HasCode
    <2>9. AnonBuildInv'
      <3>1. CASE link.kind = "anon"
        <4>1. c # conn
          BY <1>1, <3>1, Caller
        <4>2. \A i \in DOMAIN down' : down'[i].kind = "start" /\ down'[i].answer = "ok"
          BY <1>3, <3>1, <4>1 DEF TabInv, AnonBuildInv
        <4> QED BY <2>3, <3>1, <4>1, <4>2, ServeAnon
      <3>2. CASE link.kind # "anon"
        BY <3>2 DEF AnonBuildInv
      <3> QED BY <3>1, <3>2
    <2>10. AccountBuildInv'
      <3>1. CASE link.kind = "account"
        <4>1. Dead(stored) => Dead(stored)'
          BY <1>0, <2>7 DEF Dead, HasCode
        <4>2. ~HasCode(stored) => ~HasCode(stored)'
          BY <1>0, <2>7 DEF HasCode
        <4>3. c = conn => Dead(stored) \/ stored = code
          BY <1>1, <3>1, Caller DEF TabInv, AccountBuildInv
        <4>4. c = conn => Dead(stored)'
          BY <1>0, <2>8, <4>1, <4>3 DEF Dead, HasCode
        <4>5. down' = down \/ \E a \in Answer : down' = Append(down, a) /\ Harmless(a)'
          BY <1>3, <4>4 DEF Harmless
        <4> QED BY <1>0, <1>2, <4>1, <4>2, <4>5, ServeAccount
      <3>2. CASE link.kind # "account"
        BY <3>2 DEF AccountBuildInv
      <3> QED BY <3>1, <3>2
    <2>11. Next
      BY <1>4, TabIdentities DEF Next, Claims
    <2> QED BY <2>5, <2>7, <2>9, <2>10, <2>11 DEF TabInv
  <1>5. CASE answer # "ok" /\ UNCHANGED vars
    <2>1. UNCHANGED <<now, open, claim, player>>
      BY <1>5 DEF vars, presence, claims
    <2>4. TabTypes' /\ SocketsInv' /\ GateInv'
      BY <1>3, <2>1, ServeRest
    <2>5. PICK off \in [Sockets -> Nat] : Moved(off)
      BY Caller, ServedMove DEF TabInv
    <2>6. /\ CodesInv' /\ OnceInv'
          /\ \A k : Dead(k) => Dead(k)'
          /\ \A k : ~HasCode(k) => ~HasCode(k)'
      <3>1. now \in Nat /\ now' \in Nat /\ now <= now'
        BY <2>1 DEF TypeOK
      <3> QED BY <1>0, <2>1, <2>4, <2>5, <3>1, NothingRegistered
    <2>7. AnonBuildInv'
      <3>1. CASE link.kind = "anon"
        <4>1. c # conn
          BY <1>1, <3>1, Caller
        <4>2. \A i \in DOMAIN down' : down'[i].kind = "start" /\ down'[i].answer = "ok"
          BY <1>3, <3>1, <4>1 DEF TabInv, AnonBuildInv
        <4> QED BY <2>1, <3>1, <4>1, <4>2, ServeAnon
      <3>2. CASE link.kind # "anon"
        BY <3>2 DEF AnonBuildInv
      <3> QED BY <3>1, <3>2
    <2>8. AccountBuildInv'
      <3>1. CASE link.kind = "account"
        <4>1. Dead(stored) => Dead(stored)'
          BY <1>0, <2>6 DEF Dead, HasCode
        <4>2. ~HasCode(stored) => ~HasCode(stored)'
          BY <1>0, <2>6 DEF HasCode
        <4>3. ASSUME NEW a, Harmless(a) PROVE Harmless(a)'
          BY <1>0, <1>2, <4>1, <4>2, <4>3 DEF Harmless
        <4>4. ASSUME c = conn PROVE \E a \in Answer : down' = Append(down, a) /\ Harmless(a)'
          <5>1. PICK a \in Answer :
                  a.kind = "complete" /\ a.answer = answer /\ down' = Append(down, a)
            BY <1>3, <4>4
          <5>2. Dead(stored) \/ stored = code
            BY <1>1, <3>1, <4>4, Caller DEF TabInv, AccountBuildInv
          <5>3. CASE Dead(stored)
            BY <4>3, <5>1, <5>3 DEF Harmless
          <5>4. CASE stored = code
            BY <1>1, <1>2, <1>5, <4>3, <5>1, <5>4, RefusedIsHarmless
          <5> QED BY <5>2, <5>3, <5>4
        <4> QED BY <1>0, <1>2, <1>3, <4>1, <4>2, <4>4, ServeAccount
      <3>2. CASE link.kind # "account"
        BY <3>2 DEF AccountBuildInv
      <3> QED BY <3>1, <3>2
    <2> QED BY <1>5, <2>4, <2>6, <2>7, <2>8 DEF TabInv
  <1> QED BY <1>1, <1>2, <1>4, <1>5 DEF ServeComplete

LEMMA ServeKeeps ==
  ASSUME TypeOK, TabInv, NEW c \in Sockets, Serve(c)
  PROVE  TabInv' /\ [Next]_vars
  <1>1. /\ c \in ours /\ up[c] # <<>> /\ up' = [up EXCEPT ![c] = Tail(@)]
        /\ UNCHANGED <<storage, page, conn, link, ours>>
        /\ Head(up[c]) = up[c][1]
    BY Caller DEF Serve
  <1>2. \/ ServeJoin(c, open[c])
        \/ up[c][1].kind = "start" /\ ServeStart(c, open[c], up[c][1].code)
        \/ up[c][1].kind = "complete" /\ ServeComplete(c, open[c], up[c][1].code)
    BY <1>1 DEF Serve
  <1> QED BY <1>1, <1>2, ServeJoinKeeps, ServeStartKeeps, ServeCompleteKeeps

(* Sockets of the tab are lost, others come and go, and time passes.        *)
LEMMA OutsideKeeps ==
  ASSUME TypeOK, TabInv, UNCHANGED <<storage, page, conn, link, down, history>>,
         up' \in [Sockets -> Seq(Call)], ours' \subseteq ours,
         \A c \in ours' : up'[c] = up[c] /\ open'[c] = open[c],
         \A c \in Sockets \ ours' : up'[c] = <<>>,
         now' \in Nat, now <= now',
         \A g \in Guests : claim'[g] # None => claim'[g] = claim[g],
         Guest \in player /\ conn \in ours' /\ open[conn] = Guest => Guest \in player'
  PROVE  TabInv'
  <1> USE DEF TabInv
  <1>0. stored' = stored /\ minted' = minted /\ marked' = marked /\ late' = late
    BY DEF storage, history
  <1>1. TabTypes'
    BY <1>0 DEF TabTypes
  <1>2. SocketsInv'
    BY DEF SocketsInv
  <1>3. PICK off \in [Sockets -> Nat] : Moved(off)
    <2>1. [c \in Sockets |-> 0] \in [Sockets -> Nat] /\ \A c \in Sockets : [d \in Sockets |-> 0][c] = 0
      OBVIOUS
    <2>2. PICK off \in [Sockets -> Nat] : \A c \in Sockets : off[c] = 0
      BY <2>1
    <2>3. ASSUME NEW c \in Sockets, NEW i \in DOMAIN up'[c]
          PROVE  i + off[c] \in DOMAIN up[c] /\ up'[c][i] = up[c][i + off[c]]
      <3>1. c \in ours' /\ up'[c] = up[c] /\ up[c] \in Seq(Call)
        BY <2>3 DEF TabTypes
      <3>2. i + 0 = i
        BY <2>3, <3>1
      <3> QED BY <2>2, <2>3, <3>1, <3>2
    <2> QED BY <2>3 DEF Moved
  <1>4. /\ CodesInv' /\ OnceInv'
        /\ \A k : Dead(k) => Dead(k)'
        /\ \A k : ~HasCode(k) => ~HasCode(k)'
    BY <1>0, <1>1, <1>3, NothingRegistered
  <1>5. Dead(stored) => Dead(stored)'
    BY <1>0, <1>4 DEF Dead, HasCode
  <1>6. ~HasCode(stored) => ~HasCode(stored)'
    BY <1>0, <1>4 DEF HasCode
  <1>7. AccountBuildInv'
    BY <1>0, <1>5, <1>6 DEF AccountBuildInv, Harmless
  <1>8. AnonBuildInv'
    <2> SUFFICES ASSUME link.kind = "anon" PROVE AnonBuildInv'
      BY DEF AnonBuildInv
    <2>1. conn \in ours' => conn \in ours /\ up'[conn] = up[conn] /\ open[conn] = Guest
      BY DEF SocketsInv
    <2> QED BY <2>1 DEF AnonBuildInv, Before
  <1> QED BY <1>1, <1>2, <1>4, <1>7, <1>8 DEF GateInv, storage

(* While a socket of a guest is open, closing another leaves it in the      *)
(* game.                                                                    *)
LEMMA GuestStays ==
  ASSUME TypeOK, SessionsInv, NEW c \in Sockets, NEW d \in Sockets \ {c}, open[d] = Guest,
         OnDisconnect(c), Guest \in player
  PROVE  Guest \in player'
  <1>1. session[d] = Guest
    BY TabIdentities DEF SessionsInv
  <1>2. open[c] = Guest => HasLiveSession(c, open[c])
    BY <1>1 DEF HasLiveSession
  <1> QED BY <1>2 DEF OnDisconnect

LEMMA CloseKeeps ==
  ASSUME TypeOK, SessionsInv, TabInv, NEW c \in Sockets, Close(c)
  PROVE  TabInv' /\ Next
  <1>1. /\ c \in ours /\ OnDisconnect(c) /\ ours' = ours \ {c} /\ up' = [up EXCEPT ![c] = <<>>]
        /\ UNCHANGED <<storage, page, conn, link, down, history>>
    BY DEF Close
  <1>2. /\ UNCHANGED <<now, claim>> /\ now \in Nat
        /\ \A d \in Sockets : d # c => open'[d] = open[d]
    BY <1>1 DEF OnDisconnect, claims, TypeOK
  <1>3. /\ up' \in [Sockets -> Seq(Call)] /\ up'[c] = <<>>
        /\ \A d \in Sockets : d # c => up'[d] = up[d]
    BY <1>1 DEF TabInv, TabTypes
  <1>4. \A d \in Sockets \ ours' : up'[d] = <<>>
    BY <1>1, <1>3 DEF TabInv, SocketsInv
  <1>5. \A d \in ours' : up'[d] = up[d] /\ open'[d] = open[d]
    BY <1>1, <1>2, <1>3 DEF TabInv, TabTypes
  <1>6. Guest \in player /\ conn \in ours' /\ open[conn] = Guest => Guest \in player'
    BY <1>1, GuestStays DEF TabInv, TabTypes
  <1>7. ours' \subseteq ours /\ now' \in Nat /\ now <= now'
        /\ \A g \in Guests : claim'[g] # None => claim'[g] = claim[g]
    BY <1>1, <1>2
  <1>8. TabInv'
    BY <1>1, <1>3, <1>4, <1>5, <1>6, <1>7, OutsideKeeps
  <1> QED BY <1>1, <1>8 DEF Next, Connections

LEMMA ElsewhereKeeps ==
  ASSUME TypeOK, SessionsInv, TabInv, Elsewhere
  PROVE  TabInv' /\ Next
  <1>0. UNCHANGED <<storage, page, conn, link, down, history, ours, up>>
    BY DEF Elsewhere, tabvars, wires
  <1>1. /\ up' \in [Sockets -> Seq(Call)] /\ ours' \subseteq ours
        /\ \A c \in Sockets \ ours' : up'[c] = <<>>
        /\ \A c \in ours' : c \in Sockets /\ up'[c] = up[c]
    BY <1>0 DEF TabInv, TabTypes, SocketsInv
  <1>2. ASSUME Next, \A c \in ours : open'[c] = open[c], now' \in Nat, now <= now',
               \A g \in Guests : claim'[g] # None => claim'[g] = claim[g],
               Guest \in player /\ conn \in ours /\ open[conn] = Guest => Guest \in player'
        PROVE  TabInv' /\ Next
    BY <1>0, <1>1, <1>2, OutsideKeeps
  <1>3. now \in Nat /\ claim \in [Guests -> Claim \cup {None}] /\ ours \subseteq Sockets
    BY DEF TypeOK, TabInv, TabTypes
  <1>4. ASSUME NEW c \in Sockets \ (ours \cup {conn}), NEW p \in {Guest, Holder}, OnConnect(c, p)
        PROVE  TabInv' /\ Next
    <2>1. Next
      BY <1>4, TabIdentities, NobodyIsNoIdentity DEF Next, Connections
    <2>2. \A d \in ours : open'[d] = open[d]
      BY <1>3, <1>4 DEF OnConnect, TypeOK
    <2> QED BY <1>2, <1>3, <1>4, <2>1, <2>2 DEF OnConnect, claims
  <1>5. ASSUME NEW c \in Sockets \ (ours \cup {conn}), OnDisconnect(c)
        PROVE  TabInv' /\ Next
    <2>1. Next
      BY <1>5 DEF Next, Connections
    <2>2. \A d \in ours : open'[d] = open[d]
      BY <1>3, <1>5 DEF OnDisconnect, TypeOK
    <2>3. Guest \in player /\ conn \in ours /\ open[conn] = Guest => Guest \in player'
      BY <1>3, <1>5, GuestStays
    <2> QED BY <1>2, <1>3, <1>5, <2>1, <2>2, <2>3 DEF OnDisconnect, claims
  <1>6. ASSUME NEW c \in Sockets \ ours, open[c] # None, JoinGame(open[c])
        PROVE  TabInv' /\ Next
    <2>1. open[c] \in Identities
      BY <1>6 DEF TypeOK
    <2>2. Next
      BY <1>6, <2>1 DEF Next, Connections
    <2> QED BY <1>2, <1>3, <1>6, <2>2 DEF JoinGame, claims
  <1>7. ASSUME NEW g \in Guests, NEW i \in DOMAIN claimReapers[g], GuestClaimReaper(g, i)
        PROVE  TabInv' /\ Next
    <2>1. Next
      BY <1>7 DEF Next, Claims
    <2>2. \A h \in Guests : claim'[h] # None => claim'[h] = claim[h]
      BY <1>3, <1>7 DEF GuestClaimReaper
    <2> QED BY <1>2, <1>3, <1>7, <2>1, <2>2 DEF GuestClaimReaper, presence
  <1>8. CASE Tick
    <2>1. Next
      BY <1>8 DEF Next
    <2>2. now' \in Nat /\ now <= now'
      BY <1>3, <1>8 DEF Tick
    <2> QED BY <1>2, <1>3, <1>8, <2>1, <2>2 DEF Tick, presence, claims
  <1> QED BY <1>4, <1>5, <1>6, <1>7, <1>8 DEF Elsewhere

LEMMA BuildKeeps ==
  ASSUME TypeOK, TabInv, NEW c \in Sockets, NEW credential \in {"anon", "account", "failed"},
         Build(c, credential)
  PROVE  TabInv' /\ Next
  <1> USE DEF TabInv
  <1>0. page' \in Page /\ GateInv'
    BY PageStep DEF ClaimNext, Browser
  <1>1. PICK kind \in {"anon", "account"}, p \in {Guest, Holder} :
          /\ p = IF kind = "account" THEN Holder ELSE Guest
          /\ OnConnect(c, p) /\ link' = [kind |-> kind, applied |-> FALSE]
          /\ marked' = (marked \/ kind = "account")
    BY DEF Build
  <1>2. /\ conn = None /\ conn' = c /\ ours' = ours \cup {c} /\ c \notin ours /\ c # None
        /\ UNCHANGED <<stored, minted, up, down, history>> /\ down = <<>> /\ up[c] = <<>>
    BY TabIdentities DEF Build, SocketsInv
  <1>3. /\ open' = [open EXCEPT ![c] = p] /\ UNCHANGED <<now, player, claim>>
        /\ open \in [Sockets -> Identities \cup {None}]
    BY <1>1 DEF OnConnect, claims, TypeOK
  <1>4. /\ link' \in [kind : {"anon", "account"}, applied : BOOLEAN]
        /\ link'.kind = kind /\ ~link'.applied
    BY <1>1
  <1>5. marked' \in BOOLEAN
    <2>1. (marked \/ kind = "account") \in BOOLEAN
      OBVIOUS
    <2> QED BY <1>1, <2>1, Zenon
  <1>6. TabTypes'
    BY <1>0, <1>2, <1>4, <1>5 DEF TabTypes
  <1>7. SocketsInv'
    BY <1>1, <1>2, <1>3, <1>4 DEF SocketsInv, TabTypes
  <1>8. PICK off \in [Sockets -> Nat] : Moved(off)
    <2>1. [d \in Sockets |-> 0] \in [Sockets -> Nat] /\ \A d \in Sockets : [e \in Sockets |-> 0][d] = 0
      OBVIOUS
    <2>2. PICK off \in [Sockets -> Nat] : \A d \in Sockets : off[d] = 0
      BY <2>1
    <2>3. ASSUME NEW d \in Sockets, NEW i \in DOMAIN up'[d]
          PROVE  i + off[d] \in DOMAIN up[d] /\ up'[d][i] = up[d][i + off[d]]
      <3>1. up'[d] = up[d] /\ up[d] \in Seq(Call)
        BY <1>2 DEF TabTypes
      <3>2. i + 0 = i
        BY <2>3, <3>1
      <3> QED BY <2>2, <2>3, <3>1, <3>2
    <2> QED BY <2>3 DEF Moved
  <1>9. CodesInv' /\ OnceInv'
    <2>1. now' \in Nat /\ now <= now'
      BY <1>3 DEF TypeOK
    <2>2. \A d \in Sockets : up'[d] # <<>> => open'[d] = open[d]
      BY <1>2, <1>3
    <2> QED BY <1>2, <1>3, <1>6, <1>8, <2>1, <2>2, NothingRegistered
  <1>10. AccountBuildInv' /\ AnonBuildInv'
    BY <1>2, <1>4 DEF AccountBuildInv, AnonBuildInv
  <1>11. Next
    BY <1>1, TabIdentities, NobodyIsNoIdentity DEF Next, Connections
  <1> QED BY <1>0, <1>6, <1>7, <1>9, <1>10, <1>11

-----------------------------------------------------------------------------
(* Theorems.                                                                *)

LEMMA TabInit == ClaimInit => TabInv
  <1> SUFFICES ASSUME ClaimInit PROVE TabInv
    OBVIOUS
  <1> USE DEF ClaimInit
  <1>1. \A c \in Sockets : up[c] = <<>> /\ DOMAIN up[c] = {}
    OBVIOUS
  <1>2. TabTypes
    <2>1. page \in Page
      BY FreshPage
    <2>2. link \in [kind : {"anon", "account"}, applied : BOOLEAN]
      BY DEF Down
    <2>3. up \in [Sockets -> Seq(Call)]
      OBVIOUS
    <2>4. minted \in 0..MaxMints /\ stored \in 0..minted /\ marked \in BOOLEAN
      <3>1. minted = 0 /\ stored = 0 /\ marked = FALSE
        OBVIOUS
      <3>2. 0 \in 0..MaxMints /\ 0 \in 0..0
        BY TabIdentities
      <3> QED BY ONLY <3>1, <3>2, Zenon
    <2>5. conn \in Sockets \cup {None} /\ ours \subseteq Sockets /\ down \in Seq(Answer)
      OBVIOUS
    <2> QED BY ONLY <2>1, <2>2, <2>3, <2>4, <2>5 DEF TabTypes
  <1>3. SocketsInv
    BY <1>1 DEF SocketsInv
  <1>4. CodesInv /\ OnceInv
    BY <1>1 DEF CodesInv, OnceInv, Init
  <1>5. GateInv
    BY FreshPage DEF GateInv
  <1>6. AccountBuildInv /\ AnonBuildInv
    BY DEF AccountBuildInv, AnonBuildInv
  <1> QED BY <1>2, <1>3, <1>4, <1>5, <1>6 DEF TabInv

(* Whatever the tab, its player and other tabs do, the server takes one of  *)
(* its own steps or none.                                                   *)
LEMMA ClaimStep ==
  ASSUME Inv, TabInv, [ClaimNext]_allvars
  PROVE  TabInv' /\ [Next]_vars
  <1>0. TypeOK /\ SessionsInv
    BY DEF Inv
  <1>1. ASSUME NEW c \in Sockets, NEW credential \in {"anon", "account", "failed"},
               Build(c, credential)
        PROVE  TabInv' /\ [Next]_vars
    BY <1>0, <1>1, BuildKeeps
  <1>2. ASSUME NEW row \in BOOLEAN, Applied(row) PROVE TabInv' /\ [Next]_vars
    BY <1>2, AppliedKeeps DEF Applied
  <1>3. CASE SignIn
    BY <1>3, SignInKeeps DEF SignIn
  <1>4. CASE JoinRequested
    BY <1>4, JoinRequestedKeeps DEF JoinRequested
  <1>5. CASE \/ Park \/ Drop \/ Redirect \/ Registered \/ Completed
             \/ OpenClaim \/ Decline \/ CancelDecline \/ ConfirmDecline
             \/ \E b \in BOOLEAN : Load(b) \/ Resume(b)
    <2>1. UNCHANGED vars
      BY <1>5 DEF Park, Drop, Redirect, Registered, Completed, OpenClaim, Decline,
                  CancelDecline, ConfirmDecline, Load, Resume
    <2>2. TabInv'
      BY <1>5, PageKeeps
    <2> QED BY <2>1, <2>2
  <1>6. ASSUME NEW c \in Sockets, Serve(c) PROVE TabInv' /\ [Next]_vars
    BY <1>0, <1>6, ServeKeeps
  <1>7. ASSUME NEW c \in Sockets, Close(c) PROVE TabInv' /\ [Next]_vars
    BY <1>0, <1>7, CloseKeeps
  <1>8. CASE Elsewhere
    BY <1>0, <1>8, ElsewhereKeeps
  <1>9. CASE UNCHANGED allvars
    <2>1. /\ UNCHANGED <<vars, stored, minted, marked, page, conn, link, down, ours, up, late>>
      BY <1>9 DEF allvars, tabvars, storage, wires, history
    <2>2. page' \in Page /\ GateInv'
      BY <2>1 DEF TabInv, TabTypes, GateInv
    <2> QED BY <2>1, <2>2, QuietStep
  <1> QED BY <1>1, <1>2, <1>3, <1>4, <1>5, <1>6, <1>7, <1>8, <1>9
          DEF ClaimNext, Browser, Player, Server

LEMMA ClaimInvariance == ClaimSpec => [](Inv /\ TabInv)
  <1>1. ClaimInit => Inv /\ TabInv
    BY InvInit, TabInit DEF ClaimInit
  <1>2. Inv /\ TabInv /\ [ClaimNext]_allvars => Inv' /\ TabInv'
    BY ClaimStep, InvStep
  <1> QED BY <1>1, <1>2, PTL DEF ClaimSpec

(* A tab that claims, over any drops, reloads and late answers, only ever   *)
(* drives the server through behaviours of Accounts: every theorem about    *)
(* Spec above holds of it.                                                  *)
THEOREM ClaimingIsAccounts == ClaimSpec => Spec
  <1>1. ClaimInit => Init
    BY DEF ClaimInit
  <1>2. Inv /\ TabInv /\ [ClaimNext]_allvars => [Next]_vars
    BY ClaimStep
  <1> QED BY <1>1, <1>2, ClaimInvariance, PTL DEF ClaimSpec, Spec

LEMMA DeadIsNotRedeemable ==
  ASSUME TabInv, NEW code, Redeemable(code)
  PROVE  HasCode(code) /\ ~Dead(code)
  <1>1. PICK g \in Guests : claim[g] # None /\ claim[g].code = code /\ ~ClaimIsExpired(claim[g].expiresAt)
    BY DEF Redeemable, GuestsWithCode
  <1> QED BY <1>1 DEF TabInv, CodesInv, Dead, HasCode

(* The join gate: while the code in storage would still bring the guest's   *)
(* game, no join of the account is under way, and none is offered.          *)
THEOREM VetoIsKept == ClaimSpec => []VetoHolds
  <1>1. TabInv => VetoHolds
    <2> SUFFICES ASSUME TabInv PROVE VetoHolds
      OBVIOUS
    <2>1. ASSUME link.kind = "account", conn \in ours, NEW i \in DOMAIN up[conn], up[conn][i] = Join
          PROVE  ~Redeemable(stored)
      <3>1. up[conn][i].kind = "join"
        BY <2>1 DEF Join
      <3>2. Dead(stored)
        BY <2>1, <3>1 DEF TabInv, AccountBuildInv
      <3> QED BY <3>2, DeadIsNotRedeemable
    <2> QED BY <2>1 DEF VetoHolds, TabInv, GateInv
  <1> QED BY <1>1, ClaimInvariance, PTL

(* No answer takes a code that works away from the tab, however late it     *)
(* comes, but for that to an attempt which overtook the registration.       *)
THEOREM WorkingCodesStay == ClaimSpec => WorkingCodesAreKept
  <1>1. ASSUME TabInv, ClaimNext, stored # 0, Redeemable(stored), stored' # stored
        PROVE  minted' # minted \/ page.confirming \/ Overtaken
    <2>1. HasCode(stored) /\ ~Dead(stored)
      BY <1>1, DeadIsNotRedeemable
    <2>2. down # <<>> => /\ Head(down) = down[1] /\ 1 \in DOMAIN down
                         /\ link.kind = "account" => Harmless(down[1])
                         /\ link.kind = "anon" => down[1].kind = "start" /\ down[1].answer = "ok"
                         /\ link.kind \in {"anon", "account"}
      BY <1>1, HeadAndTail DEF TabInv, TabTypes, AccountBuildInv, AnonBuildInv
    <2>3. CASE SignIn
      BY <1>1, <2>3, TabIdentities DEF SignIn, TabInv, TabTypes
    <2>4. CASE ConfirmDecline
      BY <2>4 DEF ConfirmDecline
    <2>5. CASE Registered
      BY <1>1, <2>1, <2>2, <2>5 DEF Registered, Harmless
    <2>6. CASE Completed
      <3>1. Head(down).answer \in {"ok", "invalid", "expired"}
        BY <1>1, <2>6 DEF Completed, Deletes
      <3>2. down # <<>> /\ Head(down).kind = "complete"
        BY <2>6 DEF Completed
      <3> QED BY <2>1, <2>2, <3>1, <3>2 DEF Harmless, Overtaken
    <2>7. CASE UNCHANGED storage \/ UNCHANGED stored
      BY <1>1, <2>7 DEF storage
    <2>8. \/ SignIn \/ ConfirmDecline \/ Registered \/ Completed
          \/ UNCHANGED storage \/ UNCHANGED stored
      BY <1>1 DEF ClaimNext, Browser, Player, Server, Elsewhere, tabvars, Park, Drop, Redirect,
         Build, Applied, Load, Resume, OpenClaim, Decline, CancelDecline, JoinRequested, Serve,
         Close
    <2> QED BY <2>3, <2>4, <2>5, <2>6, <2>7, <2>8
  <1>2. TabInv /\ [ClaimNext]_allvars =>
          [stored # 0 /\ Redeemable(stored) /\ stored' # stored
             => minted' # minted \/ page.confirming \/ Overtaken]_allvars
    BY <1>1
  <1> QED BY <1>2, ClaimInvariance, PTL DEF ClaimSpec, WorkingCodesAreKept

=============================================================================
