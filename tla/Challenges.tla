----------------------------- MODULE Challenges -----------------------------
(***************************************************************************)
(* How two players come to fight: a challenge is sent, and until it is     *)
(* answered, withdrawn or expires, both may open and end other battles,    *)
(* send and receive other challenges, lose their connection, be erased,    *)
(* or find that ranked play has come to need an account.                   *)
(*                                                                         *)
(* An action is one committed reducer, hook or schedule row.  What the two *)
(* parties field is left out (Trading has it): an acceptance may also be   *)
(* refused for that, which is a stutter.  One identity has one connection  *)
(* here (Accounts has several).                                            *)
(***************************************************************************)
EXTENDS Naturals, FiniteSets

CONSTANTS
  Players,        \* identities of clients
  Accounts,       \* those that sign in; the others are guests
  Wild,           \* WILD_IDENTITY, side B of a wild battle
  ChallengeTTL,   \* CHALLENGE_TTL_MS
  MaxChallenges,  \* bound: challenges ever sent
  MaxNow          \* bound: the clock stops here

ASSUME ChallengePlayers == Accounts \subseteq Players /\ Wild \notin Players

ASSUME ChallengeBounds ==
  ChallengeTTL \in Nat \ {0} /\ MaxChallenges \in Nat /\ MaxNow \in Nat

VARIABLES
  now,         \* ctx.timestamp in ms
  enforced,    \* a real issuer is configured: ranked play needs accounts
  online,      \* identities that are connected
  player,      \* the `player` table: those in the game
  status,      \* the `account` table
  battles,     \* the `battle` rows whose outcome is Ongoing
  challenges,  \* the `battle_challenge` table (its rows are all Pending)
  reapers,     \* the `battle_challenge_reaper_schedule` table
  nextId       \* battle_challenge's auto_inc

identities == <<enforced, online, player, status>>
requests == <<challenges, reapers, nextId>>
challengesVars == <<now, identities, battles, requests>>

-----------------------------------------------------------------------------
Challenge == [id : 1..MaxChallenges, challenger : Players, target : Players,
              createdAt : 0..MaxNow]
Battle == [player : Players, opponent : Players \cup {Wild}]

BattlesOf(p) == {b \in battles : p \in {b.player, b.opponent}}
InOngoingBattle(p) == BattlesOf(p) # {}

OutgoingOf(p) == {c \in challenges : c.challenger = p}
IncomingOf(p) == {c \in challenges : c.target = p}

IsPendingDeletion(p) == status[p] \in {"PendingDeletion", "Terminal"}
IsAccountHolder(p) == status[p] # "None"

(* Disconnecting and erasing end p's battles in both roles.                 *)
Resolved(p) == battles \ BattlesOf(p)

(* Nobody is sent a second challenge or sends one, and who is asked answers *)
(* before asking somebody else.                                             *)
MayChallenge_WhileAsked(me, target) == OutgoingOf(me) = {} /\ IncomingOf(target) = {}
MayChallenge(me, target) ==
  IncomingOf(me) = {} /\ OutgoingOf(me) = {} /\ IncomingOf(target) = {}

MayFight_CallerOnly(me, other) == ~InOngoingBattle(me)
MayFight(me, other) == ~InOngoingBattle(me) /\ ~InOngoingBattle(other)

RankedAccountGate(me, other) == enforced => IsAccountHolder(me) /\ IsAccountHolder(other)

(* What was found when the challenge was sent is looked at again.           *)
StillMayFight_GateOnce(me, c) == MayFight(me, c.challenger)
StillMayFight(me, c) == RankedAccountGate(me, c.challenger) /\ MayFight(me, c.challenger)

(* A deletion of challenges takes their schedule rows along.                *)
DeleteChallenges(gone) ==
  /\ challenges' = challenges \ gone
  /\ reapers' = {r \in reapers : \A c \in gone : c.id # r.challengeId}
  /\ UNCHANGED nextId

ChallengesInit ==
  /\ now = 0
  /\ enforced \in BOOLEAN
  /\ online = {} /\ player = {}
  /\ status = [p \in Players |-> "None"]
  /\ battles = {} /\ challenges = {} /\ reapers = {} /\ nextId = 1

-----------------------------------------------------------------------------
(* Challenges.                                                              *)

ChallengePvp(me, target) ==
  /\ nextId <= MaxChallenges /\ now + ChallengeTTL <= MaxNow
  /\ me \in player /\ ~IsPendingDeletion(me)
  /\ target # me /\ target \in player
  /\ RankedAccountGate(me, target) /\ MayFight(me, target) /\ MayChallenge(me, target)
  /\ challenges' = challenges \cup
       {[id |-> nextId, challenger |-> me, target |-> target, createdAt |-> now]}
  /\ reapers' = reapers \cup {[challengeId |-> nextId, at |-> now + ChallengeTTL]}
  /\ nextId' = nextId + 1
  /\ UNCHANGED <<now, identities, battles>>

(* The target need not be in the game, only connected, and a challenge that *)
(* is overdue but not reaped yet can still be accepted.                     *)
AcceptChallenge(me, c) ==
  /\ me = c.target /\ me \in online
  /\ ~IsPendingDeletion(me) /\ ~IsPendingDeletion(c.challenger)
  /\ StillMayFight(me, c)
  /\ battles' = battles \cup {[player |-> c.challenger, opponent |-> me]}
  /\ DeleteChallenges({c})
  /\ UNCHANGED <<now, identities>>

DeclineChallenge(me, c) ==
  /\ me = c.target /\ me \in online
  /\ DeleteChallenges({c})
  /\ UNCHANGED <<now, identities, battles>>

CancelChallenge(me, c) ==
  /\ me = c.challenger /\ me \in online
  /\ DeleteChallenges({c})
  /\ UNCHANGED <<now, identities, battles>>

IsChallengeStale_OffByOne(c) == now > c.createdAt + ChallengeTTL
IsChallengeStale(c) == now >= c.createdAt + ChallengeTTL

(* The scheduler deletes the row it fired.                                  *)
BattleChallengeReaper(r) ==
  /\ now >= r.at
  /\ challenges' = {c \in challenges : ~(c.id = r.challengeId /\ IsChallengeStale(c))}
  /\ reapers' = reapers \ {r}
  /\ UNCHANGED <<now, identities, battles, nextId>>

-----------------------------------------------------------------------------
(* The other ways into and out of a battle.                                 *)

StartWildTactical(p) ==
  /\ p \in player /\ ~IsPendingDeletion(p) /\ ~InOngoingBattle(p)
  /\ battles' = battles \cup {[player |-> p, opponent |-> Wild]}
  /\ UNCHANGED <<now, identities, requests>>

EndBattle(b) ==
  /\ battles' = battles \ {b}
  /\ UNCHANGED <<now, identities, requests>>

-----------------------------------------------------------------------------
(* Presence and accounts.                                                   *)

(* Only a configured issuer's token signs in.                               *)
OnConnect(p) ==
  /\ p \notin online /\ (p \in Accounts => enforced)
  /\ online' = online \cup {p}
  /\ status' = IF p \in Accounts /\ status[p] \in {"None", "Terminal"}
               THEN [status EXCEPT ![p] = "Active"] ELSE status
  /\ UNCHANGED <<now, enforced, player, battles, requests>>

JoinGame(p) ==
  /\ p \in online \ player /\ ~IsPendingDeletion(p)
  /\ player' = player \cup {p}
  /\ UNCHANGED <<now, enforced, online, status, battles, requests>>

(* The last connection ends p's battles and withdraws what p asked for.     *)
(* What others asked of p stays.                                            *)
OnDisconnect(p) ==
  /\ p \in online
  /\ battles' = Resolved(p)
  /\ DeleteChallenges(OutgoingOf(p))
  /\ online' = online \ {p} /\ player' = player \ {p}
  /\ UNCHANGED <<now, enforced, status>>

DeleteAccount(p) ==
  /\ p \in online /\ status[p] = "Active"
  /\ status' = [status EXCEPT ![p] = "PendingDeletion"]
  /\ UNCHANGED <<now, enforced, online, player, battles, requests>>

CancelAccountDeletion(p) ==
  /\ p \in online /\ status[p] = "PendingDeletion"
  /\ status' = [status EXCEPT ![p] = "Active"]
  /\ UNCHANGED <<now, enforced, online, player, battles, requests>>

(* The end of the grace period (at any time here): the erasure takes p's    *)
(* challenges in both roles and leaves p connected and in the game.         *)
AccountDeletionReaper(p) ==
  /\ status[p] = "PendingDeletion"
  /\ battles' = Resolved(p)
  /\ DeleteChallenges(OutgoingOf(p) \cup IncomingOf(p))
  /\ status' = [status EXCEPT ![p] = "Terminal"]
  /\ UNCHANGED <<now, enforced, online, player>>

(* A module with a real issuer is published.                                *)
ConfigureIssuers ==
  /\ ~enforced /\ enforced' = TRUE
  /\ UNCHANGED <<now, online, player, status, battles, requests>>

Tick == now < MaxNow /\ now' = now + 1 /\ UNCHANGED <<identities, battles, requests>>

-----------------------------------------------------------------------------
Pvp ==
  \/ \E me, target \in Players : ChallengePvp(me, target)
  \/ \E me \in Players, c \in challenges :
       AcceptChallenge(me, c) \/ DeclineChallenge(me, c) \/ CancelChallenge(me, c)
  \/ \E r \in reapers : BattleChallengeReaper(r)

Battling == (\E p \in Players : StartWildTactical(p)) \/ (\E b \in battles : EndBattle(b))

Identity ==
  \/ \E p \in Players :
       \/ OnConnect(p) \/ JoinGame(p) \/ OnDisconnect(p)
       \/ DeleteAccount(p) \/ CancelAccountDeletion(p) \/ AccountDeletionReaper(p)
  \/ ConfigureIssuers

ChallengesNext == Pvp \/ Battling \/ Identity \/ Tick

ChallengesSpec == ChallengesInit /\ [][ChallengesNext]_challengesVars

(* Time passes and the host fires every row that is due; players do as they *)
(* please.                                                                  *)
ChallengesFairSpec ==
  /\ ChallengesSpec
  /\ WF_challengesVars(Tick)
  /\ \A id \in 1..MaxChallenges :
       WF_challengesVars(\E r \in reapers : r.challengeId = id /\ BattleChallengeReaper(r))

-----------------------------------------------------------------------------
(* The tables hold what their columns may hold, and ids are unique.         *)
ChallengesTyped ==
  /\ now \in 0..MaxNow /\ enforced \in BOOLEAN
  /\ online \subseteq Players /\ player \subseteq Players
  /\ status \in [Players -> {"None", "Active", "PendingDeletion", "Terminal"}]
  /\ battles \subseteq Battle
  /\ challenges \subseteq Challenge
  /\ \A c, d \in challenges : c.id = d.id => c = d
  /\ reapers \subseteq [challengeId : 1..MaxChallenges, at : 0..MaxNow]
  /\ nextId \in 1..MaxChallenges + 1

(* One challenge out and one in per player, however challenges of several   *)
(* players cross (challenge_pvp's guards 5b and 6).                         *)
OneEachWay == \A c, d \in challenges :
  c.challenger = d.challenger \/ c.target = d.target => c = d

(* Nobody waits in a circle: of the challenges a player is in, the one it   *)
(* sent is the older, so along "waits for an answer of" they get newer and  *)
(* the chain ends at a player who can answer without being answered (guard  *)
(* 5b; in particular no two players challenge each other).                  *)
ChallengesDoNotCross == \A c, d \in challenges : c.target = d.challenger => d.id < c.id

(* Every challenge has its one expiry row at its own time, and no row is    *)
(* left behind, whichever of seven ways the challenge ends (the disarming   *)
(* at every deletion in pvp.rs).                                            *)
ReapersMatchChallenges ==
  reapers = {[challengeId |-> c.id, at |-> c.createdAt + ChallengeTTL] : c \in challenges}

(* A challenger is there to fight: in the game while its challenge stands,  *)
(* though neither the acceptance nor anything else checks that (the clean   *)
(* up of on_disconnect and of the cascade).                                 *)
ChallengersPresent == \A c \in challenges :
  c.challenger \in player /\ status[c.challenger] # "Terminal"

(* The challenges of all players stay orderly together: one each way, no    *)
(* circle, one reaper each, and a challenger who is there.                  *)
ChallengesWellFormed ==
  /\ ChallengesTyped /\ OneEachWay /\ ChallengesDoNotCross
  /\ ReapersMatchChallenges /\ ChallengersPresent

(* Nobody without a connection, and nobody erased, is in a battle, in       *)
(* either role and although the target of a challenge may leave meanwhile.  *)
BattlersConnected == \A b \in battles : \A p \in {b.player, b.opponent} \ {Wild} :
  p \in online /\ status[p] # "Terminal"

(* A player fights one battle at a time, though challenges, their           *)
(* acceptances and wild encounters overtake each other.                     *)
OneBattleEach == \A a, b \in battles :
  {a.player, a.opponent} \cap {b.player, b.opponent} \cap Players # {} => a = b

(* Whoever fights is there and fights nobody else, although the checks of   *)
(* the challenge may be long out of date when it is accepted.               *)
FightersAvailable == BattlersConnected /\ OneBattleEach

(* Ranked play needs an account of both, also when the challenge is older   *)
(* than the requirement (accept_challenge's guard 3a).                      *)
RankedNeedsAccounts == [][\A b \in battles' \ battles :
  enforced /\ b.opponent # Wild => IsAccountHolder(b.player) /\ IsAccountHolder(b.opponent)]_challengesVars

(* No challenge lasts: one that nobody answers expires (its reaper).        *)
ChallengeEnds == \A id \in 1..MaxChallenges :
  (\E c \in challenges : c.id = id) ~> ~(\E c \in challenges : c.id = id)
=============================================================================
