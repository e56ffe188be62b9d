-------------------------------- MODULE Quests --------------------------------
(***************************************************************************)
(* What players do with the inhabitants of the world: NPCs that wander     *)
(* round their homes, dialogues that give items and start quests, quests   *)
(* that pay when somebody is talked to, and the content all of it is read  *)
(* from, which a publisher replaces under the running game.                *)
(*                                                                         *)
(* Dialogue trees and quests are compiled into the module, so a            *)
(* publication changes them at once; the rows of the NPCs follow with the  *)
(* next sync_content.  A condition or an effect is a pair of its kind and  *)
(* what it names.  A tick's drain of the players' moves is in Movement;    *)
(* here it is Walk.  The account states are in Accounts.                   *)
(***************************************************************************)
EXTENDS Integers, FiniteSets, Sequences, Functions

CONSTANTS
  Guests, Holders,   \* identities that never sign in, and those that do
  Places, Spawn,     \* walkable tiles <<zone, x, y>>; where one joins
  TalkRange,
  Builds,            \* the content of each CONTENT_VERSION: [npcs, trees, quests]
  MaxOnline,         \* bound: players in the game at a time
  Prizes,            \* history: the items granted in dialogues and the quests
  Nowhere,           \* the place of a player without a character
  End                \* next_node of a choice that ends the dialogue

Identities == Guests \cup Holders

ASSUME QuestIdentities == Guests \cap Holders = {} /\ MaxOnline \in Nat
ASSUME QuestPlaces ==
  /\ Places \subseteq Int \X Int \X Int /\ Spawn \in Places /\ Nowhere \notin Places
  /\ TalkRange \in Nat

VARIABLES
  build,      \* the CONTENT_VERSION of the running module
  synced,     \* config.content_version
  npc,        \* the `npc` rows with their characters, by npc_id: a row keeps its entity
  player,     \* the `player` table
  at,         \* the characters of players
  account,    \* `account`: None, Active, PendingDeletion, Terminal
  claimed,    \* accounts that have taken over a guest
  trainers,   \* owners of a monster, for "has game data"
  fighting,   \* players with an ongoing battle
  conv,       \* the `player_conversation` rows, by owner
  told,       \* the `player_dialogue_state` rows, by owner: [flags, done]
  quests,     \* the `player_quest` rows of each owner, oldest first
  paid        \* history: how often a save got each prize, up to twice

world == <<build, synced, npc>>
people == <<player, at, account, claimed, trainers, fighting>>
progress == <<told, quests, paid>>
vars == <<world, people, conv, progress>>

-----------------------------------------------------------------------------
(* Content: the checks of validate_npc_content on what is modelled.         *)

Nodes(c) == UNION {Range(t.nodes) : t \in c.trees}
Scripts(c) ==
  {[if |-> x.if, then |-> x.then] : x \in Nodes(c) \cup UNION {Range(x.choices) : x \in Nodes(c)}}

(* A script that grants is shut by the flag it sets.                        *)
OnceOnlyGated(s) ==
  (\E e \in Range(s.then) : e[1] = "GrantItem") =>
    \E e \in Range(s.then) : e[1] = "SetFlag" /\ <<"NotFlag", e[2]>> \in s.if

Unique(defs) == \A x, y \in defs : x.id = y.id => x = y
IdsOf(defs) == {x.id : x \in defs}

ValidNpcContent(c) ==
  /\ Unique(c.npcs) /\ Unique(c.trees)
  /\ \A d \in c.npcs : d.tree \in IdsOf(c.trees)
  /\ \A t \in c.trees :
       /\ t.nodes # <<>> /\ Cardinality(IdsOf(Range(t.nodes))) = Len(t.nodes)
       /\ t.root \in IdsOf(Range(t.nodes))
       /\ \A x \in Range(t.nodes) : \A h \in Range(x.choices) :
            h.next \in IdsOf(Range(t.nodes)) \cup {End}
  /\ \A s \in Scripts(c) :
       /\ \A e \in Range(s.then) : e[1] = "StartQuest" => e[2] \in IdsOf(c.quests)
       /\ OnceOnlyGated(s)
  /\ \A q \in c.quests :
       q.steps # <<>> /\ \A s \in Range(q.steps) : s.npc \in IdsOf(c.npcs)

GrantsOf(effects) == {e[2] : e \in {f \in Range(effects) : f[1] = "GrantItem"}}

ASSUME QuestContent == \A c \in Range(Builds) :
  /\ \A t \in c.trees : t.nodes \in Seq(Range(t.nodes))
  /\ \A s \in Scripts(c) : s.then \in Seq(Range(s.then))

(* The scripts that may ever grant x, the flags granting it sets, and       *)
(* whether some content clears one of these, which opens the gift again.    *)
GiversOf(x) == {s \in UNION {Scripts(c) : c \in {d \in Range(Builds) : ValidNpcContent(d)}} :
                  x \in GrantsOf(s.then)}
GatesOf(x) == {e[2] : e \in {f \in UNION {Range(s.then) : s \in
  {t \in UNION {Scripts(c) : c \in Range(Builds)} : x \in GrantsOf(t.then)}} : f[1] = "SetFlag"}}
Reopened(x) == \E c \in Range(Builds) : \E s \in Scripts(c) : \E e \in Range(s.then) :
  e[1] = "ClearFlag" /\ e[2] \in GatesOf(x)

(* A prize is one gift, or the reward of one quest: an item that is given   *)
(* behind two flags counts as two prizes.                                   *)
ASSUME QuestPrizes == \A x \in Prizes : GiversOf(x) # {} =>
  /\ \E gate \in GatesOf(x) : \A s \in GiversOf(x) :
       <<"NotFlag", gate>> \in s.if /\ <<"SetFlag", gate>> \in Range(s.then)
  /\ \A c \in Range(Builds) : x \notin IdsOf(c.quests)

-----------------------------------------------------------------------------
(* The rules of dialogues and quests.  A dialogue state s is read from the  *)
(* tables once per call and written once.                                   *)

EvaluateCondition(k, s) ==
  \/ k[1] = "HasFlag" /\ k[2] \in s.flags
  \/ k[1] = "NotFlag" /\ k[2] \notin s.flags
  \/ k[1] = "QuestActive" /\ k[2] \in s.active
  \/ k[1] = "QuestDone" /\ k[2] \in s.done
Permits(x, s) == \A k \in x.if : EvaluateCondition(k, s)

LoadPlayerDialogueState(p) ==
  LET row == IF p \in DOMAIN told THEN told[p] ELSE [flags |-> {}, done |-> {}]
  IN [flags |-> row.flags, done |-> row.done, active |-> {r.quest : r \in Range(quests[p])}]

ApplyEffects(effects, s) ==
  LET Apply(t, e) ==
        CASE e[1] = "SetFlag" -> [t EXCEPT !.flags = @ \cup {e[2]}]
          [] e[1] = "ClearFlag" -> [t EXCEPT !.flags = @ \ {e[2]}]
          [] e[1] = "StartQuest" /\ e[2] \notin t.done -> [t EXCEPT !.active = @ \cup {e[2]}]
          [] OTHER -> t
      after[i \in 0 .. Len(effects)] ==
        IF i = 0 THEN s ELSE Apply(after[i - 1], effects[i])
  IN after[Len(effects)]

(* Rows of quests that are started: none for one that is active or done.    *)
Started(effects, s, rows) ==
  LET Start(rs, e) ==
        IF e[1] = "StartQuest" /\ e[2] \notin s.done /\ (\A r \in Range(rs) : r.quest # e[2])
        THEN Append(rs, [quest |-> e[2], step |-> 1])
        ELSE rs
      after[i \in 0 .. Len(effects)] ==
        IF i = 0 THEN rows ELSE Start(after[i - 1], effects[i])
  IN after[Len(effects)]

(* Steps a talk with n completes: of quests that still exist, whose current *)
(* step waits for n and whose conditions hold.                              *)
ProcessTrigger(r, s, n) ==
  {q \in Builds[build].quests :
     /\ q.id = r.quest /\ r.step <= Len(q.steps)
     /\ q.steps[r.step].npc = n /\ Permits(q.steps[r.step], s)}

(* Every active row hears of the talk, with the state the rows before left. *)
ApplyQuestTrigger_StateDropped(rows, s, n) ==
  LET Advance(acc, r) ==
        LET hit == ProcessTrigger(r, s, n) IN
        IF hit = {} THEN [acc EXCEPT !.rows = Append(@, r)]
        ELSE IF \E q \in hit : r.step < Len(q.steps)
             THEN [acc EXCEPT !.rows = Append(@, [r EXCEPT !.step = @ + 1])]
             ELSE [acc EXCEPT !.won = @ \cup {r.quest}]
      after[i \in 0 .. Len(rows)] ==
        IF i = 0 THEN [rows |-> <<>>, state |-> s, won |-> {}] ELSE Advance(after[i - 1], rows[i])
  IN after[Len(rows)]
ApplyQuestTrigger(rows, s, n) ==
  LET Advance(acc, r) ==
        LET hit == ProcessTrigger(r, acc.state, n) IN
        IF hit = {} THEN [acc EXCEPT !.rows = Append(@, r)]
        ELSE IF \E q \in hit : r.step < Len(q.steps)
             THEN [acc EXCEPT !.rows = Append(@, [r EXCEPT !.step = @ + 1])]
             ELSE [rows |-> acc.rows, won |-> acc.won \cup {r.quest},
                   state |-> [acc.state EXCEPT !.active = @ \ {r.quest}, !.done = @ \cup {r.quest}]]
      after[i \in 0 .. Len(rows)] ==
        IF i = 0 THEN [rows |-> <<>>, state |-> s, won |-> {}] ELSE Advance(after[i - 1], rows[i])
  IN after[Len(rows)]

-----------------------------------------------------------------------------
(* Space.                                                                   *)
Abs(k) == IF k < 0 THEN 0 - k ELSE k
Distance(a, b) == Abs(a[2] - b[2]) + Abs(a[3] - b[3])
InTalkRange(a, b) == Distance(a, b) <= TalkRange

Bumped(from, to) == IF to \in Places THEN to ELSE from

(* One step along the longer axis; x wins a tie.                            *)
TowardHome(here, home) ==
  LET dx == home[2] - here[2]
      dy == home[3] - here[3]
  IN IF Abs(dx) >= Abs(dy) THEN <<here[1], here[2] + (IF dx > 0 THEN 1 ELSE 0 - 1), here[3]>>
     ELSE <<here[1], here[2], here[3] + (IF dy > 0 THEN 1 ELSE 0 - 1)>>

Outside(row) == Distance(row.place, row.home) > row.radius

(* Where the step of an NPC may end: on the way home when outside of its    *)
(* radius, else here or on a legal neighbour (the hash is left open).       *)
NpcDecide(row) ==
  LET here == row.place IN
  IF Outside(row) THEN {Bumped(here, TowardHome(here, row.home))}
  ELSE IF row.radius = 0 THEN {here}
  ELSE {here} \cup {q \in Places : /\ q[1] = here[1] /\ Distance(here, q) = 1
                                  /\ Distance(q, row.home) <= row.radius}

ZoneOf(n) == npc[n].place[1]

ConversationIsLive_RowOnly(p, zone) == TRUE
ConversationIsLive_FromHome(p, zone) ==
  /\ at[p] # Nowhere /\ at[p][1] = zone
  /\ InTalkRange(at[p], npc[conv[p].npc].home)
ConversationIsLive(p, zone) ==
  /\ at[p] # Nowhere /\ at[p][1] = zone
  /\ InTalkRange(at[p], npc[conv[p].npc].place)

Conversing(zone) ==
  {conv[p].npc : p \in {q \in DOMAIN conv : ZoneOf(conv[q].npc) = zone
                                            /\ ConversationIsLive(q, zone)}}

-----------------------------------------------------------------------------
(* The rows of a database seeded with c.                                    *)
RowFromDef(d, place) == [home |-> d.home, radius |-> d.radius, tree |-> d.tree, place |-> place]
DefOf(c, n) == CHOOSE d \in c.npcs : d.id = n

Init ==
  /\ build \in {v \in DOMAIN Builds : ValidNpcContent(Builds[v])} /\ synced = build
  /\ npc = [n \in IdsOf(Builds[build].npcs) |->
               LET d == DefOf(Builds[build], n) IN RowFromDef(d, d.spawn)]
  /\ player = {} /\ at = [p \in Identities |-> Nowhere]
  /\ account = [p \in Holders |-> "None"] /\ claimed = {}
  /\ trainers = {} /\ fighting = {}
  /\ conv = <<>> /\ told = <<>>
  /\ quests = [p \in Identities |-> <<>>]
  /\ paid = [p \in Identities |-> [x \in Prizes |-> 0]]

(* A build whose content passes the test suite's gate is published.         *)
Publish(v) ==
  /\ v # build /\ ValidNpcContent(Builds[v])
  /\ build' = v
  /\ UNCHANGED <<synced, npc, people, conv, progress>>

(* plan_npc_sync: a row keeps its place unless its zone changes, a row      *)
(* without a definition goes, and conversations with it go with it.         *)
Anchored_Kept(rows) == conv
Anchored(rows) == Restrict(conv, {p \in DOMAIN conv : conv[p].npc \in DOMAIN rows})

PlanNpcSync(c) ==
  [n \in IdsOf(c.npcs) |->
     LET d == DefOf(c, n) IN
     RowFromDef(d, IF n \in DOMAIN npc /\ ZoneOf(n) = d.spawn[1] THEN npc[n].place ELSE d.spawn)]

SyncContent ==
  /\ synced # build /\ ValidNpcContent(Builds[build])
  /\ synced' = build
  /\ npc' = PlanNpcSync(Builds[build])
  /\ conv' = Anchored(npc')
  /\ UNCHANGED <<build, people, progress>>

(* The second half of a zone's tick: the NPCs that are due and not in a     *)
(* conversation take their step.                                            *)
MovementTick(zone, due) ==
  /\ UNCHANGED <<build, synced, people, conv, progress>>
  /\ due # {} /\ due \subseteq {n \in DOMAIN npc : ZoneOf(n) = zone} \ Conversing(zone)
  /\ \E step \in [due -> Places] :
       /\ \A n \in due : step[n] \in NpcDecide(npc[n])
       /\ npc' = [n \in DOMAIN npc |->
                    IF n \in due THEN [npc[n] EXCEPT !.place = step[n]] ELSE npc[n]]

-----------------------------------------------------------------------------
(* The reducers of npc.rs.                                                  *)
IsPendingDeletion(p) == p \in Holders /\ account[p] \in {"PendingDeletion", "Terminal"}
MayTalk(p) == p \in player /\ ~IsPendingDeletion(p) /\ p \notin fighting /\ at[p] # Nowhere
Reaches(p, n) ==
  n \in DOMAIN npc /\ at[p][1] = ZoneOf(n) /\ InTalkRange(at[p], npc[n].place)
TreesOf(n) == {t \in Builds[build].trees : t.id = npc[n].tree}

With(f, p, x) == [q \in DOMAIN f \cup {p} |-> IF q = p THEN x ELSE f[q]]
Without(f, p) == Restrict(f, DOMAIN f \ {p})

WritePlayerDialogueState(p, s) == told' = With(told, p, [flags |-> s.flags, done |-> s.done])
Sum(f, g) == [x \in Prizes |-> IF f[x] + g[x] > 2 THEN 2 ELSE f[x] + g[x]]
Nothing == [x \in Prizes |-> 0]
Pay(p, prizes) ==
  paid' = [paid EXCEPT ![p] = Sum(@, [x \in Prizes |-> IF x \in prizes THEN 1 ELSE 0])]

Talk(p, n) ==
  /\ MayTalk(p) /\ Reaches(p, n)
  /\ \E t \in TreesOf(n) : \E i \in DOMAIN t.nodes :
       LET loaded == LoadPlayerDialogueState(p)
           node == t.nodes[i]
           s == ApplyEffects(node.then, loaded)
           heard == ApplyQuestTrigger(Started(node.then, s, quests[p]), s, n)
       IN /\ Permits(node, loaded) /\ \A j \in 1 .. (i - 1) : ~Permits(t.nodes[j], loaded)
          /\ conv' = With(conv, p, [npc |-> n, node |-> node.id])
          /\ quests' = [quests EXCEPT ![p] = heard.rows]
          /\ WritePlayerDialogueState(p, heard.state)
          /\ Pay(p, GrantsOf(node.then) \cup heard.won)
  /\ UNCHANGED <<world, people>>

(* The conditions of the choice are judged again, against the state of now. *)
AdvanceDialogue(p) ==
  /\ p \in DOMAIN conv /\ MayTalk(p) /\ Reaches(p, conv[p].npc)
  /\ \E t \in TreesOf(conv[p].npc) : \E node \in Range(t.nodes) : \E h \in Range(node.choices) :
       LET loaded == LoadPlayerDialogueState(p)
           s == ApplyEffects(h.then, loaded)
       IN /\ node.id = conv[p].node /\ Permits(h, loaded)
          /\ WritePlayerDialogueState(p, s)
          /\ quests' = [quests EXCEPT ![p] = Started(h.then, s, @)]
          /\ Pay(p, GrantsOf(h.then))
          /\ conv' = IF h.next = End THEN Without(conv, p) ELSE [conv EXCEPT ![p].node = h.next]
  /\ UNCHANGED <<world, people>>

DismissDialogue(p) ==
  /\ ~IsPendingDeletion(p) /\ p \in DOMAIN conv
  /\ conv' = Without(conv, p)
  /\ UNCHANGED <<world, people, progress>>

-----------------------------------------------------------------------------
(* Presence and play.                                                       *)
JoinGame(p) ==
  /\ p \in Holders => account[p] = "Active"
  /\ p \notin player /\ Cardinality(player) < MaxOnline
  /\ player' = player \cup {p} /\ at' = [at EXCEPT ![p] = Spawn]
  /\ trainers' = trainers \cup {p}
  /\ UNCHANGED <<world, account, claimed, fighting, conv, progress>>

(* Steps and warps, drained or queued before a deletion was requested.      *)
Walk(p) ==
  /\ p \in player \ fighting /\ at[p] # Nowhere
  /\ \E q \in Places : at' = [at EXCEPT ![p] = q]
  /\ UNCHANGED <<world, player, account, claimed, trainers, fighting, conv, progress>>

StartBattle(p) ==
  /\ p \in (player \cap trainers) \ fighting /\ ~IsPendingDeletion(p)
  /\ fighting' = fighting \cup {p}
  /\ UNCHANGED <<world, player, at, account, claimed, trainers, conv, progress>>

FinishBattle(p) ==
  /\ fighting' = fighting \ {p} /\ p \in fighting
  /\ UNCHANGED <<world, player, at, account, claimed, trainers, conv, progress>>

(* The last monster leaves in a trade.                                      *)
TradeAway(p) ==
  /\ p \in player \ fighting /\ ~IsPendingDeletion(p)
  /\ trainers' = trainers \ {p}
  /\ UNCHANGED <<world, player, at, account, claimed, fighting, conv, progress>>

(* The last connection closes.                                              *)
OnDisconnect(p) ==
  /\ p \in player
  /\ fighting' = fighting \ {p}
  /\ conv' = Without(conv, p)
  /\ at' = [at EXCEPT ![p] = Nowhere] /\ player' = player \ {p}
  /\ UNCHANGED <<world, account, claimed, trainers, progress>>

OnConnect(p) ==
  /\ account[p] \in {"None", "Terminal"}
  /\ account' = [account EXCEPT ![p] = "Active"] /\ claimed' = claimed \ {p}
  /\ UNCHANGED <<world, player, at, trainers, fighting, conv, progress>>

DeleteAccount(p) ==
  /\ account[p] = "Active"
  /\ account' = [account EXCEPT ![p] = "PendingDeletion"]
  /\ UNCHANGED <<world, player, at, claimed, trainers, fighting, conv, progress>>

CancelAccountDeletion(p) ==
  /\ account[p] = "PendingDeletion"
  /\ account' = [account EXCEPT ![p] = "Active"]
  /\ UNCHANGED <<world, player, at, claimed, trainers, fighting, conv, progress>>

(* erase_npc_state: all three tables in the one transaction.                *)
Unspoken_Kept(p) == conv
Unspoken(p) == Without(conv, p)

AccountDeletionReaper(p) ==
  /\ account[p] = "PendingDeletion"
  /\ account' = [account EXCEPT ![p] = "Terminal"]
  /\ fighting' = fighting \ {p} /\ trainers' = trainers \ {p}
  /\ at' = [at EXCEPT ![p] = Nowhere]
  /\ told' = Without(told, p) /\ quests' = [quests EXCEPT ![p] = <<>>]
  /\ conv' = Unspoken(p)
  /\ paid' = [paid EXCEPT ![p] = Nothing]
  /\ UNCHANGED <<world, player, claimed>>

HasQuestOrDialogueState(p) == quests[p] # <<>> \/ p \in DOMAIN told

(* rekey_npc_state: the rows of the guest become those of the account, which *)
(* must have none; what either was paid is now paid to the one save.        *)
CompleteGuestClaim(p, guest) ==
  /\ account[p] = "Active" /\ p \notin claimed
  /\ guest \notin player /\ {guest, p} \cap fighting = {}
  /\ p \notin trainers /\ ~HasQuestOrDialogueState(p)
  /\ claimed' = claimed \cup {p}
  /\ trainers' = IF guest \in trainers THEN (trainers \ {guest}) \cup {p} ELSE trainers
  /\ quests' = [quests EXCEPT ![p] = quests[guest], ![guest] = <<>>]
  /\ told' = IF guest \in DOMAIN told THEN With(Without(told, guest), p, told[guest]) ELSE told
  /\ paid' = [paid EXCEPT ![p] = Sum(@, paid[guest]), ![guest] = Nothing]
  /\ UNCHANGED <<world, player, at, account, fighting, conv>>

-----------------------------------------------------------------------------
HomingStep(n) == n \in DOMAIN npc /\ Outside(npc[n]) /\ \E others \in SUBSET (DOMAIN npc \ {n}) :
  MovementTick(ZoneOf(n), others \cup {n})

Next ==
  \/ \E v \in DOMAIN Builds : Publish(v)
  \/ SyncContent
  \/ \E zone \in {q[1] : q \in Places} : \E due \in SUBSET DOMAIN npc : MovementTick(zone, due)
  \/ \E p \in Identities :
       \/ \E n \in DOMAIN npc : Talk(p, n)
       \/ AdvanceDialogue(p) \/ DismissDialogue(p)
       \/ JoinGame(p) \/ Walk(p) \/ StartBattle(p) \/ FinishBattle(p) \/ TradeAway(p)
       \/ OnDisconnect(p)
  \/ \E p \in Holders :
       \/ OnConnect(p) \/ DeleteAccount(p) \/ CancelAccountDeletion(p) \/ AccountDeletionReaper(p)
       \/ \E g \in Guests : CompleteGuestClaim(p, g)

(* A zone's tick is an interval schedule and each NPC is due on one tick in *)
(* five.                                                                    *)
NpcIds == UNION {IdsOf(c.npcs) : c \in Range(Builds)}
Spec == Init /\ [][Next]_vars
FairSpec == Spec /\ \A n \in NpcIds : WF_vars(HomingStep(n))

-----------------------------------------------------------------------------
TypeOK ==
  /\ {build, synced} \subseteq DOMAIN Builds
  /\ DOMAIN npc = IdsOf(Builds[synced].npcs)
  /\ player \subseteq Identities /\ at \in [Identities -> Places \cup {Nowhere}]
  /\ account \in [Holders -> {"None", "Active", "PendingDeletion", "Terminal"}]
  /\ {claimed, trainers, fighting, DOMAIN conv, DOMAIN told} \subseteq SUBSET Identities
  /\ paid \in [Identities -> [Prizes -> 0 .. 2]]

(* A conversation is somebody's who is in the game, with an NPC that is.    *)
ConversationsAreGrounded ==
  \A p \in DOMAIN conv : p \in player /\ p \in DOMAIN told /\ conv[p].npc \in DOMAIN npc

(* A save is whole: a quest is active once or done, and its rows come and   *)
(* go with the dialogue state; an erased save has none of them.             *)
SavesAreWhole ==
  /\ \A p \in Identities :
       /\ \A i, j \in DOMAIN quests[p] : i # j => quests[p][i].quest # quests[p][j].quest
       /\ quests[p] # <<>> => p \in DOMAIN told
       /\ \A r \in Range(quests[p]) : r.quest \notin told[p].done
  /\ \A p \in Holders : account[p] = "Terminal" => ~HasQuestOrDialogueState(p)

(* Conversations and quest progress stay whole, whatever players,           *)
(* publishers, claims and erasures do in between.                           *)
QuestsWellFormed == TypeOK /\ ConversationsAreGrounded /\ SavesAreWhole

(* However often somebody talks, answers, leaves, comes back, is claimed    *)
(* and meets new content, a save gets each reward and each gift once.       *)
PaidOnce == \A p \in Identities : \A x \in Prizes : paid[p][x] = 2 => Reopened(x)

(* The browser takes a quest row that leaves beside a conversation for a    *)
(* completion: no other transaction looks like one, and every one does.     *)
Completes(p) ==
  \A r \in Range(quests[p]) : (\A u \in Range(quests'[p]) : u.quest # r.quest) =>
    (p \in DOMAIN conv' <=> p \in DOMAIN told' /\ r.quest \in told'[p].done)
CompletionsAreSeen == [][\A p \in Identities : Completes(p)]_vars

(* An NPC does not walk away from one who talks to it and stays.            *)
Near(p) == p \in DOMAIN conv /\ at[p] # Nowhere /\ Reaches(p, conv[p].npc)
IsWaitedFor(p) ==
  Near(p) /\ at'[p] = at[p] /\ synced' = synced /\ p \in DOMAIN conv' => Near(p)'
NpcsWaitForTalkers == [][\A p \in Identities : IsWaitedFor(p)]_vars

(* An NPC that content has put outside of its radius gets home, although    *)
(* a player who talked to it walked off and left the conversation open,     *)
(* unless the next publication is out.                                      *)
Strays(n) == n \in DOMAIN npc /\ Outside(npc[n])
Pinned(n) == \E p \in Identities : Near(p) /\ conv[p].npc = n
NpcsComeHome ==
  \A n \in NpcIds : Strays(n) ~> (~Strays(n) \/ Pinned(n) \/ synced # build)
=============================================================================
