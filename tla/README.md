# monster-realm in TLA+

monster-realm is a multiplayer monster-collecting game: an authoritative server module (Rust, run
by a SpacetimeDB host), a library of pure rules it shares with the browser client (`game-core`), the
client (TypeScript with a wasm bridge) and development tools. This directory holds TLA+ models of its
core logic, the TLC runs that check them and proofs that TLAPS checks.

## 1. Inventory

The host executes one *reducer* at a time, each as one transaction: an `Err` rolls everything back,
and a reducer never sees another half done. Reducers are called by clients, by connection hooks, and by
the scheduler, which fires rows of `*_schedule` tables at or after their time. So nothing interleaves *inside* a
call. What is hard is the order of calls: every feature is a protocol of several calls, by several
players and schedule rows, with anything in between.

| component (source) | state | operations | with whom it interacts | what is hard | what makes it correct |
|---|---|---|---|---|---|
| trading (`server-module/trading.rs`, `game-core/trading`) | `trade_offer`, its reaper schedule | propose, respond, confirm, cancel, reap | guards, economy, battles, accounts, disconnect | three calls by two players; promised assets stay usable elsewhere unless each spender looks | promised assets stay held; one offer per player; exact swap; offers always end |
| commitment guards (`guards.rs`) | none (reads) | trade lock, battle lock, escrow sums, deletion gate | every reducer that moves an asset | each lock is checked by the reducer that takes the *other* one | a monster is never traded and fighting |
| economy, inventory (`economy.rs`, `inventory.rs`, `currency.rs`) | counts, balances | buy, sell, grant, consume, spend | trades, quests, battles | saturation at caps; stale availability | no loss at a cap, no promised item spent |
| accounts (`accounts.rs`, `accounts/deletion.rs`) | `account`, claim rows, deletion schedule | provision, delete, cancel, reap, start/complete guest claim | all tables (cascade, rekeying) | grace period, re-arming, erased but connected identities, one claim ever | complete erasure; grace-period offers never accepted; deletion eventually happens |
| sessions (`lib.rs`) | `session`, `player` | connect, disconnect | live interactions | several sockets of one identity, late closes | presence outlives interactions |
| battle lifecycle (`tactics.rs`, `tactics_settle.rs`) | `battle`, tactical rows, deadline/advance/gc schedules | start, deploy, submit, cancel, advance, deadline, flee, finish, gc | queue engine, clock, trades, ranking, recruit | stale deadlines, double finishes, disconnects | one settlement per battle; every battle ends |
| tactical engine (`game-core/tactics`) | pure | submit, advance, expire, conclude, resolve, initiative, upkeep | server's tactics | clock arithmetic, ordering, replay | legality, progress, determinism |
| combat (`game-core/combat`) | pure | damage, status, xp | tactical engine | rounding | bounds |
| PvP challenges (`pvp.rs`) | challenge rows and reaper | challenge, accept, decline, cancel, reap | battles, disconnect | crossing challenges, acceptance racing expiry | one challenge in and out per player, no dangling challenge |
| ranking (`ranking.rs`) | ratings | update on finish | battles | rounding | zero sum, bounds |
| movement (`movement.rs`, `world.rs`) | position, step queue, acknowledged sequence number | join, enqueue, set, clear, tick, warp | battles, npc, client's predictor | sequence reuse, full queue, locks between enqueue and tick | no step twice, none while fighting |
| raising (`raising.rs`) | stats, quality time | train, essence, heal, care | inventory, escrow | daily cap, idle gaps, clock steps back | credit below the cap |
| evolution (`evolution.rs`) | notices | evolve, acknowledge | client | acknowledgement by prefix | no notice lost |
| monster management (`monster_mgmt.rs`) | party slots, names | set, release | battles, trades | locks | slots unique |
| NPCs, dialogue, quests (`npc.rs`, `game-core/npc`, `dialogue`, `quest`) | `npc`, `player_conversation`, `player_dialogue_state`, `player_quest` | talk, advance, dismiss, wander, sync | economy, movement's tick, accounts, claims, published content | state read and written once per call, rows that outlive the content they came from, conversations that nobody ends | rewards and gifts once; NPCs wait, but not for ever; completions are told from erasures |
| taming (`taming.rs`) | catch rolls | recruit | battles | bait taken, catch failing | a bait per attempt |
| privacy exports (`privacy.rs`) | `export_bundle`, the sweep's schedule row | request, sweep, arm | accounts, claims, everything that is copied | stamps shared within a millisecond, a ceiling shared by classes of callers, windows smaller than a copy | copies are whole; every class keeps its share; the erased are forgotten |
| content, marshalling, schema | static rows | validate, seed, sync | all | code and rows of two versions | round trips; live rows survive a sync |
| one-on-one battles (`battle.rs`) | — | no entry point is a reducer any more | — | — | — |
| client prediction and connection (`client/src/prediction`, `net`) | predicted position, pending inputs, the link | predict, reconcile, reject, reconnect, reload | movement | answers and rows of a connection that is gone, reloads, a server that walks later | agrees with the server when nothing is under way; waits for nothing that cannot come |
| client claim (`client/src/net/claimCode.ts`, `connection.ts`, `ui/claimModel.ts`) | the code in session storage, the overlay's phase, the credential | mint, register, leave, return, redeem, decline, join | accounts, the sign-in provider | lost answers, repeated calls, a page that goes away in the middle | the account starts no game while the guest's can be had; a working code is kept |
| wasm bridge, UI, simulation harness, evals, scripts, ops | — | — | — | — | presentation and tooling |

`PROJECT.json` repeats the list with what is modelled of each, and the hazards at their lines with the
properties that cover them or the planned module that will.

## 2. Plan

Done, in this order:

1. **Trading**: the asset plane, because it is where five features meet in one set of
   tables. `EscrowContract` is its abstract specification; `TradingProofs` holds its invariants,
   the refinement and the lifecycle of accounts.
2. **Accounts**: sessions of several sockets, guest claims by code, the deletion schedule and its re-arming; proofs in `ClaimingProofs`.
3. **Challenges**: challenges of several players, expiry racing acceptance, the ranked gate; `BattleProofs`.
4. **TurnMachine**, the queue of turns of `game-core`, and **Tactics**, the server's rows and schedules around it, which meet in
   `TurnContract`: the first implements it, the second is built on it; `BattleProofs`, `TacticsProofs`.
5. **Movement**: the server's walk, the browser's predictor and the connection between them; `MovementProofs`.
6. **Raising**: quality time, care, essence, evolution and its notices; `RaisingProofs`.
7. **Claiming**: the browser's side of a guest claim, composed with Accounts; `ClaimingProofs`.
8. **Exports**: copies of a player's data, their admission and their retirement; `ExportsProofs`.
9. **Quests**: NPCs, dialogues and quests under content that is replaced while they are in use; `QuestsProofs`.

Left: the reconnect policy's timing; the pure algorithms (Elo, initiative, geometry) against reference
definitions over bounded inputs.  Every safety property that a run checks is proved.

Modules to be proved about declare no `RECURSIVE` operator, take their sizes as `CONSTANTS` with named assumptions,
and state invariants as conjunctions of named parts.

## 3. Modules

### Trading

One transaction is one action. State and tables:

| variable | table |
|---|---|
| `player` | `player`: identities that joined and are connected |
| `account` | `account.status`, `deletion_requested_at` (`None`: a guest or not yet provisioned) |
| `owner` | `monster.owner_identity`; `Unborn` before the id is handed out, `Erased` after its row is deleted |
| `inventory`, `wallet` | counts and balances, 0 for an absent row |
| `battles` | `battle` rows whose outcome is Ongoing: its two players, the monsters each fields |
| `offers`, `reapers`, `nextTradeId` | `trade_offer`, `trade_offer_reaper_schedule`, its auto-increment |
| `now` | `ctx.timestamp` |

| actions | code |
|---|---|
| `ProposeTrade`, `AcceptTrade`, `DeclineTrade`, `ConfirmTrade`, `CancelTrade`, `TradeOfferReaper` | the reducers of `trading.rs`; accept and decline are the two arguments of `respond_trade` |
| `StartWildTactical`, `StartPvpTactical`, `TakeBait`, `Recruit`, `Finish` | the tactical battle as far as it locks, consumes and grants |
| `Buy`, `Sell`, `HealParty`, `Train`, `AdvanceDialogue` | the other spenders and sources |
| `JoinGame`, `OnDisconnect` | presence; the last disconnect resolves the live interactions, then deletes the player row |
| `CompleteGuestClaim` | an account takes over what a guest owned; the code is left to Accounts, so any account may hold it |
| `ProvisionAccount`, `DeleteAccount`, `CancelAccountDeletion`, `AccountDeletionReaper` | account status and the cascade |
| `Tick` | time |

What is abstracted: prices, items' effects, monsters' stats, party slots, zones and proximity, and the content
that decides rewards. A reward is any amount up to `MaxReward`. A side of an offer is a set of monsters, a quantity of every item and an amount. A battle
may end at any time, since nothing in this module depends on how. `consume_crystalized_essence`
has the guards and the effect of `train` here and is that action; `talk` likewise is `AdvanceDialogue`.
Where a reducer writes a list of steps that cannot fail after its checks (`ordered_steps` of the swap), the action composes
them in their order: `Settled` debits, then credits with saturation.

Assumptions: timestamps do not go back, and a schedule row is fired at or after its time, never before (which the host guarantees).
Not in this module: the item cost of healing (no content has one). An empty wallet row is not told from no row.
Real login issuers are not configured at this commit (the allowed list holds a placeholder),
so account actions describe code that is complete but not yet reachable by players.

Operators with a suffix, such as `HasActiveTrade_FirstIndexOnly`, are wrong on purpose and used by no action: each is a bug the neighbouring definition could
have had, and the properties are known to notice it.

### EscrowContract

What trading promises, without the mechanism: assets are held by somebody, an agreement is opened on held
assets, may be accepted, and either ends without effect or exchanges exactly what was promised; between these steps
anybody may gain or lose anything *except what they have promised*, and somebody without an agreement may bequeath
everything (the claim of a guest's assets). There are no locks, clocks, battles, presence or accounts in it.
Trading implements it under the mapping `live <- {ContractOf(o) : o \in offers}`, `items <- inventory`, `coins <- wallet`.

### Accounts

Presence, saves and the two schedules around them, with the rows one by one that Trading leaves out. A *save* stands for
all game data of one identity; battles and offers (and so guard 10 of a claim) are in Trading.

| variable | table |
|---|---|
| `open` | the connections the host knows; the truth `session` should mirror |
| `session`, `player` | `player_session` by connection id, `player` |
| `holder` | whose a save is: an identity, `Unborn`, or `Erased` |
| `account`, `claim` | `account` (status, request stamp, claim spent), `guest_claim` (code, expiry) |
| `claimReapers`, `deletionReapers` | the fire times of one identity's schedule rows, in insertion order |
| `synced` | whether `sync_content` ran since the schedule of deletions was introduced |

| actions | code |
|---|---|
| `OnConnect`, `OnDisconnect`, `JoinGame` | connection hooks (provisioning is part of the first), `join_game` |
| `StartGuestClaim`, `CompleteGuestClaim`, `GuestClaimReaper` | the claim reducers and the expiry of codes |
| `DeleteAccount`, `CancelAccountDeletion`, `AccountDeletionReaper`, `SyncContent` | the deletion reducers, the cascade or re-arm, the sync of a publisher |

A socket is closed once; what looks like a late close of an old socket is a socket the host still knows. A host crash is the
closing of all sockets (at launch the host replays `client_disconnected` for each), so it adds no behaviour. `Early` is how far
the clock may read before the time a row was fired for: the reapers re-check for that ("clock skew"), so the model allows it.
Connections with a token that is refused are rolled back and leave nothing. Codes are drawn from a small set, and a code another guest holds
is refused as the unique column refuses it.

### Challenges

How two players come to fight, with everything that may happen between a challenge and its answer.

| variable | table |
|---|---|
| `challenges`, `reapers`, `nextId` | `battle_challenge` (every stored row is Pending), its reaper schedule and auto-increment |
| `battles` | `battle` rows whose outcome is Ongoing, as pairs of players |
| `online`, `player`, `status` | connected identities, the `player` table, `account.status` |
| `enforced` | whether `ALLOWED_ISSUERS` holds a real issuer, which switches the ranked gate on and lets accounts sign in |

| actions | code |
|---|---|
| `ChallengePvp`, `AcceptChallenge`, `DeclineChallenge`, `CancelChallenge`, `BattleChallengeReaper` | the reducers of `pvp.rs` |
| `StartWildTactical`, `Finish` | other ways into and out of a battle |
| `OnConnect`, `JoinGame`, `OnDisconnect`, `DeleteAccount`, `CancelAccountDeletion`, `AccountDeletionReaper` | as in Accounts, with what they do to challenges and battles |
| `ConfigureIssuers` | a module with a real issuer is published (in the code a constant) |

What the parties field is left out (Trading has it), so an acceptance may also be refused here for no visible reason. An identity has one
connection. The grace period of a deletion may end at any time.
The code lets a challenge's target be absent, and an overdue challenge be accepted while its reaper is late; so does the model.

### TurnContract, TurnMachine, TurnPromise

`TurnContract` says what one call of the turn machine may make of a battle, as operators from a battle to the set of its successors
(`AfterStart`, `AfterSubmit`, `AfterCancel`, `AfterExpire`, `AfterAdvance`, `AfterConclude`): a call leaves a player's unit waited for in a fresh window, the next round
to be scheduled, or a decided battle whose plans are void and windows shut. `TurnPromise` is the state machine of these calls.

`TurnMachine` is the machine itself. Inputs are accepted between calls; inside a call the chain goes entry by entry.

| variable | code |
|---|---|
| `kind`, `first`, `round`, `turn`, `outcome` | `TacticalState`: the kind, the tie priority, the round, `turn_state`, the outcome |
| `hp`, `budget`, `initiative`, `plans`, `clock` | units' hit points and turn budgets, the order, READY plans, the sides' clocks |
| `run` | the program counter of a chain: the snapshot of the order, the position in it, the rest of a plan |
| `saved`, `taken` | history: the battle as the last call left it; who has had a turn this round |

The board is left open: an entry that is not certain to be legal may be refused when it is popped, an attack may hit any unit, a status may block a turn.
So are all durations: a window may expire whenever it is open.

### Tactics

One record per battle id: the anchor row, the tactical row with its phase, the staged deployments, the battle `load` composes, and the bags of
schedule rows. `settled` and `rated` are history. Each action is one reducer: the two starts, `deploy_units` and its PvP staging, submit, cancel, forfeit, the two tactical schedules with
deployment expiry, the collection a day later, and the disconnect. Every handler ends in one of two funnels (`finish`, `store`), which are operators here as in the code.
A schedule row is consumed when it fires; it may fire ahead of its time (`Premature`), and a call whose row was deleted meanwhile may still arrive
(`LateDeadline`, `LateAdvance`). `Publish` replaces the content a battle was written under, so that it no longer loads.

Not here: what the battle does to monsters and assets (Raising, Trading), the practice format, and the closing of battles that the retired engine left behind (`LegacyEnded`).

### Movement

| variable | code |
|---|---|
| `row` | the `character` and `player` rows: place, queue, acknowledged number; each entry of the queue carries the number and the predictor (`epoch`) of its call, which the code does not store and only properties read |
| `ackPage` | history: the page whose call the server acknowledged last |
| `sessions`, `inBattle` | `player_session`, the battle lock |
| `up`, `down` | calls and answers under way, by connection, in order |
| `client` | the page: subscribed rows, predictor (predicted place, pending operations, next number), connection, `lastSentSeq` |

The predictor is written as functions on the browser's state, named after its methods: `NewPredictor`, `Reconciled`, `Dropped`, `Outstanding`. What an array's `filter` keeps is `Selected`, in `Queues`, which Raising uses too: a recursive
function, where the community modules' `SelectSeq` is an operator the provers cannot look into.

The server's actions are `JoinGame`, `Move` (the three queue reducers), `MovementTick`, `Challenged`, `BattleOver`, `OnDisconnect`; the browser's `Send`, `Frame`, `Connect`,
`ReceiveSnapshot`, `ReceiveRows`, `ReceiveRejection`, `Drop`, `Reload`; `Lose` is the network. Zones are corridors joined by warps; grass makes a step that may start a battle.
Left out: the continuation of a held key (its sends are sends like the others), frames drawn while the link is dead, NPCs in the way, the start of zone schedules. `setMove` and `clearQueue` have no caller in
`main.ts`; the model uses them, since the predictor and the server both provide them.

### Raising

Monsters with their owner, species, level, essence, cooldowns and quality time; offers and battles as far as they lock; the notices of evolutions. `Accrued` is `apply_quality_time_credit` branch by branch,
`Checked` the chain of `check_and_evolve`, whose steps each action takes in the order its reducer does (`Tails`). `log` and `acked` are history: every reveal in the order it was told, with the owner it was told to, and how many each owner has dismissed. `SetBack` sets the host's clock back, for which the code has branches.
The graph is any that satisfies what `validate_evolution_paths` demands: `RaisingTiers` states its rules R5 and R11 with a tier for each species,
of which there are no more than a check takes steps (the comment on `MAX_EVOLUTION_CHAIN_STEPS`, `evolution.rs` 29-32, leans on it).
Left out: nutrition, the crystalized essence item, what a new form rolls. The penalty of a faint and the reset of a bond run no check for evolutions in the code, nor here.

### Claiming

Accounts, with one browser tab on top: EXTENDS it, so that every step of the server is one of Accounts' actions.

| variable | code |
|---|---|
| `stored`, `marked`, `minted` | session storage: the claim code and the mark of an earlier account build; codes never repeat |
| `page` | the state of the page's scripts: the overlay's phase, `forcedAnon`, the parked session, a redirect under way |
| `conn`, `link`, `ours`, `up`, `down` | the current build, its credential and snapshot; the tab's sockets at the server; calls and answers under way |
| `redeemed`, `late` | history: codes redeemed; codes whose registration reached the server after the tab had left that connection |

The browser decides its credential (`Credentials`, `Build`, `Park`), gates its join on the first snapshot (`Applied`), and reacts to answers (`Registered`, `Completed`); the player opens the overlay,
signs in, declines in two steps, joins; the server takes each socket's calls in order (`Serve`) and notices late that a socket is gone (`Close`); other tabs of both identities and the scheduler run freely (`Elsewhere`).
Left out: a deletion of the account during a claim, tokens the server rejects, pages restored from the back-forward cache.

### Exports

| variable | table |
|---|---|
| `account`, `player`, `wallet` | `account.status`, `player`, which identities have a `player_wallet` row |
| `own` | how many rows a player has in the tables that name nobody else |
| `deals` | `trade_offer` and `battle` rows by their two parties |
| `chunks` | `export_bundle`: owner, stamp, index, total, and whom the payload names |
| `sweeps` | the number of rows of the sweep's schedule |

`RequestDataExport` is the whole transaction: both gates, the purge, the stamp, the chunks, the arming. `ExportBundleReaper` is one tick of the sweep, `SyncContent` the publisher's arming of it; the other
actions move what is copied. The origin of time is now: a stamp says how far it lies ahead, and `Tick` lowers them all, so that the clock needs no bound; `Lag` bounds how long a due copy may wait for the sweep.
The seventeen tables stand as three kinds: rows of the player alone, offers (whose serialised row names both parties) and battles (whose serialised row names only the one who asks). Sizes of rows, the format
of a payload, the view `my_export_bundle` and the client that assembles the chunks are left out.

### Quests

| variable | table |
|---|---|
| `build`, `synced` | the content compiled into the running module; `config.content_version` |
| `npc` | `npc` rows with the place of their `character` rows. A name has one row, which keeps its entity as long as it exists, so the name stands for the entity id |
| `player`, `at`, `account`, `claimed` | `player`, the place of its character, `account` |
| `trainers`, `fighting` | owners of a monster; players with an ongoing battle |
| `conv`, `told`, `quests` | `player_conversation`, `player_dialogue_state`, `player_quest` |
| `paid` | history: which gifts and rewards the save of an identity was paid, 0, 1 or 2 for more |

Content is a value: NPC definitions, trees of nodes with conditions, effects and choices, and quests with steps. `ValidNpcContent` is `validate_npc_content` on these; a build that fails it is not published. `Talk`,
`AdvanceDialogue` and `DismissDialogue` are the reducers, each one transaction: the state of the dialogue is loaded once, the node's or choice's effects are applied (`ApplyEffects`, `Started`), a talk triggers the quests
(`ApplyQuestTrigger` goes over the rows with the state that the rows before have left) and the state is written once. `MovementTick` is the second half of `movement_tick`: every due NPC that nobody
talks to takes a step that `npc_decide` could choose (its hash is left open). `SyncContent` is the plan of `plan_npc_sync` and its application with the cascade. `Walk`, `StartBattle`, `FinishBattle` and `TradeAway` stand for
Movement, Tactics and Trading. Left out: amounts, the experience effect (a no-op in the code), quest steps that wait for an item or a defeat (no reducer fires such a trigger), the `interaction` of an NPC, and the logs.

Two assumptions are about content. `QuestContent`: the nodes of a tree and the effects of a script are sequences. `QuestPrizes`: a counted prize is one gift, behind one flag in every script that grants it, or the reward of one quest;
an item that content gives behind two flags is two gifts, and is counted as two prizes.

## 4. Runs

Each MC module instantiates one module and names its symmetric sets; guests, accounts, monsters, sockets and saves are
used only through equality. Runs with fairness do without symmetry.

| run | instance | question |
|---|---|---|
| `settlement` | 2 guests, 2 monsters, 1 item kind, caps and amounts 2 | Does anything spend what is promised, and is the swap exact at the caps? Caps of 2 give balances below, at and above what an offer names |
| `lifecycle` | 2 guests, 1 account, 2 monsters, 2 offers, clock 0..2, fair | Can offers, battles, disconnects and expiries make the two locks disagree, or give a player two offers? (Two of the three can be in the game at a time; crossed offers of three are for the proof, which has any number.) The account claims a guest, or its deletion is requested, cancelled and completed, at any point of trades and battles: is the erasure complete, is no promise or battle left without its monsters, does every offer end? Two ticks put an offer before, at and after the request's stamp, with a grace of one tick |
| `sessions` | 1 guest, 2 accounts (one pending from before the schedule), 2 sockets, 1 code, 2 saves, rows up to 1 early, fair | Presence against sockets, also of accounts erased and revived while connected; saves and codes; both schedules; does every pending deletion and every code end? Two sockets are one that closes and one that stays, two accounts are two that race for a code |
| `claims` | 1 guest, 1 account, 2 sockets, 2 sign-ins, 2 saves, clock 0..1 | Does the account start a game of its own over the guest's, and can a working code be lost to a late answer, a reload or a failure? Two sockets let the tab's old connection overlap the next one, or another tab of either identity be open; two sign-ins let a code be replaced while calls about the first are under way |
| `late` | as `claims`, with 1 sign-in | Expected to be violated, see section 6 |
| `challenges` | 3 guests, 2 accounts, 2 challenges, clock 0..1, fair | Do challenges stay one each way and uncrossed (two challenges of three players are the least for a chain), can a late acceptance put an absent, erased, fighting or unentitled player into a battle, does every challenge end? |
| `turns` | 2 units against 1, wild and PvP, 2 rounds, fair | Turns, plans, points and windows through every chain of one call; does every battle end; does the machine keep `TurnContract`? Two units on one side are the least for one to fall while another has yet to act, two rounds the least for a plan to outlive one |
| `tactics` | 2 players, 2 battle ids, 1 unit of each side fielded, windows up to 2, fair | Schedule rows that fire late, early or after they were deleted, racing submissions, forfeits, disconnects and a publication: one driver per battle, one settlement, no strike, forfeit or flight by the clock out of time, locked deployments kept, and an end |
| `walks` | 2 zones, 1 step kind and the three operations, queue of 1, 2 connections, 2 pages, 2 intents a page, 1 battle, fair | Does the predictor agree with the server across rejections, drops, reloads and warps? A queue of one step is full after one intent |
| `raising` | 1 guest, 1 account, 1 monster, 4 species, days of 5, clock 5..10 | Credit across a day's end, a trade, a claim and a clock set back; evolutions and what their owners are told |
| `quests` | 1 guest, 1 account, one of them in the game at a time, 3 tiles in 2 zones, 2 valid builds and 1 that would pay for every talk, fair | Two NPCs, of which the second build moves one beyond its radius and drops the other: progress, payments and conversations through talks, departures, claims, erasures and publications; does an NPC that was moved get home? Talking takes the same tile, which makes one step enough to walk off |
| `exports` | 1 guest, 1 account, chunks of 1 row, ceiling 6, life of 2, windows of 2 rows and 1 stamp, fair | Copies of 3 or more chunks against a window of 2; two requests in one millisecond; a ceiling whose quarter no copy fits, whose half fits one, and which fits two small ones |

Bounds: `MaxNow` stops the clock, `MaxTrades` the offers, `MaxChallenges` the challenges, `MaxReward` and `MaxOffered` the amounts of one call, `MaxSeq` the windows of a battle (Tactics) or the intents of a page
(Movement), `MaxConns`, `MaxPages`, `MaxBattles` the connections, page loads and battles, `MaxEvents` the battles, trades and clock jumps (Raising), `MaxMints` the sign-ins, `MaxRows` and `MaxDeals` what a player has to copy, `MaxOnline` the players in the game (Quests: one, so that at any time at most one conversation is open; `NpcsComeHome` is checked with one talker who may walk off, and two players meet only through an NPC held in place). An offer, challenge or code is made only
while its expiry lies within `MaxNow`, so that none survives merely because the model's time ended. Ids run out
rather than being reused, as in the tables. In Tactics a battle in its last window may only be left by the ways out that take no other; that a battle gets enough windows is checked underneath, by `WindowsSuffice` of the turn machine.
The deadlock check is off in `turns`, `tactics`, `walks` and `raising`, which stop at their bounds (a decided battle takes no input, a page that is up and has nothing to send waits); it is on elsewhere.

**Fairness.** Time passes; the host fires a due row at some time; calls and answers on a connection that is up arrive, and frames are drawn; the sweep of copies and the tick of a zone, rows with an interval, fire again and again as long as they are there, and each NPC is due at one tick in five; the scheduled part of a turn chain goes on. All are properties of
the host, the network stack and the browser. No fairness is assumed of a player: offers, challenges and battles must end although nobody answers.
`CodesEnd` excepts a code whose row fired ahead of its time: unlike the deletion reaper, `guest_claim_reaper` arms no other, so such a code stays until it is used or replaced (`ClaimReapersMatch`, proved, says exactly when).

What breaks each property, as a change of one definition that a plausible bug would be (operators with a suffix, such as `Joins_RowOnly`, used by no action):

| property | broken by |
|---|---|
| `OffersWellFormed`, `MonstersCommittedOnce` | accepted offers overlooked; a lookup in one of the two index columns only |
| `HoldingsBacked` | a purchase that ignores what is promised |
| `ImplementsEscrowContract` | a swap that credits before it debits |
| `ErasedOwnsNothing`, `GraceOffersNeverAccepted` | a gate that forgets erased accounts; `>` for `>=` at the instant of the request |
| `OfferResolved`, `ChallengeEnds` | a staleness test stricter than the time the row was armed for |
| `PresenceWellFormed`, `OnlyErasureForgetsTabs` | a check made before the own session row is deleted; sessions recorded for accounts only |
| `SavesAreSafe` | guard 9 of a claim dropped |
| `RequestsEnd` | a deletion row that fired early and is not armed again |
| `VetoHolds`, `WorkingCodesAreKept` | a join gate that looks at the account's row instead of the code; a refusal for a moment's reason that deletes the code |
| `ChallengesWellFormed`, `FightersAvailable`, `RankedNeedsAccounts` | a player with a pending challenge may challenge; only the caller's battles are looked at; no second look at acceptance |
| `TurnsWellFormed`, `BattleEnds`, `ImplementsTurnContract` | the next unit found in the live order; a chain that does not move past a fallen unit; an end that keeps plans |
| `RowsWellFormed`, `SettledAsPlayed` | every store armed as a new window; the machine's outcome recorded instead of the anchor's |
| `LockedIsFielded`, `StrikesAreDue`, `BattlesEnd` | an expired deployment refilled for both; a premature firing taken as due; or dropped |
| `PredictionWellFormed`, `IntentsSettle`, `HeldInBattle` | numbers restarted with the predictor; a rejection ignored; no lock in the tick |
| `CreditIsEarned`, `RevealsTellTheStory` | a trade that keeps the anchor; a reveal composed after the change |
| `OfferedIsUntouched`, `NoneIsMissed` | a walk that does not leave out promised monsters; the check before the credit |
| `BundlesWellFormed`, `SharesHold`, `ErasedIsForgotten` | a stamp that another live copy carries; the ceiling asked for the smallest copy only; an arming that deletes the row it finds |
| `QuestsWellFormed`, `CompletionsAreSeen` | a sync that leaves the conversations with a removed NPC; an erasure that leaves the conversation |
| `PaidOnce` | a trigger that completes quests in a copy of the dialogue's state |
| `NpcsWaitForTalkers`, `NpcsComeHome` | a conversation judged by the NPC's home; by its row alone |

## 5. Proofs

For every value of the constants, sets finite or not, that satisfies the named assumptions only:

* `TradingProofs`: `Inv == TypeOK /\ OffersInv /\ OffersBetweenJoined /\ Promised /\ BattlesInv` is inductive (`Invariance`), under `IdentityAssumption` and `BoundAssumption`. The listed safety
  properties follow from it. None is inductive alone. `EscrowBacked` sums over offers: it needs that a player has
  one offer (`OffersInv`), which makes the sum that offer's quantity, and the argument is carried out on `Promised`, which states it
  offer by offer. A confirm hands monsters over, so `BattlesInv` (fighters owned by their side, disjoint) needs
  that no promised monster fights, and that in turn needs ownership of both, since the two locks only search the rows
  *of the owner*. The claim of a guest needs `OffersBetweenJoined`: a guest without a player row is in no offer, so nothing it owns is promised. Action by action, each step shows the part it can disturb.
  `ExactSettlement` follows from `Inv` and the headroom guards; `Refinement` maps
  initial states to initial states and each step to a step of the contract or to a stutter. `GraceOffersNeverAccepted` is strengthened with the order of
  the stamps (an offer marked as opened in grace is not older than a pending request, which holds as time is monotone).

* `ClaimingProofs`, its first half: all safety properties of Accounts, for any identities, sockets, codes and times and any `Early`, under
  `AccountIdentities`, `AccountBounds` and `NobodyIsNoClaim`. `PresenceIsConnected` is not inductive: a disconnect that finds another row must
  know that this row's socket is open (`SessionsInv`), and the converse, that an open socket of a guest has its row, carries
  what `OnlyErasureForgetsTabs` says of guests; for accounts the exception it names is met (see section 6).

* `BattleProofs`, its second half: all safety properties of Challenges, for any players and any times, under `ChallengePlayers` and `ChallengeBounds`.
  `ChallengesDoNotCross` needs that ids grow (`IdsInv`), `BattlersConnected` that a challenger is in the game (`ChallengersPresent`) and
  whoever is in the game is connected (`JoinedAreConnected`), since the acceptance itself looks at neither.

* `BattleProofs`, its first half: for any units, speeds, plans and tuning under `TurnUnits`, `TurnPlans`, `TurnTuning` and the contract's assumptions, `Inv` is inductive:
  that one unit has one turn a round needs that the snapshot a chain runs and the live initiative order the same units the same way, and that those whose turn has begun
  are the front of both (`Chained`, `Latest`); that a turn's windows suffice needs that each was paid for with points (`Paid`, `Waiting`, `Acting`), for which a turn's points may not exceed
  `MaxWindows * MinCost`. A whole call is one step of `TurnContract` because the battle as the last call left it, less the window that was answered or struck, still looks like the one the chain works on (`Saved`).
  That an initiative exists at all (`OrderExists`) is proved by a least counterexample.
* `TacticsProofs`: nearly everything happens within the rows of one battle, so `Inv` says of each battle that its rows agree (`RowOK`) and that one schedule row drives it (`Driven`), and each handler is shown to
  make such rows of such rows. What the engine returns is known only through `TurnContract`: the lemmas about `AfterSubmit` and the others are used of any machine that keeps it. `StrikesAreDue` needs `Driven`:
  a deadline that passes the test of the window it was armed for is the row of that window. It also says that a call which comes late or early leaves the battle alone, and so excludes what strikes do not show: a wild battle that ends
  early, a PvP battle forfeited by its last strike, which resets the engine's battle in the same step, a deployment filled early. Two endings are not timed in the code, and excepted (`Timed`): a wild deployment is closed by any call of its row, and so
  is a battle that no longer loads. `LockedIsFielded` follows a lock from the call that makes it to the end of the deployment; that it goes with the deployment is a part of `RowOK`, by which only a deploying battle has staged picks. Under `TacticsConstants` and the contract's assumptions.
* `ExportsProofs`: `Inv == TypeOK /\ TableInv /\ CopiesInv /\ SharesHold`, under `ExportIdentities` and `ExportBounds`. That copies are whole needs that a stamp and an owner name the same copy (`CopiesInv`), which holds as a request
  purges the owner's chunks before it looks for a free stamp, and that the sweep takes all chunks with a stamp at once. That a copy's sweep is armed (`SweepIsArmed`) is inductive alone: a copy is made in a call that arms it. `SharesHold` compares cardinalities of the table before and after the purge.
* `ClaimingProofs`, its second half: a claiming tab only ever takes steps of Accounts (`ClaimingIsAccounts`), so that what is proved there holds here. On top of Accounts' invariant, `TabInv` says where the stored code may be under way:
  a code is registered at most once (`OnceInv`), what is `Dead` never works again, on an account's build every queued call but the redemption of the stored code means that the code is dead, and on a guest's build
  the join comes before the registrations. Then no answer that makes the tab forget a code can be one about a code that works (`Harmless`). Under `TabIdentities` and the assumptions of Accounts.
* `RaisingProofs`: `Inv == TypeOK /\ HistoryTypes /\ CreditInv /\ LocksInv /\ StoryInv`, under `RaisingPlayers`, `RaisingGraph`, `RaisingTiers` and `RaisingTimes`. The cap alone is not inductive: the credit of a day has to be split into what its
  earlier lives gave and what the window of the life under way holds (`CreditOf`), and time on record lies between the trade and the anchor (`TimeOf`), where an anchor of 0, the reset, is further back than
  `IdleGap`. `OfferedIsUntouched` needs that whoever fights is on no offer and its fighter's own (`LocksInv`), since the locks are checked at the start of a battle and not at its end. `NoneIsMissed` is about a chain of
  evolutions, a recursive function: `Iterates` and `StageByStage` do the induction by least counterexample, and a chain that were still open at its cut would have climbed more tiers than there are.
  `RevealsTellTheStory` says two things of one log, by monster and by owner, and both need what the property leaves out (`StoryInv`): a monster's reveals are a path that ends at the species it has *now*, so that the next one continues it,
  and an owner's queue is exactly what its part of the log holds beyond what it has dismissed, which a claim moves to the account as a whole only because the account had been told nothing yet. What one call tells several owners of several
  monsters is taken apart monster by monster; that selecting, mapping and joining sequences commute (`SelectedJoined`, `SelectedMapped` and their like) is proved once, by induction along sequences (`SeqInduction`).

* `MovementProofs`: `PredictionWellFormed` and `HeldInBattle`, for any zones, warps, inputs, capacities and any number of connections, pages and intents, under `MovementMaps`, `MovementBounds` and `MovementNone`.
  `HeldInBattle` is seen action by action. None of the parts of `PredictionWellFormed` is inductive, and `MovementInv` takes ten conjuncts, each for a reason:
  that the browser and the server agree when nothing is under way (`QuietMeansAgreed`) needs that what the server told last is what it has (`Known`) and that with nothing pending the browser shows just that (`Quiet`);
  that no intent waits for ever (`PendingIsUnderWay`) is kept by a refusal only because its answer comes to the connection the call was sent on (`OwnCalls`, `Links`);
  that a call is not refused for a number its page has used up (`NoStaleCalls`, which says nothing of the time in which the server has acknowledged an earlier page's call last: one that arrives after a reload may have the new page's refused) needs the order of a page's numbers on a line and *across* lines, since the calls of a dead connection may still be served after the next is up (`InOrder`), and that a predictor which
  is replaced goes on from the last number sent (`Numbers`), which is what the mutant `Rebuilt_FromZero` breaks. That the gate of a held key counts every step the server owes (`OwnStepsAreOutstanding`) compares three counts, of the queue, the calls under
  way and the browser's two numbers. The steps are told apart by their numbers: the predictor's entries and calls ascend and none is on both sides (`OwnEntries`), one the store does not acknowledge is pending, and one it acknowledges is in the store's queue
  (`OwnSeen`, through every row under way). Then numbers are counted instead of places (`Numbered`, `Numbering`), and a finite set of them is no larger than what carries them.
  Each conjunct is a lemma with one step per action (`TypesStep` to `QuietStep`) over facts about the actions stated once (`SendFacts`, `CalledFacts` and others).

* `QuestsProofs`: `Inv == QuestsWellFormed /\ SavedTypes /\ ContentIsValid /\ PaymentsAreRecorded`, under `QuestIdentities`, `QuestPlaces`, `QuestContent` and `QuestPrizes`, for any contents published in any order.
  `PaidOnce` counts payments, which no step can bound by itself. `PaymentsAreRecorded` says that what was paid is on record in the save, wherever a claim has taken it: the quest is done, or a flag is set that shuts every script that
  grants the gift, and no content clears it. That only content runs that passed the gate (`ContentIsValid`) makes the record follow each payment, and that a done quest has no row (`SavesAreWhole`) makes a reward come once. What effects and
  triggers do to a dialogue's state and to the rows are folds, written as recursive functions: `Iterates` and `StageByStage` do the induction by least counterexample, and `EffectsApply`, `QuestsStart` and `TriggerApplies` say what comes out
  (a quest a trigger takes keeps its row or is won, and a flag that is set stays). `Ran` is what a talk and an answer have in common. `CompletionsAreSeen` follows from them, and needs that who is not in the game has no conversation: a claim moves the
  guest's rows and leaves conversations alone. For `NpcsWaitForTalkers`, whoever is near counts in the tick's own look for conversations.

The properties that runs check as one conjunction (`PresenceWellFormed`, `SavesAreSafe`, `HoldingsBacked`, `OffersWellFormed`, `MonstersCommittedOnce`, `ChallengesWellFormed`, `FightersAvailable`, `TurnsWellFormed`,
`RowsWellFormed`, `BundlesWellFormed`, `CreditIsEarned`, `QuestsWellFormed`, `PredictionWellFormed`) are theorems too, each from its parts or from its module's `Inv`.

Only model-checked is liveness under fairness, which is beyond the prover: `OfferResolved`, `RequestsEnd`, `ChallengeEnds`, `BattleEnds`, `BattlesEnd`, `IntentsSettle`, `ErasedIsForgotten`, `NpcsComeHome`. Every other property
of a passing run is proved for all values of the constants.

Nothing is taken on trust. `BattleProofs` holds the proofs of two modules that do not meet, and `RaisingProofs` takes the lemmas about sequences from `MovementProofs`.

## 6. What was found

`LateSuccessIsRecognised` states `claimModel.test.ts` (332-336): a redemption that had succeeded before the connection dropped is answered with the
"invalid code" error when it is repeated, which the client turns into success. The run `late` shows the server executing the call whose answer is then lost, and answering the repetition "account already claimed":
`complete_guest_claim` looks at the account (guard 4) before it looks the code up (guard 6). The overlay reports a refusal, and the spent code stays in
storage, where it keeps the tab from joining on every later connection until the player declines it. Nothing is lost on the server.

Smaller observations, which no run of their own states:

* A comment of `accounts.rs` (306-309) calls the gate's clause for erased accounts unreachable. An identity erased while still connected keeps its `player` row, which is all `propose_trade` asks of a counterparty, so
  an offer can be addressed to it; the clause is what refuses the acceptance. The comment is wrong, the code is safe.
* Sign in is not disabled while a registration is under way, and a page may be reloaded over one. If the second registration is overtaken by the redemption of the account connection that follows, its code is refused as invalid just before
  it becomes valid, and the client deletes it; `WorkingCodesAreKept` names this one exception (`Overtaken`).
* Opening the claim overlay after a refusal for a moment's reason offers Sign in again, which overwrites a code that still works.
* A clock set back lets a day be credited again: `CreditIsCapped` has the factor `1 + rewinds` where the documentation speaks of a hard cap per UTC day.
* `docs/DECISIONS.md` (393-395) says of everybody that a disconnect keys on the last connection, so that no tab's closing forfeits a battle while another tab is open. An account that is erased while connected loses the session row of its open
  socket (`erase_player_sessions`, which the comment in `lib.rs`, 293-297, calls right for a tombstoned account); if it registers anew over a second socket and joins, it is thrown out of the game when that socket closes, although the first is open.
  It takes a tab that stays open over the end of the grace period. `OnlyErasureForgetsTabs` excepts this case and no other: without the exception the run `sessions` finds it violated.
* A reveal is acknowledged by count: `ack_prefix` (`evolution.rs` 316-329) refuses a count above the length of the queue as a second tab's stale head, but accepts one that fits. Of two tabs that show the same reveal, the OK in the second dismisses the
  next one if there is one, which its player has not seen. `RevealsTellTheStory` says what is in the queues, not what was on a screen.
* The once-only gate that `validate_npc_content` asks of a gift looks at one node: a `ClearFlag` of the same flag in any other node opens the gift again. `PaidOnce` excepts such content (`Reopened`); no shipped tree does it.
* Between a publication and its sync, a talk reads new trees with old NPC rows, and a tree that is gone refuses the talk. After it, a quest row whose step lies beyond a shortened quest, or whose quest is gone, stays active for ever.
* An NPC outside its radius steps straight home and does not look for walls, so one in the way holds it. The runs' tiles have none: `NpcsComeHome` is about who may hold an NPC, not about the map.
* The `start_conditions` of a quest are asked by a rule (`can_start_quest`) that no reducer calls; a player with a pending deletion cannot dismiss its conversation.

## 7. Not modelled

The components marked `not_modelled` in `PROJECT.json`: pure damage arithmetic, heuristics, content and conversions,
presentation, tools, and the retired one-on-one engine. They are values and conversions, for which the repository has property tests and golden
vectors, and make up most of its lines. Two hazards are listed without a property: a disconnect hook that aborts (`schema.rs`:1611, the model assumes hooks do not), and an acknowledgement from a tab whose list is stale (`evolution.rs`:320, the model keeps no tab's list). The rest of what is missing is named with its module in section 3.
