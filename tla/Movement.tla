------------------------------ MODULE Movement ------------------------------
(***************************************************************************)
(* A walking player: the server's character with its queue of intents and  *)
(* the tick that drains it, the browser's predictor that walks ahead of    *)
(* it, and the connection between the two.                                 *)
(*                                                                         *)
(* One player, one browser tab at a time (a reload starts a new page on    *)
(* the same identity).  Calls and row updates travel in order over one     *)
(* connection; when it drops, what was still on its way is lost from some  *)
(* point on, and the server may learn of it only after the next connection *)
(* is up.  Time is not modelled: queued moves are due whenever a frame     *)
(* looks, except where a reconcile has just rebased the clock.             *)
(***************************************************************************)
EXTENDS Integers, FiniteSets, Sequences, Functions, Queues

CONSTANTS
  None,         \* no row, no state: Option::None
  Zones,        \* zone ids; the maps are corridors
  Walkable,     \* by zone: its walkable tiles
  Grass,        \* by zone: its tall grass
  Warps,        \* by zone: a function from warp tiles to [zone, x]
  Spawn,        \* [zone, x, facing]
  Inputs,       \* MoveInput: steps East and West, and Jump
  Kinds,        \* the operations used: Enqueue (all that main.ts sends), SetMove, Clear
  QueueCap,     \* MOVE_QUEUE_CAP
  PendingCap,   \* the predictor's bound on unacknowledged ops
  MaxSeq,       \* bound: intents sent by one page
  MaxConns,     \* bound: connections made
  MaxPages,     \* bound: page loads
  MaxBattles    \* bound: battles the player gets into

ASSUME MovementMaps ==
  /\ Walkable \in [Zones -> SUBSET Int] /\ DOMAIN Warps = Zones /\ DOMAIN Grass = Zones
  /\ Spawn \in [zone : Zones, x : Walkable[Spawn.zone], facing : {"East", "West"}]
  /\ \A z \in Zones :
       /\ DOMAIN Warps[z] \subseteq Walkable[z]
       /\ \A x \in DOMAIN Warps[z] : /\ Warps[z][x].zone \in Zones
                                     /\ Warps[z][x].x \in Walkable[Warps[z][x].zone]
ASSUME MovementBounds ==
  /\ Inputs \subseteq {"East", "West", "Jump"} /\ Kinds \subseteq {"Enqueue", "SetMove", "Clear"}
  /\ {QueueCap, PendingCap, MaxSeq, MaxConns, MaxPages} \subseteq Nat \ {0}
  /\ MaxBattles \in Nat

Places == [zone : Zones, x : UNION Range(Walkable), facing : {"East", "West"}]
Entries == [input : Inputs, epoch : Nat, seq : 1..MaxSeq]
Characters == [at : Places, queue : Seq(Entries), ack : 0..MaxSeq]
ASSUME MovementNone == None \notin Characters

Conns == 1..MaxConns

VARIABLES
  row,        \* the character and player rows, or None
  ackPage,    \* the page whose call set row.ack (history)
  inBattle, battles,
  sessions,   \* player_session: the connections the server believes alive
  up,         \* by connection: the calls under way to the server
  down,       \* what is under way to the browser on its connection
  client      \* the browser: store, predictor and connection shell

movementVars == <<row, ackPage, inBattle, battles, sessions, up, down, client>>

-----------------------------------------------------------------------------
(* The movement rule, shared by both sides (game-core, and its wasm build). *)

ApplyMove(at, input) ==
  LET dir == IF input = "Jump" THEN at.facing ELSE input
      target == IF dir = "East" THEN at.x + 1 ELSE at.x - 1
  IN [at EXCEPT !.facing = dir, !.x = IF target \in Walkable[at.zone] THEN target ELSE @]

Play(at, queue) ==
  LET after[n \in 0..Len(queue)] ==
        IF n = 0 THEN at ELSE ApplyMove(after[n - 1], queue[n])
  IN after[Len(queue)]

(* A queue operation; the server refuses an Enqueue beyond the cap instead. *)
Replay(queue, op) ==
  CASE op.kind = "Enqueue" -> Append(queue, op.input)
    [] op.kind = "SetMove" -> <<op.input>>
    [] op.kind = "Clear"   -> <<>>
Replayed(queue, ops) ==
  LET after[n \in 0..Len(ops)] ==
        IF n = 0 THEN queue ELSE Replay(after[n - 1], ops[n])
  IN after[Len(ops)]

-----------------------------------------------------------------------------
(* The predictor and main.ts around it, as functions on the browser's state. *)

NewPredictor(c, next) ==
  [c EXCEPT !.predicted = None, !.queue = <<>>, !.pending = <<>>, !.next = next,
            !.authLen = 0, !.epoch = @ + 1]

(* resetPredictionState: a new predictor, which never issues a seq again   *)
(* that the page has sent before.                                          *)
Rebuilt_FromZero(c) == NewPredictor(c, 0)
Rebuilt(c) == NewPredictor(c, c.lastSent)

(* seedSeq and reconcile.  The rebased baseline makes every queued move    *)
(* due at once, so the rebuilt queue is drained to its end.                *)
Inputs_(queue) == [i \in 1..Len(queue) |-> queue[i].input]
Clamped(queue) == SubSeq(queue, 1, IF Len(queue) < QueueCap THEN Len(queue) ELSE QueueCap)
Seeded(next, ack) == IF ack > next THEN ack ELSE next

Reconciled(c, own) ==
  LET unacked == Selected(c.pending, {p \in Range(c.pending) : p.seq > own.ack})
      queue == Replayed(Inputs_(own.queue), unacked)
  IN [c EXCEPT !.next = Seeded(@, own.ack), !.pending = unacked, !.queue = <<>>,
               !.authLen = Len(own.queue),
               !.predicted = Play(own.at, Clamped(queue))]

(* reconcileFromStore: a new zone first replaces map and predictor.        *)
ReconciledFromStore(c) ==
  IF c.store = None THEN c
  ELSE IF c.store.at.zone = c.zone THEN Reconciled(c, c.store)
  ELSE Reconciled([Rebuilt(c) EXCEPT !.zone = c.store.at.zone], c.store)

(* A rejected call: dropRejected, and a reconcile if it dropped something. *)
Dropped_Ignored(c, seq, epoch) == c
Dropped(c, seq, epoch) ==
  IF epoch # c.epoch \/ ~\E i \in 1..Len(c.pending) : c.pending[i].seq = seq THEN c
  ELSE ReconciledFromStore(
         [c EXCEPT !.pending = Selected(@, {p \in Range(@) : p.seq # seq})])

(* outstandingSteps: what the server owes, as far as the browser can tell. *)
Outstanding(c) == c.authLen + Len(c.pending)

Page(number, conn, epoch) ==
  [page |-> number, conn |-> conn, link |-> "down", store |-> None, zone |-> Spawn.zone,
   epoch |-> epoch, lastSent |-> 0, predicted |-> None, queue |-> <<>>, pending |-> <<>>,
   next |-> 0, authLen |-> 0]

MovementInit ==
  /\ row = None /\ ackPage = 1 /\ inBattle = FALSE /\ battles = 0
  /\ sessions = {} /\ up = [c \in Conns |-> <<>>] /\ down = <<>>
  /\ client = Page(1, 0, 1)

Listening == client.link # "down"
Telling(msg) == IF Listening THEN Append(down, msg) ELSE down
Rows(r) == [kind |-> "rows", row |-> r]

-----------------------------------------------------------------------------
(* The browser.                                                            *)

\* sendIntent, for each of the predictor's operations.
Send(op) ==
  LET seq == client.next + 1 IN
  /\ client.link = "up" /\ client.next < MaxSeq
  /\ op.kind = "Enqueue" =>
       Len(client.queue) < QueueCap /\ Len(client.pending) < PendingCap
  /\ client' = [client EXCEPT !.queue = Replay(@, op), !.next = seq, !.lastSent = seq,
                              !.pending = Append(@, [kind |-> op.kind, input |-> op.input,
                                                     seq |-> seq])]
  /\ up' = [up EXCEPT ![client.conn] =
              Append(@, [kind |-> op.kind, input |-> op.input, seq |-> seq,
                         epoch |-> client.epoch, page |-> client.page])]
  /\ UNCHANGED <<row, ackPage, inBattle, battles, sessions, down>>

\* drain: a frame applies what has become due.  (On a dead link it moves a
\* predictor that the next snapshot replaces; left out.)
Frame ==
  /\ client.link = "up" /\ client.predicted # None
  /\ \E n \in 1..Len(client.queue) :
       client' = [client EXCEPT !.predicted = Play(@, SubSeq(client.queue, 1, n)),
                                !.queue = SubSeq(@, n + 1, Len(@))]
  /\ UNCHANGED <<row, ackPage, inBattle, battles, sessions, up, down>>

\* onConnect: the session is open and the subscription's snapshot under way.
Connect ==
  /\ client.link = "down" /\ client.conn < MaxConns
  /\ client' = [client EXCEPT !.conn = @ + 1, !.link = "connecting"]
  /\ sessions' = sessions \cup {client.conn + 1}
  /\ down' = <<[kind |-> "snapshot", row |-> row]>>
  /\ UNCHANGED <<row, ackPage, inBattle, battles, up>>

\* onApplied: join, and start over with a new predictor.
ReceiveSnapshot ==
  /\ Listening /\ down # <<>> /\ Head(down).kind = "snapshot"
  /\ up' = [up EXCEPT ![client.conn] = Append(@, [kind |-> "Join"])]
  /\ down' = Tail(down)
  /\ UNCHANGED <<row, ackPage, inBattle, battles, sessions>>
  /\ client' = ReconciledFromStore(
                 [Rebuilt(client) EXCEPT !.link = "up", !.store = Head(down).row])

ReceiveRows ==
  /\ Listening /\ down # <<>> /\ Head(down).kind = "rows"
  /\ down' = Tail(down)
  /\ UNCHANGED <<row, ackPage, inBattle, battles, sessions, up>>
  /\ client' = ReconciledFromStore([client EXCEPT !.store = Head(down).row])

ReceiveRejection ==
  /\ Listening /\ down # <<>> /\ Head(down).kind = "rejected"
  /\ down' = Tail(down)
  /\ UNCHANGED <<row, ackPage, inBattle, battles, sessions, up>>
  /\ client' = Dropped(client, Head(down).seq, Head(down).epoch)

\* What the server has not received is lost, and all it has still to say.
Lose ==
  /\ \E n \in 0..Len(up[client.conn]) :
       up' = [up EXCEPT ![client.conn] = SubSeq(@, 1, n)]
  /\ down' = <<>>
  /\ UNCHANGED <<row, ackPage, inBattle, battles, sessions>>

\* handleDrop.
Drop ==
  /\ Listening /\ Lose
  /\ client' = [client EXCEPT !.link = "down", !.store = None]

Reload ==
  /\ client.page < MaxPages /\ Listening /\ Lose
  /\ client' = Page(client.page + 1, client.conn, client.epoch + 1)

-----------------------------------------------------------------------------
(* The server.                                                             *)

\* on_disconnect, once the connection's last call is through.
OnDisconnect(c) ==
  /\ c \in sessions /\ (c = client.conn => client.link = "down") /\ up[c] = <<>>
  /\ sessions' = sessions \ {c}
  /\ IF sessions' # {} THEN UNCHANGED <<row, inBattle>>
     ELSE row' = None /\ inBattle' = FALSE
  /\ UNCHANGED <<ackPage, battles, up, down, client>>

Called(c, call) ==
  c \in sessions /\ up[c] # <<>> /\ call = Head(up[c]) /\ up' = [up EXCEPT ![c] = Tail(@)]

\* join_game; "already joined" is nobody's concern.
JoinGame(c) ==
  /\ Called(c, [kind |-> "Join"])
  /\ IF row # None THEN UNCHANGED <<row, down>>
     ELSE LET new == [at |-> Spawn, queue |-> <<>>, ack |-> 0]
          IN row' = new /\ down' = Telling(Rows(new))
  /\ UNCHANGED <<ackPage, inBattle, battles, sessions, client>>

(* authorize_move and the guards of the three reducers.                    *)
Accepts(call) ==
  /\ row # None /\ call.seq > row.ack
  /\ call.kind # "Clear" => ~inBattle
  /\ call.kind = "Enqueue" => Len(row.queue) < QueueCap

\* enqueue_move, set_move, clear_queue.  A refusal undoes the ack.
Move(c, call) ==
  /\ Called(c, call) /\ call.kind # "Join"
  /\ IF Accepts(call)
     THEN LET entry == [kind |-> call.kind,
                        input |-> [input |-> call.input, epoch |-> call.epoch,
                                   seq |-> call.seq]]
              next == [row EXCEPT !.queue = Replay(@, entry), !.ack = call.seq]
          IN /\ row' = next /\ down' = Telling(Rows(next))
             /\ ackPage' = call.page
     ELSE /\ down' = IF c = client.conn
                     THEN Telling([kind |-> "rejected", seq |-> call.seq, epoch |-> call.epoch])
                     ELSE down
          /\ UNCHANGED <<row, ackPage>>
  /\ UNCHANGED <<inBattle, battles, sessions, client>>

(* movement_tick, for this character.                                      *)
Locked_Never == FALSE
Locked == inBattle
MovementTick ==
  /\ row # None /\ row.queue # <<>> /\ ~Locked
  /\ LET at == ApplyMove(row.at, Head(row.queue).input)
         moved == at.x # row.at.x
         warps == moved /\ at.x \in DOMAIN Warps[at.zone]
         next == IF warps
                 THEN [row EXCEPT !.at = [at EXCEPT !.zone = Warps[row.at.zone][at.x].zone,
                                                    !.x = Warps[row.at.zone][at.x].x],
                                  !.queue = <<>>]
                 ELSE [row EXCEPT !.at = at, !.queue = Tail(@)]
     IN /\ row' = next /\ down' = Telling(Rows(next))
        \* The grass may hold an encounter.
        /\ \/ UNCHANGED <<inBattle, battles>>
           \/ /\ moved /\ ~warps /\ at.x \in Grass[at.zone] /\ battles < MaxBattles
              /\ inBattle' = TRUE /\ battles' = battles + 1
  /\ UNCHANGED <<ackPage, sessions, up, client>>

-----------------------------------------------------------------------------
(* Battles, which other modules are about.                                 *)

Challenged ==
  /\ row # None /\ ~inBattle /\ battles < MaxBattles
  /\ inBattle' = TRUE /\ battles' = battles + 1
  /\ UNCHANGED <<row, ackPage, sessions, up, down, client>>

BattleOver ==
  /\ inBattle /\ inBattle' = FALSE
  /\ UNCHANGED <<row, ackPage, battles, sessions, up, down, client>>

Ops == [kind : Kinds \ {"Clear"}, input : Inputs]
         \cup [kind : Kinds \cap {"Clear"}, input : {None}]

Serve(c) == JoinGame(c) \/ \E call \in Range(up[c]) : Move(c, call)

MovementNext ==
  \/ \E op \in Ops : Send(op)
  \/ Frame \/ Connect \/ ReceiveSnapshot \/ ReceiveRows \/ ReceiveRejection
  \/ Drop \/ Reload
  \/ \E c \in Conns : OnDisconnect(c) \/ Serve(c)
  \/ MovementTick \/ Challenged \/ BattleOver

MovementSpec == MovementInit /\ [][MovementNext]_movementVars

(* The server serves its connections and the network delivers what it      *)
(* holds, the scheduler ticks, battles end (Tactics): as long as any of    *)
(* that is left to do, some of it is done.                                 *)
Progress ==
  \/ BattleOver \/ MovementTick
  \/ \E c \in Conns : Serve(c)
  \/ ReceiveRejection \/ ReceiveRows \/ ReceiveSnapshot
FairSpec == MovementSpec /\ WF_movementVars(Progress)

-----------------------------------------------------------------------------
(* Properties.                                                             *)

InPlace(at) == at \in Places /\ at.x \in Walkable[at.zone]

MovementTypes ==
  /\ row = None \/ (InPlace(row.at) /\ Len(row.queue) <= QueueCap /\ row.ack \in 0..MaxSeq)
  /\ client.store = None \/ InPlace(client.store.at)
  /\ client.predicted = None \/ InPlace(client.predicted)
  /\ Len(client.queue) <= QueueCap /\ client.next \in 0..MaxSeq
  /\ sessions \subseteq 1..client.conn
  /\ client.link \in {"down", "connecting", "up"}

(* No phantoms: an operation the predictor replays is still on its way to  *)
(* the server, or the answer that removes it is on its way back.           *)
PendingIsUnderWay ==
  client.link = "up" =>
    \A p \in Range(client.pending) :
      \/ \E call \in Range(up[client.conn]) : call.kind # "Join" /\ call.seq = p.seq
      \/ \E msg \in Range(down) :
           \/ msg.kind = "rejected" /\ msg.seq = p.seq /\ msg.epoch = client.epoch
           \/ msg.kind = "rows" /\ msg.row.ack >= p.seq

(* When nothing is under way the browser shows where the server's queue    *)
(* will have taken the character, and waits for nothing.                   *)
QuietMeansAgreed ==
  client.link = "up" /\ up[client.conn] = <<>> /\ down = <<>> =>
    /\ client.store = row /\ client.pending = <<>>
    /\ row # None => Play(client.predicted, client.queue)
                       = Play(row.at, Inputs_(row.queue))

(* No call of the page is refused for a seq the page itself has used up,   *)
(* on whichever connection and with whichever predictor.                   *)
NoStaleCalls ==
  row # None /\ ackPage = client.page =>
    \A call \in Range(up[client.conn]) :
      call.kind # "Join" /\ client.conn \in sessions => call.seq > row.ack

(* The gate of a held key: the steps of this predictor that the server     *)
(* has still to take are all outstanding.                                  *)
OwnStepsAreOutstanding ==
  client.link = "up" /\ row # None =>
    Cardinality({i \in 1..Len(row.queue) : row.queue[i].epoch = client.epoch})
      + Cardinality({i \in 1..Len(up[client.conn]) :
                       /\ up[client.conn][i].kind # "Join"
                       /\ up[client.conn][i].epoch = client.epoch
                       /\ up[client.conn][i].seq > row.ack})
      <= Outstanding(client)

(* The browser's list of steps under way is right: nothing on it is lost,  *)
(* nothing it sends is refused for a number its own page has used up, and  *)
(* it ends where the server does.  A call of an earlier page that is       *)
(* served after a reload may still have a step of the new page refused.    *)
PredictionWellFormed ==
  MovementTypes /\ PendingIsUnderWay /\ NoStaleCalls /\ OwnStepsAreOutstanding /\ QuietMeansAgreed

(* A battle holds its player where it found him, with the intents he had,  *)
(* unless he withdraws them.                                               *)
HeldInBattle ==
  [][inBattle /\ inBattle' /\ row # None =>
       /\ row'.at = row.at
       /\ row'.queue \in {row.queue, <<>>}]_movementVars

(* Every intent is settled: acknowledged, dropped, or given up with its    *)
(* predictor; and one the server accepted is carried out or withdrawn.     *)
IntentsSettle ==
  /\ \A seq \in 1..MaxSeq :
       (client.link = "up" /\ seq \in {p.seq : p \in Range(client.pending)})
         ~> ~(client.link = "up" /\ seq \in {p.seq : p \in Range(client.pending)})
  /\ (row # None /\ row.queue # <<>>) ~> (row = None \/ row.queue = <<>>)
=============================================================================
