------------------------------ MODULE Claiming ------------------------------
(***************************************************************************)
(* The browser's side of a guest claim, on top of the server's in          *)
(* Accounts: one tab mints a code while its player is a guest, registers   *)
(* it, leaves for the sign-in provider, comes back on another page as an   *)
(* account, and redeems the code on every first snapshot until it is told  *)
(* not to.  All it has across pages is its session storage.                *)
(*                                                                         *)
(* Connections drop at any moment with calls and answers under way, the    *)
(* page is reloaded, sign-in fails, both identities are used in other      *)
(* tabs, and the player presses what the claim overlay offers.             *)
(***************************************************************************)
EXTENDS Accounts

CONSTANTS
  Guest,      \* whom the tab's anonymous token signs in
  Holder,     \* the account its player signs in to
  MaxMints    \* bound: sign-ins the player tries

ASSUME TabIdentities ==
  /\ Guest \in Guests /\ Holder \in Holders /\ None \notin Sockets
  /\ MaxMints \in Nat /\ Codes = 1..MaxMints

VARIABLES
  stored,     \* sessionStorage: the claim code, 0 for none (claimCode.ts)
  marked,     \* sessionStorage: this tab was an account before (authToken.ts)
  minted,     \* codes minted so far; 32 random bytes never repeat
  page,       \* what the page's scripts remember, lost with it
  conn,       \* the socket of the current build, None without one
  link,       \* its credential kind, and whether its first snapshot came
  ours,       \* the sockets of this tab that the server has not closed
  up,         \* calls under way to the server, per socket
  down,       \* answers under way to the current build
  redeemed,   \* history: codes this tab's account redeemed
  late        \* history: codes registered after the tab left the connection

storage == <<stored, marked, minted>>
wires == <<conn, link, ours, up, down>>
history == <<redeemed, late>>
tabvars == <<storage, page, wires, history>>
allvars == <<vars, tabvars>>

Phases == {"hidden", "prompt", "pending", "awaiting", "rejected", "failed", "claimed"}

(* A page as it is loaded.  leg: it was loaded by the provider's redirect,  *)
(* with an answer to this tab's own request.                                *)
Fresh(leg) == [at |-> "game", leg |-> leg, forced |-> FALSE, parked |-> FALSE,
               redirecting |-> FALSE, phase |-> "hidden", mayJoin |-> FALSE,
               confirming |-> FALSE]

Down == [kind |-> "anon", applied |-> FALSE]

ClaimInit ==
  /\ Init
  /\ stored = 0 /\ marked = FALSE /\ minted = 0
  /\ page = Fresh(FALSE)
  /\ conn = None /\ link = Down /\ ours = {}
  /\ up = [c \in Sockets |-> <<>>] /\ down = <<>>
  /\ redeemed = {} /\ late = {}

Usable == conn # None /\ link.applied
Live == page.at = "game"

(* A call goes out on the current build, into the void if its socket is     *)
(* already closed at the other end.                                         *)
Sent(call) == IF conn \in ours THEN [up EXCEPT ![conn] = Append(@, call)] ELSE up
Join == [kind |-> "join", code |-> 0]

-----------------------------------------------------------------------------
(* Connecting: connection.ts.                                               *)

(* resolveCredential and decideConnectCredential; "retry" builds nothing    *)
(* and is tried again.                                                      *)
Credentials ==
  IF page.forced \/ ~(marked \/ page.leg) THEN {"anon"}
  ELSE {"account"} \cup (IF page.leg THEN {"failed"} ELSE {})
                   \cup (IF marked THEN {"parked"} ELSE {"anon", "failed"})

Park ==
  /\ Live /\ conn = None /\ ~page.parked
  /\ "parked" \in Credentials
  /\ page' = [page EXCEPT !.parked = TRUE, !.leg = FALSE]
  /\ UNCHANGED <<vars, storage, wires, history>>

Build(c, credential) ==
  /\ Live /\ conn = None /\ ~page.parked
  /\ credential \in Credentials \ {"parked"}
  /\ c \notin ours
  /\ LET kind == IF credential = "account" THEN "account" ELSE "anon"
     IN /\ OnConnect(c, IF kind = "account" THEN Holder ELSE Guest)
        /\ link' = [kind |-> kind, applied |-> FALSE]
        /\ marked' = (marked \/ kind = "account")
  /\ page' = [page EXCEPT !.leg = FALSE,
                          !.phase = IF credential = "failed" THEN "failed" ELSE @,
                          !.mayJoin = IF credential = "failed" THEN FALSE ELSE @]
  /\ conn' = c /\ ours' = ours \cup {c}
  /\ UNCHANGED <<stored, minted, up, down, history>>

(* The first snapshot: the code vetoes the account's join, and is redeemed  *)
(* if the account's row is already there.                                   *)
Joins_RowOnly(row) == link.kind # "account" \/ row
Joins(row) == link.kind # "account" \/ stored = 0

Applied(row) ==
  /\ conn # None /\ ~link.applied
  /\ link' = [link EXCEPT !.applied = TRUE]
  /\ \/ /\ Joins(row)
        /\ up' = Sent(Join) /\ UNCHANGED page
     \/ /\ ~Joins(row) /\ row
        /\ up' = Sent([kind |-> "complete", code |-> stored])
        /\ page' = [page EXCEPT !.phase = "pending", !.mayJoin = FALSE, !.confirming = FALSE]
     \/ /\ ~Joins(row) /\ ~row
        /\ page' = [page EXCEPT !.phase = "awaiting", !.mayJoin = FALSE]
        /\ UNCHANGED up
  /\ UNCHANGED <<vars, storage, conn, ours, down, history>>

(* The browser finds its socket dead; promises of the old build never       *)
(* settle.                                                                  *)
Drop ==
  /\ conn # None
  /\ conn' = None /\ link' = Down /\ down' = <<>>
  /\ UNCHANGED <<vars, storage, page, ours, up, history>>

(* A new page: reloaded, or loaded by the provider.                         *)
Load(leg) ==
  /\ leg => page.at = "provider"
  /\ page' = Fresh(leg)
  /\ conn' = None /\ link' = Down /\ down' = <<>>
  /\ UNCHANGED <<vars, storage, ours, up, history>>

(* The session overlay's two ways on.                                       *)
Resume(forced) ==
  /\ page.parked
  /\ page' = [page EXCEPT !.parked = FALSE, !.forced = @ \/ forced]
  /\ UNCHANGED <<vars, storage, wires, history>>

-----------------------------------------------------------------------------
(* The claim overlay: claimModel.ts, and startSignIn of connection.ts.      *)

Visible == Live /\ page.phase # "hidden"

OpenClaim ==
  /\ Live
  /\ page' = [page EXCEPT !.phase = "prompt"]
  /\ UNCHANGED <<vars, storage, wires, history>>

(* The code is stored before it is registered, whatever was stored before.  *)
SignIn ==
  /\ Visible /\ ~page.confirming /\ ~page.mayJoin /\ page.phase \in {"prompt", "failed"}
  /\ \/ /\ ~Usable
        /\ page' = [page EXCEPT !.phase = "failed"]
        /\ UNCHANGED <<stored, minted, up>>
     \/ /\ Usable /\ minted < MaxMints
        /\ minted' = minted + 1 /\ stored' = minted + 1
        /\ up' = Sent([kind |-> "start", code |-> minted + 1])
        /\ UNCHANGED page
  /\ UNCHANGED <<vars, marked, conn, link, ours, down, history>>

(* beginOidcRedirect: the page leaves, or stays and says why.               *)
Redirect ==
  /\ page.redirecting
  /\ \/ /\ page' = [page EXCEPT !.at = "provider"]
        /\ conn' = None /\ link' = Down /\ down' = <<>>
     \/ /\ page' = [page EXCEPT !.redirecting = FALSE, !.phase = "failed", !.mayJoin = FALSE]
        /\ UNCHANGED <<conn, link, down>>
  /\ UNCHANGED <<vars, storage, ours, up, history>>

Decline ==
  /\ Visible /\ ~page.confirming /\ ~page.mayJoin /\ page.phase # "claimed"
  /\ page' = [page EXCEPT !.confirming = TRUE]
  /\ UNCHANGED <<vars, storage, wires, history>>

CancelDecline ==
  /\ Visible /\ page.confirming
  /\ page' = [page EXCEPT !.confirming = FALSE]
  /\ UNCHANGED <<vars, storage, wires, history>>

(* A confirmation without a connection does nothing, and stays armed.       *)
ConfirmDecline ==
  /\ Visible /\ page.confirming /\ Usable
  /\ page' = [page EXCEPT !.confirming = FALSE, !.mayJoin = TRUE]
  /\ stored' = 0
  /\ UNCHANGED <<vars, marked, minted, wires, history>>

JoinRequested ==
  /\ Visible /\ ~page.confirming /\ page.mayJoin /\ Usable
  /\ up[conn] = <<>>
  /\ up' = Sent(Join)
  /\ UNCHANGED <<vars, storage, page, conn, link, ours, down, history>>

-----------------------------------------------------------------------------
(* The answers.                                                             *)

(* classifyClaimReject: the answers after which the code is of no use.      *)
Deletes_Transient(answer) == answer \in {"invalid", "expired", "other tab"}
Deletes(answer) == answer \in {"invalid", "expired"}

Registered ==
  /\ down # <<>> /\ Head(down).kind = "start"
  /\ down' = Tail(down)
  /\ IF Head(down).answer = "ok"
     THEN page' = [page EXCEPT !.redirecting = TRUE] /\ UNCHANGED stored
     ELSE /\ stored' = 0
          /\ page' = [page EXCEPT !.phase = "failed", !.mayJoin = FALSE]
  /\ UNCHANGED <<vars, marked, minted, conn, link, ours, up, history>>

(* An "invalid" code counts as claimed if the account's row says that it    *)
(* has claimed.                                                             *)
Completed ==
  /\ down # <<>> /\ Head(down).kind = "complete"
  /\ down' = Tail(down)
  /\ LET answer == Head(down).answer
         done == answer = "ok" \/ (answer = "invalid" /\ Head(down).claimed)
         useless == done \/ Deletes(answer)
     IN /\ stored' = IF useless THEN 0 ELSE stored
        /\ page' = [page EXCEPT !.phase = IF done THEN "claimed" ELSE "rejected",
                                !.mayJoin = useless, !.confirming = FALSE]
  /\ UNCHANGED <<vars, marked, minted, conn, link, ours, up, history>>

-----------------------------------------------------------------------------
(* The server takes the calls of a socket in order.                         *)

Answered(c, kind, answer) ==
  down' = IF c # conn THEN down
          ELSE Append(down, [kind |-> kind, answer |-> answer,
                             claimed |-> open[c] \in Holders /\ account[open[c]].claimed])

(* complete_guest_claim's guards, in their order.                           *)
Refusal(me, code) ==
  LET of == GuestsWithCode(code) IN
  IF IsPendingDeletion(me) THEN "not now"
  ELSE IF account[me].claimed THEN "already claimed"
  ELSE IF of = {} THEN "invalid"
  ELSE IF \E g \in of : ClaimIsExpired(claim[g].expiresAt) THEN "expired"
  ELSE IF \E g \in of : ~GuestHasLeft(g) THEN "other tab"
  ELSE IF ~OwnsNothing(me) THEN "has data"
  ELSE "ok"

(* "already joined" is as good as joined; other refusals are only shown.    *)
ServeJoin(c, me) ==
  /\ IF IsPendingDeletion(me) \/ me \in player THEN UNCHANGED vars ELSE JoinGame(me)
  /\ UNCHANGED <<down, history>>

ServeStart(c, me, code) ==
  /\ \/ /\ me \in Guests /\ me \in player
        /\ StartGuestClaim(me, code)
        /\ Answered(c, "start", "ok")
        /\ late' = IF c = conn THEN late ELSE late \cup {code}
     \/ /\ me \in Holders \/ me \notin player
        /\ UNCHANGED vars
        /\ Answered(c, "start", "refused")
        /\ UNCHANGED late
  /\ UNCHANGED redeemed

ServeComplete(c, me, code) ==
  /\ Answered(c, "complete", Refusal(me, code))
  /\ IF Refusal(me, code) = "ok"
     THEN CompleteGuestClaim(me, code) /\ redeemed' = redeemed \cup {code}
     ELSE UNCHANGED <<vars, redeemed>>
  /\ UNCHANGED late

Serve(c) ==
  /\ c \in ours /\ up[c] # <<>>
  /\ up' = [up EXCEPT ![c] = Tail(@)]
  /\ LET call == Head(up[c]) me == open[c] IN
       \/ call.kind = "join" /\ ServeJoin(c, me)
       \/ call.kind = "start" /\ ServeStart(c, me, call.code)
       \/ call.kind = "complete" /\ ServeComplete(c, me, call.code)
  /\ UNCHANGED <<storage, page, conn, link, ours>>

(* It notices that a socket is gone; the calls it did not take are lost.    *)
Close(c) ==
  /\ c \in ours
  /\ OnDisconnect(c)
  /\ ours' = ours \ {c} /\ up' = [up EXCEPT ![c] = <<>>]
  /\ UNCHANGED <<storage, page, conn, link, down, history>>

(* Other tabs, which cannot know the code, and the scheduler.               *)
Elsewhere ==
  /\ \/ \E c \in Sockets \ (ours \cup {conn}) :
          (\E p \in {Guest, Holder} : OnConnect(c, p)) \/ OnDisconnect(c)
     \/ \E c \in Sockets \ ours : open[c] # None /\ JoinGame(open[c])
     \/ \E g \in Guests : \E i \in DOMAIN claimReapers[g] : GuestClaimReaper(g, i)
     \/ Tick
  /\ UNCHANGED tabvars

-----------------------------------------------------------------------------
Browser ==
  \/ Park \/ Drop \/ Redirect \/ Registered \/ Completed
  \/ \E c \in Sockets, credential \in {"anon", "account", "failed"} : Build(c, credential)
  \/ \E b \in BOOLEAN : Applied(b) \/ Load(b) \/ Resume(b)

Player ==
  OpenClaim \/ SignIn \/ Decline \/ CancelDecline \/ ConfirmDecline \/ JoinRequested

Server == \E c \in Sockets : Serve(c) \/ Close(c)

ClaimNext == Browser \/ Player \/ Server \/ Elsewhere

ClaimSpec == ClaimInit /\ [][ClaimNext]_allvars

-----------------------------------------------------------------------------
(* Properties, besides those of Accounts.                                   *)

Redeemable(code) == \E g \in GuestsWithCode(code) : ~ClaimIsExpired(claim[g].expiresAt)

(* The tab never starts a game of its own for the account while the code it *)
(* has would still bring the guest's (the join gate of onApplied), and the  *)
(* overlay never offers a join that the gate would veto.                    *)
VetoHolds ==
  /\ link.kind = "account" /\ conn \in ours /\ (\E i \in DOMAIN up[conn] : up[conn][i] = Join)
       => ~Redeemable(stored)
  /\ page.mayJoin => stored = 0

(* A registration that the attempt to redeem it overtook, on the connection *)
(* that replaced its own: "invalid" when it was answered, valid since.      *)
Overtaken == stored \in late /\ down # <<>> /\ Head(down).answer = "invalid"

(* A code that still works is given up only by its player, in a confirmed   *)
(* decline or by signing in once more: no answer, however late, and no      *)
(* reload takes it away (claimModel's table of rejections), but for the     *)
(* answer to an attempt that overtook the registration.                     *)
WorkingCodesAreKept ==
  [][stored # 0 /\ Redeemable(stored) /\ stored' # stored
       => minted' # minted \/ page.confirming \/ Overtaken]_allvars

(* claimModel.test.ts:330-345: a call whose answer was lost with its        *)
(* connection, and which had succeeded, is recognised when it is repeated.  *)
LateSuccessIsRecognised == ~(page.phase = "rejected" /\ stored \in redeemed)
=============================================================================
