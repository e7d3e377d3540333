------------------------------- MODULE Lobby -------------------------------
(***************************************************************************)
(* The lobby of a room: src/src/lobby/services/lobby.service.ts, with the  *)
(* calls it makes into MatchService.startMatch and MatchCardService.       *)
(*                                                                         *)
(* The service runs on one Node.js thread. Code between two awaits is      *)
(* atomic; at an await every other handler, timer and loop may run. Each   *)
(* process below therefore has one action per stretch of code between two  *)
(* awaits, and each database transaction takes effect in one action.       *)
(*                                                                         *)
(*   join requests   enterLobby, one process per socket message            *)
(*   timers          the two waiting windows, the bot-entry timer          *)
(*   fills           the loops of startBotFill                             *)
(*   starts          the runs of finalizeLobby; a committed one is a match *)
(*                                                                         *)
(* Time is left out: an armed timer may fire at any moment and the 80 s    *)
(* end of the bot window may have passed whenever a fill loop looks at it. *)
(***************************************************************************)
EXTENDS Integers, Sequences, FiniteSets, FiniteSetsExt

CONSTANTS
  Users, Rooms,
  Joins,            \* identities of the join-lobby messages clients may send
  BOT,              \* stands for "no join" in the seat of a bot (id: null)
  EntryFee,         \* [Rooms -> Nat]
  InitCredit,       \* [Users -> Nat]
  Inviter,          \* [Users -> Users \cup {BOT}], BOT when nobody invited
  CardCounts,       \* card counts a client may ask for
  MinRoomCards, MaxRoomCards,
  MaxCardsPerMatch, \* capacity of a lobby
  CardsPerMatch,    \* cards drawn from the pool for one match
  MinCardsToStart,
  BotMinCards, BotMaxCards,
  MaxBotsPerMatch,
  Prizes,           \* amounts a finished match may credit meanwhile
  MaxPending,       \* bound: join requests of one user in flight at once
  MaxCredit,        \* bound: prizes stop above this credit
  Failures          \* awaits at which the database may fail

ASSUME SetsAssumption ==
  /\ IsFiniteSet(Joins)
  /\ BOT \notin Joins \cup Users
ASSUME CountsAssumption ==
  /\ CardCounts \subseteq Nat /\ Prizes \subseteq Nat
  /\ {MinRoomCards, MaxRoomCards, MaxBotsPerMatch, MaxCredit} \subseteq Nat
  /\ {MaxCardsPerMatch, CardsPerMatch, BotMinCards, BotMaxCards} \subseteq Nat
  /\ {MinCardsToStart, MaxPending} \subseteq Nat \ {0}
  /\ BotMinCards <= BotMaxCards
  /\ MinCardsToStart <= MaxCardsPerMatch
ASSUME TablesAssumption ==
  /\ EntryFee \in [Rooms -> Nat]
  /\ InitCredit \in [Users -> Nat]
  /\ Inviter \in [Users -> Users \cup {BOT}]
ASSUME FailuresAssumption ==
  Failures \subseteq {"charge", "start", "calling", "announce", "bot"}

VARIABLES
  request,   \* Joins -> the message: user, room, cards; never changes
  pc,        \* Joins -> where enterLobby stands
  credit,    \* Users -> User.credit in the database
  lobby,     \* Rooms -> LobbyState: status, players (in order of arrival),
             \*   totalCards, first and second (periodTimeFired), filling
  timers,    \* Rooms -> scheduled: lobbyTimers has an entry; armed: its
             \*   handles that have not fired; bot: bot-entry timers running
  fills,     \* the fill loops begun so far: pc, room, botsAdded, cards of
             \*   the bot being created
  starts     \* the runs of finalizeLobby so far: pc, room, entry (cards the
             \*   pools are computed from), cards (Match.totalCards),
             \*   dealt (cursor), seats (PlayerMatch rows, in order)

vars == <<request, pc, credit, lobby, timers, fills, starts>>

-----------------------------------------------------------------------------
(* Types                                                                   *)

Request == [user : Users, room : Rooms, cards : CardCounts]

Seat == [join : Joins \cup {BOT}, cards : Nat]

JoinPC == {"idle", "room", "user", "referral", "charge", "seat",
           "seated", "late", "rejected"}

\* The part of enterLobby during which the client has no answer yet.
InFlightPC == {"room", "user", "referral", "charge", "seat"}

LobbyState == [status : {"WAITING", "STARTING"}, players : Seq(Seat),
               totalCards : Nat, first : BOOLEAN, second : BOOLEAN,
               filling : BOOLEAN]

Timers == [scheduled : BOOLEAN, armed : SUBSET {"first", "second"}, bot : Nat]

\* "failed" ended by an error, which leaves botFillInProgress as it was.
Fill == [pc : {"bot", "sleep", "ended", "failed"}, room : Rooms, added : Nat, cards : Nat]

\* "failed" rolled back; "aborted" failed after the match was committed.
StartPC == {"room", "create", "assign", "calling", "announce",
            "done", "failed", "aborted"}

Start == [pc : StartPC, room : Rooms, entry : Nat, cards : Nat,
          dealt : Nat, seats : Seq(Seat)]

TypeOK ==
  /\ request \in [Joins -> Request]
  /\ pc \in [Joins -> JoinPC]
  /\ credit \in [Users -> Int]
  /\ lobby \in [Rooms -> LobbyState]
  /\ timers \in [Rooms -> Timers]
  /\ fills \in Seq(Fill)
  /\ starts \in Seq(Start)

-----------------------------------------------------------------------------
(* Helpers                                                                 *)

UserOf(p) == request[p.join].user

IsReal(p) == p.join # BOT

CardsOf(ps) == [i \in DOMAIN ps |-> ps[i].cards]

SumCards(ps) == SumFunction(CardsOf(ps))

RealPlayerCards(ps) ==
  SumFunctionOnSet(CardsOf(ps), {i \in DOMAIN ps : IsReal(ps[i])})

HasUser(ps, u) == \E i \in DOMAIN ps : IsReal(ps[i]) /\ UserOf(ps[i]) = u

\* createRandomBot: one card more than the real players hold, clamped.
BotCardCount(realPlayerCards) ==
  Min({Max({realPlayerCards + 1, BotMinCards}), BotMaxCards})

Cost(j) == request[j].cards * EntryFee[request[j].room]

\* assertNoReferralConflict: a player of the lobby invited u or was invited by u.
ReferralConflict(u, ps) ==
  \E i \in DOMAIN ps : /\ IsReal(ps[i])
                       /\ \/ UserOf(ps[i]) = Inviter[u]
                          \/ Inviter[UserOf(ps[i])] = u

EmptyLobby == [status |-> "WAITING", players |-> <<>>, totalCards |-> 0,
               first |-> FALSE, second |-> FALSE, filling |-> FALSE]

NoTimers == [scheduled |-> FALSE, armed |-> {}, bot |-> 0]

\* scheduleWaiting (nothing when an entry exists) and scheduleBotEntry.
Scheduled(t) ==
  [scheduled |-> TRUE,
   armed |-> IF t.scheduled THEN t.armed ELSE {"first", "second"},
   bot |-> t.bot + 1]

\* Mutant: cancelWaiting forgets the handles without clearing them.
CancelledHandlesKept(t) == [t EXCEPT !.scheduled = FALSE]

\* Mutant: cancelWaiting clears the handles without deleting the entry.
CancelledEntryKept(t) == [t EXCEPT !.armed = {}]

\* cancelWaiting clears the two windows; the bot-entry timer has no handle.
Cancelled(t) == [t EXCEPT !.scheduled = FALSE, !.armed = {}]

NewStart(r) == [pc |-> "room", room |-> r, entry |-> 0, cards |-> 0,
                dealt |-> 0, seats |-> <<>>]

\* Mutant: the status guard of finalizeLobby is dropped.
FinalizeUnguarded(r, l) ==
  /\ lobby' = [lobby EXCEPT ![r] = [l EXCEPT !.status = "STARTING"]]
  /\ starts' = Append(starts, NewStart(r))

\* finalizeLobby up to its first await, on a lobby the caller left as l.
FinalizeLobby(r, l) ==
  /\ lobby' = [lobby EXCEPT ![r] =
                 IF l.status = "WAITING" THEN [l EXCEPT !.status = "STARTING"]
                                         ELSE l]
  /\ starts' = IF l.status = "WAITING" THEN Append(starts, NewStart(r))
                                       ELSE starts

CancelAndFinalize(r, l, t) ==
  /\ timers' = [timers EXCEPT ![r] = Cancelled(t)]
  /\ FinalizeLobby(r, l)

-----------------------------------------------------------------------------
Init ==
  /\ request \in [Joins -> Request]
  /\ pc = [j \in Joins |-> "idle"]
  /\ credit = InitCredit
  /\ lobby = [r \in Rooms |-> EmptyLobby]
  /\ timers = [r \in Rooms |-> NoTimers]
  /\ fills = <<>>
  /\ starts = <<>>

-----------------------------------------------------------------------------
(* enterLobby                                                              *)

RoomOf(j) == request[j].room
InFlight(u) == {j \in Joins : request[j].user = u /\ pc[j] \in InFlightPC}
Goto(j, label) == pc' = [pc EXCEPT ![j] = label]

\* A join-lobby message arrives; the room is being read.
Call(j) ==
  /\ pc[j] = "idle"
  /\ Cardinality(InFlight(request[j].user)) < MaxPending
  /\ Goto(j, "room")
  /\ UNCHANGED <<request, credit, lobby, timers, fills, starts>>

\* Mutant: the double-join check is dropped.
AdmissibleAgain(j, l) ==
  /\ l.status = "WAITING"
  /\ request[j].cards \in MinRoomCards..MaxRoomCards
  /\ l.totalCards + request[j].cards <= MaxCardsPerMatch

\* Room and lobby exist; the checks made before the user is read.
Admissible(j, l) ==
  /\ l.status = "WAITING"
  /\ ~ HasUser(l.players, request[j].user)
  /\ request[j].cards \in MinRoomCards..MaxRoomCards
  /\ l.totalCards + request[j].cards <= MaxCardsPerMatch

Admit(j) ==
  /\ pc[j] = "room"
  /\ Goto(j, IF Admissible(j, lobby[RoomOf(j)]) THEN "user" ELSE "rejected")
  /\ UNCHANGED <<request, credit, lobby, timers, fills, starts>>

\* Mutant: any balance will do.
ReadUserUnpriced(j) ==
  /\ pc[j] = "user"
  /\ Goto(j, IF credit[request[j].user] > 0 THEN "referral" ELSE "rejected")
  /\ UNCHANGED <<request, credit, lobby, timers, fills, starts>>

\* The balance that is compared is the one of this read.
ReadUser(j) ==
  /\ pc[j] = "user"
  /\ Goto(j, IF credit[request[j].user] >= Cost(j) THEN "referral" ELSE "rejected")
  /\ UNCHANGED <<request, credit, lobby, timers, fills, starts>>

CheckReferral(j) ==
  /\ pc[j] = "referral"
  /\ Goto(j, IF ReferralConflict(request[j].user, lobby[RoomOf(j)].players)
             THEN "rejected" ELSE "charge")
  /\ UNCHANGED <<request, credit, lobby, timers, fills, starts>>

\* The transaction decrements whatever the credit is by then.
Charge(j) ==
  /\ pc[j] = "charge"
  /\ credit' = [credit EXCEPT ![request[j].user] = @ - Cost(j)]
  /\ Goto(j, "seat")
  /\ UNCHANGED <<request, lobby, timers, fills, starts>>

ChargeFails(j) ==
  /\ pc[j] = "charge"
  /\ "charge" \in Failures
  /\ Goto(j, "rejected")
  /\ UNCHANGED <<request, credit, lobby, timers, fills, starts>>

\* Mutant: seats are put in front of the others.
SeatedInFront(l, p) == [l EXCEPT !.players = <<p>> \o @, !.totalCards = @ + p.cards]

Seated(l, p) == [l EXCEPT !.players = Append(@, p), !.totalCards = @ + p.cards]

\* No check is repeated here. "late" records that the lobby was already
\* STARTING, so that the seat may miss the match and be wiped by resetLobby.
TakeSeat(j) ==
  LET r == RoomOf(j)
      l == Seated(lobby[r], [join |-> j, cards |-> request[j].cards])
      t == IF lobby[r].players = <<>> THEN Scheduled(timers[r]) ELSE timers[r]
  IN /\ pc[j] = "seat"
     /\ Goto(j, IF lobby[r].status = "WAITING" THEN "seated" ELSE "late")
     /\ IF l.totalCards >= MaxCardsPerMatch
        THEN CancelAndFinalize(r, l, t)
        ELSE /\ lobby' = [lobby EXCEPT ![r] = l]
             /\ timers' = [timers EXCEPT ![r] = t]
             /\ UNCHANGED starts
     /\ UNCHANGED <<request, credit, fills>>

-----------------------------------------------------------------------------
(* The waiting windows                                                     *)

\* Mutant: a window starts the match without a quorum.
WindowFiredEarly(r, w, l) ==
  CancelAndFinalize(r, l, [timers[r] EXCEPT !.armed = @ \ {w}])

\* A window timer fired: w is not armed any more, the lobby became l.
WindowFired(r, w, l) ==
  LET t == [timers[r] EXCEPT !.armed = @ \ {w}]
  IN IF l.totalCards >= MinCardsToStart
     THEN CancelAndFinalize(r, l, t)
     ELSE /\ lobby' = [lobby EXCEPT ![r] = l]
          /\ timers' = [timers EXCEPT ![r] = t]
          /\ UNCHANGED starts

FirstPeriod(r) ==
  /\ "first" \in timers[r].armed
  /\ IF lobby[r].status = "WAITING"
     THEN WindowFired(r, "first", [lobby[r] EXCEPT !.first = TRUE])
     ELSE /\ timers' = [timers EXCEPT ![r].armed = @ \ {"first"}]
          /\ UNCHANGED <<lobby, starts>>
  /\ UNCHANGED <<request, pc, credit, fills>>

\* Below the quorum startBotFill is called, 360 s or more after createdAt:
\* its window closed at 80 s, so the call sets and clears botFillInProgress.
SecondPeriod(r) ==
  /\ "second" \in timers[r].armed /\ "first" \notin timers[r].armed
  /\ IF lobby[r].status = "WAITING"
     THEN WindowFired(r, "second", [lobby[r] EXCEPT !.second = TRUE])
     ELSE /\ timers' = [timers EXCEPT ![r].armed = @ \ {"second"}]
          /\ UNCHANGED <<lobby, starts>>
  /\ UNCHANGED <<request, pc, credit, fills>>

-----------------------------------------------------------------------------
(* The bot fill                                                            *)

BotsWanted(r) ==
  /\ lobby[r].status = "WAITING"
  /\ lobby[r].totalCards < MinCardsToStart
  /\ ~ lobby[r].filling

\* Mutant: the bot-entry timer repeats, as an interval would.
BotTimerRepeats(r) == timers' = [timers EXCEPT ![r].bot = @ - 1]

BotTimerFires(r) ==
  /\ timers[r].bot > 0
  /\ timers' = [timers EXCEPT ![r].bot = @ - 1]

\* onBotEntryWindowOpen finds nothing to do, or the window has closed.
BotEntryIdle(r) ==
  /\ BotTimerFires(r)
  /\ UNCHANGED <<request, pc, credit, lobby, fills, starts>>

BotEntryFills(r) ==
  /\ BotTimerFires(r)
  /\ BotsWanted(r)
  /\ MaxBotsPerMatch > 0
  /\ lobby' = [lobby EXCEPT ![r].filling = TRUE]
  /\ fills' = Append(fills,
                     [pc |-> "bot", room |-> r, added |-> 0,
                      cards |-> BotCardCount(RealPlayerCards(lobby[r].players))])
  /\ UNCHANGED <<request, pc, credit, starts>>

\* createRandomBot answered; addBotToLobby clamps to the capacity. Neither
\* the status nor the lobby's identity is checked again after the await.
BotJoins(f) ==
  LET r == fills[f].room
      n == Min({fills[f].cards, MaxCardsPerMatch - lobby[r].totalCards})
  IN /\ fills[f].pc = "bot"
     /\ lobby' = IF n > 0
                 THEN [lobby EXCEPT ![r] = Seated(@, [join |-> BOT, cards |-> n])]
                 ELSE lobby
     /\ fills' = [fills EXCEPT ![f].pc = "sleep", ![f].added = @ + 1]
     /\ UNCHANGED <<request, pc, credit, timers, starts>>

\* No free user name, or the read of the rooms for the broadcast fails: the
\* loop ends, its caller logs the error, and botFillInProgress stays set.
FillFails(f) ==
  /\ fills[f].pc \in {"bot", "sleep"}
  /\ "bot" \in Failures
  /\ fills' = [fills EXCEPT ![f].pc = "failed"]
  /\ UNCHANGED <<request, pc, credit, lobby, timers, starts>>

\* The loop ends: the flag is cleared and a quorum starts the match.
EndFill(f) ==
  LET r == fills[f].room
      l == [lobby[r] EXCEPT !.filling = FALSE]
  IN /\ fills' = [fills EXCEPT ![f].pc = "ended"]
     /\ IF l.totalCards >= MinCardsToStart
        THEN CancelAndFinalize(r, l, timers[r])
        ELSE /\ lobby' = [lobby EXCEPT ![r] = l]
             /\ UNCHANGED <<timers, starts>>
     /\ UNCHANGED <<request, pc, credit>>

\* Mutant: the loop just ends.
FillStops(f) ==
  /\ fills[f].pc = "sleep"
  /\ fills' = [fills EXCEPT ![f].pc = "ended"]
  /\ UNCHANGED <<request, pc, credit, lobby, timers, starts>>

\* The window closed, the last bot was added, or the quorum is met: the
\* three ways out of the loop that clear the flag do the same.
FillExits(f) == fills[f].pc = "sleep" /\ EndFill(f)

MoreBots(f) == fills[f].pc = "sleep" /\ fills[f].added < MaxBotsPerMatch

\* The early return on another status leaves the flag as it is.
FillAbandons(f) ==
  /\ MoreBots(f)
  /\ lobby[fills[f].room].status # "WAITING"
  /\ fills' = [fills EXCEPT ![f].pc = "ended"]
  /\ UNCHANGED <<request, pc, credit, lobby, timers, starts>>

FillContinues(f) ==
  LET l == lobby[fills[f].room]
  IN /\ MoreBots(f)
     /\ l.status = "WAITING" /\ l.totalCards < MinCardsToStart
     /\ fills' = [fills EXCEPT ![f].pc = "bot",
                               ![f].cards = BotCardCount(RealPlayerCards(l.players))]
     /\ UNCHANGED <<request, pc, credit, lobby, timers, starts>>

-----------------------------------------------------------------------------
(* finalizeLobby: startMatch, createPoolAndAssign, beginNumberCalling      *)

\* The pools will be computed from the cards present now.
ReadRoom(s) ==
  /\ starts[s].pc = "room"
  /\ starts' = [starts EXCEPT ![s].pc = "create",
                              ![s].entry = lobby[starts[s].room].totalCards]
  /\ UNCHANGED <<request, pc, credit, lobby, timers, fills>>

\* The transaction began; Match.totalCards is read again.
CreateMatch(s) ==
  /\ starts[s].pc = "create"
  /\ starts' = [starts EXCEPT ![s].pc = "assign",
                              ![s].cards = lobby[starts[s].room].totalCards]
  /\ UNCHANGED <<request, pc, credit, lobby, timers, fills>>

\* The loop iterates over the live array: seats added meanwhile are seen.
Players(s) == lobby[starts[s].room].players
AllDealt(s) == Len(starts[s].seats) >= Len(Players(s))
NextSeat(s) == Players(s)[Len(starts[s].seats) + 1]

\* Mutant: the cards left are not counted.
DealableUncounted(s, p) == IsReal(p) => ~ HasUser(starts[s].seats, UserOf(p))

\* Enough cards left, and no second PlayerMatch row of one user.
Dealable(s, p) ==
  /\ starts[s].dealt + p.cards <= CardsPerMatch
  /\ IsReal(p) => ~ HasUser(starts[s].seats, UserOf(p))

Assign(s) ==
  /\ starts[s].pc = "assign" /\ ~ AllDealt(s)
  /\ Dealable(s, NextSeat(s))
  /\ starts' = [starts EXCEPT ![s].seats = Append(@, NextSeat(s)),
                              ![s].dealt = @ + NextSeat(s).cards]
  /\ UNCHANGED <<request, pc, credit, lobby, timers, fills>>

Commit(s) ==
  /\ starts[s].pc = "assign" /\ AllDealt(s)
  /\ starts' = [starts EXCEPT ![s].pc = "calling"]
  /\ UNCHANGED <<request, pc, credit, lobby, timers, fills>>

\* Mutant: a failed start resets the lobby.
ReopenedEmpty(r) == lobby' = [lobby EXCEPT ![r] = EmptyLobby]

\* The catch block of finalizeLobby.
Reopened(r) == lobby' = [lobby EXCEPT ![r].status = "WAITING"]

\* Mutant: the catch block forgets the status.
StartFailsShut(s) ==
  /\ starts[s].pc \in {"room", "create", "assign"} /\ "start" \in Failures
  /\ starts' = [starts EXCEPT ![s] = [NewStart(@.room) EXCEPT !.pc = "failed"]]
  /\ UNCHANGED <<request, pc, credit, lobby, timers, fills>>

\* The transaction is rolled back; nothing of the match remains.
StartFails(s) ==
  /\ \/ starts[s].pc \in {"room", "create", "assign"} /\ "start" \in Failures
     \/ /\ starts[s].pc = "assign" /\ ~ AllDealt(s)
        /\ ~ Dealable(s, NextSeat(s))
  /\ starts' = [starts EXCEPT ![s] = [NewStart(@.room) EXCEPT !.pc = "failed"]]
  /\ Reopened(starts[s].room)
  /\ UNCHANGED <<request, pc, credit, timers, fills>>

BeginCalling(s) ==
  /\ starts[s].pc = "calling"
  /\ starts' = [starts EXCEPT ![s].pc = "announce"]
  /\ UNCHANGED <<request, pc, credit, lobby, timers, fills>>

\* Mutant: resetLobby forgets the players.
AnnounceKeepingPlayers(s) ==
  LET r == starts[s].room
  IN /\ starts[s].pc = "announce"
     /\ starts' = [starts EXCEPT ![s].pc = "done"]
     /\ lobby' = [lobby EXCEPT ![r] = [EmptyLobby EXCEPT !.players = lobby[r].players]]
     /\ timers' = [timers EXCEPT ![r] = Cancelled(@)]
     /\ UNCHANGED <<request, pc, credit, fills>>

\* Mutant: the lobby reopens without resetLobby.
AnnounceUnreset(s) ==
  /\ starts[s].pc = "announce"
  /\ starts' = [starts EXCEPT ![s].pc = "done"]
  /\ Reopened(starts[s].room)
  /\ UNCHANGED <<request, pc, credit, timers, fills>>

\* The broadcast returned: resetLobby.
Announce(s) ==
  LET r == starts[s].room
  IN /\ starts[s].pc = "announce"
     /\ starts' = [starts EXCEPT ![s].pc = "done"]
     /\ lobby' = [lobby EXCEPT ![r] = EmptyLobby]
     /\ timers' = [timers EXCEPT ![r] = Cancelled(@)]
     /\ UNCHANGED <<request, pc, credit, fills>>

\* The match is committed, yet the lobby reopens with its players.
StartAborts(s) ==
  /\ starts[s].pc \in {"calling", "announce"} \cap Failures
  /\ starts' = [starts EXCEPT ![s].pc = "aborted"]
  /\ Reopened(starts[s].room)
  /\ UNCHANGED <<request, pc, credit, timers, fills>>

-----------------------------------------------------------------------------
(* The rest of the system, as far as the lobby sees it                     *)

Committed(s) == starts[s].pc \in {"calling", "announce", "done", "aborted"}

\* MatchPrizeService.settle credits a prize to a player of a match.
Settle(u, a) ==
  /\ \E s \in DOMAIN starts : Committed(s) /\ HasUser(starts[s].seats, u)
  /\ credit[u] + a <= MaxCredit
  /\ credit' = [credit EXCEPT ![u] = @ + a]
  /\ UNCHANGED <<request, pc, lobby, timers, fills, starts>>

-----------------------------------------------------------------------------
JoinStep(j) ==
  \/ Admit(j) \/ ReadUser(j) \/ CheckReferral(j)
  \/ Charge(j) \/ ChargeFails(j) \/ TakeSeat(j)

TimerStep(r) ==
  FirstPeriod(r) \/ SecondPeriod(r) \/ BotEntryIdle(r) \/ BotEntryFills(r)

FillStep(f) ==
  \/ BotJoins(f) \/ FillFails(f) \/ FillExits(f)
  \/ FillAbandons(f) \/ FillContinues(f)

StartStep(s) ==
  \/ ReadRoom(s) \/ CreateMatch(s) \/ Assign(s) \/ Commit(s) \/ StartFails(s)
  \/ BeginCalling(s) \/ Announce(s) \/ StartAborts(s)

\* What the server does by itself once it was called.
ServerStep ==
  \/ \E j \in Joins : JoinStep(j)
  \/ \E r \in Rooms : TimerStep(r)
  \/ \E f \in DOMAIN fills : FillStep(f)
  \/ \E s \in DOMAIN starts : StartStep(s)

Next ==
  \/ ServerStep
  \/ \E j \in Joins : Call(j)
  \/ \E u \in Users, a \in Prizes : Settle(u, a)

Spec == Init /\ [][Next]_vars

\* Every handler, loop and timer of the event loop is run in the end: a
\* continuation is never starved, but clients need not send a message.
FairSpec ==
  /\ Spec
  /\ WF_vars(ServerStep)

-----------------------------------------------------------------------------
(* Properties                                                              *)

Active(s) == starts[s].pc \in {"room", "create", "assign", "calling", "announce"}

\* The cached totalCards, which every capacity and quorum test reads, is the
\* sum of the cards of the players, whatever joins, bots and resets interleave.
CardsAddUp ==
  \A r \in Rooms : lobby[r].totalCards = SumCards(lobby[r].players)

\* A lobby is STARTING exactly while one finalizeLobby works on it, however
\* the windows, the fill loops and the last join race to finalize.
OneStartPerRoom ==
  /\ \A s, t \in DOMAIN starts :
       Active(s) /\ Active(t) /\ starts[s].room = starts[t].room => s = t
  /\ \A r \in Rooms :
       lobby[r].status = "STARTING"
         <=> \E s \in DOMAIN starts : Active(s) /\ starts[s].room = r

\* A window that can still fire belongs to the waiting players of now: none
\* outlives the start of the match or the reset that ended its lobby.
TimersOnlyWhileWaiting ==
  \A r \in Rooms :
    timers[r].armed # {} => /\ timers[r].scheduled
                            /\ lobby[r].status = "WAITING"
                            /\ lobby[r].players # <<>>

\* The last start of r failed and the lobby was not reset since.
FailedSinceReset(r) ==
  \E s \in DOMAIN starts :
    /\ starts[s].room = r /\ starts[s].pc \in {"failed", "aborted"}
    /\ \A t \in DOMAIN starts : starts[t].room = r /\ starts[t].pc = "done" => t < s

\* Players who wait are waited for: the second window is still to come. What
\* is left without a timer is a lobby whose second window passed below the
\* quorum, one whose start failed, and one that a bot entered first (by a
\* fill or a bot-entry timer of the lobby before): joins then schedule nothing.
WaitersAreTimed ==
  \A r \in Rooms :
    LET l == lobby[r]
    IN l.status = "WAITING" /\ l.players # <<>> /\ IsReal(l.players[1]) =>
         "second" \in timers[r].armed \/ l.second \/ FailedSinceReset(r)

\* No path to finalizeLobby starts a match below MIN_CARDS_TO_START, and what
\* startMatch reads after its awaits is not below it either.
StartHasQuorum ==
  \A s \in DOMAIN starts :
    /\ Active(s) => lobby[starts[s].room].totalCards >= MinCardsToStart
    /\ Committed(s) => /\ starts[s].entry >= MinCardsToStart
                       /\ starts[s].cards >= MinCardsToStart

\* createPoolAndAssign iterates over an array that joins and bots append to:
\* the PlayerMatch rows are at all times the first players of the lobby.
SeatsArePrefix ==
  \A s \in DOMAIN starts :
    Active(s) =>
      /\ Len(starts[s].seats) <= Len(Players(s))
      /\ \A i \in DOMAIN starts[s].seats : starts[s].seats[i] = Players(s)[i]

\* The prize pools and Match.totalCards, computed before the cards are dealt,
\* never exceed the cards dealt, and these never exceed the pool of cards.
PoolsCovered ==
  \A s \in DOMAIN starts :
    Committed(s) => /\ starts[s].entry <= starts[s].cards
                    /\ starts[s].cards <= starts[s].dealt
                    /\ starts[s].dealt <= CardsPerMatch

InLobby(j) ==
  \E i \in DOMAIN lobby[RoomOf(j)].players : lobby[RoomOf(j)].players[i].join = j

InMatch(j, s) ==
  Committed(s) /\ \E i \in DOMAIN starts[s].seats : starts[s].seats[i].join = j

\* A player who paid and was seated while the lobby was WAITING still has the
\* seat or plays a committed match, through failed starts, resets and rejoins.
PaidSeatKept ==
  \A j \in Joins :
    pc[j] = "seated" => InLobby(j) \/ \E s \in DOMAIN starts : InMatch(j, s)

\* One payment is played in one match, unless a start was aborted after its
\* commit (which reopens the lobby with the players of a running match).
SeatPlaysOnce ==
  \A j \in Joins : \A s, t \in DOMAIN starts :
    InMatch(j, s) /\ InMatch(j, t) /\ s # t
      => "aborted" \in {starts[s].pc, starts[t].pc}

\* The dearest entry that u asks for.
Dearest(u) == Max({0} \cup {Cost(j) : j \in {k \in Joins : request[k].user = u}})

\* The balance is compared before the awaits that precede the charge, so
\* messages in flight together overdraw it: by one entry less than there are
\* of them, and however many follow each other, by nothing more. With one
\* message in flight at a time no balance is negative.
DebtBounded ==
  \A u \in Users : credit[u] >= - ((MaxPending - 1) * Dearest(u))

SeatsOf(ps, u) == {i \in DOMAIN ps : IsReal(ps[i]) /\ UserOf(ps[i]) = u}

\* The double join is refused awaits before the seat is taken, so messages in
\* flight together seat a user more than once, but never more often than there
\* are of them. With one message in flight at a time nobody sits twice.
SeatsBounded ==
  \A r \in Rooms, u \in Users :
    Cardinality(SeatsOf(lobby[r].players, u)) <= MaxPending

\* A lobby that closed for a start opens again, the start failed or not.
LobbyReopens ==
  \A r \in Rooms : lobby[r].status = "STARTING" ~> lobby[r].status = "WAITING"

\* botFillInProgress, which blocks any other fill, is cleared in the end; the
\* early return of startBotFill relies on the reset of a start that succeeds.
\* Two failures leave it set for good: that of a start, after such a return,
\* and that of createRandomBot or of the broadcast inside the fill.
FillFlagCleared ==
  \A r \in Rooms :
    lobby[r].filling ~>
      \/ ~ lobby[r].filling
      \/ \E s \in DOMAIN starts : /\ starts[s].room = r
                                  /\ starts[s].pc \in {"failed", "aborted"}
      \/ \E f \in DOMAIN fills : fills[f].room = r /\ fills[f].pc = "failed"

\* "Clamp so we never exceed the 30-card match capacity".
WithinCapacity == \A r \in Rooms : lobby[r].totalCards <= MaxCardsPerMatch

\* "The inviter and invitee cannot share a room or a match."
NoReferralPair ==
  \A r \in Rooms : \A i \in DOMAIN lobby[r].players :
    LET p == lobby[r].players[i]
    IN IsReal(p) => ~ ReferralConflict(UserOf(p), lobby[r].players)

=============================================================================
