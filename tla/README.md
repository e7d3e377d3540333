# Daberna: a verification project

Daberna is a multiplayer bingo (NestJS, one Node.js process, PostgreSQL through
Prisma). Players buy cards in the lobby of a room, bots fill it up, a match
starts, numbers are called, and a line and a full house win shares of the entry
fees. These TLA+ modules model the parts of the server that keep state and
race: the lobby, with and without its clock, the running match, the accounts and
their money, the names of bots, and the generator of cards.

All code between two `await`s runs without interruption; at an `await` any other
handler, timer or loop may run. The models use this grain: one action per database call
together with the code that runs when its answer arrives. Where that code reads or writes
memory that others change between the call and the answer, it is an action of its own.

## Inventory

| Component | State | Operations | What is hard | What makes it correct |
|---|---|---|---|---|
| Lobby (`src/src/lobby/services/lobby.service.ts`) | `lobby`: per room status, players, totals, fired windows, fill flag; `lobbyTimers`; bot-entry timers without a handle; running fill loops and starts | `joinLobby`/`enterLobby`, `handleFirstPeriodTime`, `handleSecondPeriodTime`, `onBotEntryWindowOpen`, `startBotFill`, `finalizeLobby`, `resetLobby` | checks made before awaits and used after them; timers, loops and joins racing to finalize; failures of a start | one start per lobby, no timer of a past lobby, quorum, a paid seat is kept, a user's debt and seats bounded by his messages in flight, players who wait have a timer |
| Match start (`match.service.ts` 46-81, `match-card.service.ts`) | `Match`, `PlayerMatch`, `MatchCard` rows | `startMatch`, `createPoolAndAssign` | iterates over the array joins append to; totals read at different times | rows are the first players of the lobby; pools covered by cards dealt |
| Running match (`match.service.ts` 87-321, 437-471) | `Match` and `PlayerMatch` rows, `MatchNumber` rows | `beginNumberCalling`, `tickMatch`, `checkForWinners`, both declarations, `finishMatch` | the interval does not wait for the tick; decisions from earlier reads; failures between steps | the match plays the game, ends, pays each pool once |
| Number caller (`number-caller.service.ts`) | `tickers`, `predeterminedOrders` | `start`, `stop`, `pickNext`, `setPredeterminedOrder` | memory shared by overlapping ticks | only new players win a new-player match while numbers are left |
| Prizes (`match-prize.service.ts`) | `User.credit`, ledger, notifications | `settle`, unused `refund` | pools split among winners, bots without a user | pools never overpaid, shares add up but for rounding, each credit is the sum of its ledger rows |
| Bots (`bot.service.ts`) | names in use | `createRandomBot`, unused release | awaits and failures in the middle of the fill loop; names checked, then taken | card count within bounds, bots of a fill told apart |
| Accounts (`auth.service.ts`, `referral/`) | `User`, `Transaction`, `Referral` | `registerGuest`, `signIn`, `completeAccount` | check, then act, with awaits between; a transaction that fails | a name, a phone, a code are unique; who invites came first; only the owner signs in; a completed account takes no further completion |
| Cards (`card.utils.ts`) | none | `generateCard`, `isValid` | placement that may fail, late | every card that is returned is valid |
| Snapshots, gateways, rooms, profiles, notifications, guards, seeds | none of their own | reads, forwarding, wiring | - | - |

The gateways call the lobby; the lobby calls `MatchService.startMatch` and
`beginNumberCalling`; from then on the match runs by its interval. They share the
database only: the credit of a user is read and decremented by the lobby while a
match may increment it. `PROJECT.json` lists the hazards with their lines.

## Modules

* `Lobby` - the lobby of every room and the start of its matches.
* `LobbyClock` - extends `Lobby` with time and shows that it implements `Lobby`.
* `MCLobby`, `MCLobbyClock` - instances for TLC.
* `LobbyProofs`, `LobbySeatProofs` - theorems about `Lobby`; `LobbyTimeProofs` - about
  its timers and `LobbyClock`.
* `Bingo` - the abstract game a match promises its players: no ticks, no database, no
  memory.
* `Match` - the running match, ticks included; instantiates `Bingo` as what it
  implements.
* `MCMatch` - instances for TLC.
* `MatchProofs`, `MatchGameProofs` - theorems about `Match`; the second has the refinement
  of `Bingo`.
* `Accounts` - registration, completion, sign-in, on the tables they share.
* `Wallet` - extends `Accounts` with the payments of joins and the prizes of matches.
* `Ledger` - the abstract account book; `Wallet` instantiates it as what it implements.
* `Players` - `Accounts`, `Wallet` and the names of bots, composed; `MCPlayers` is its
  instance, `PlayersProofs` its theorems.
* `Cards`, `MCCards`, `CardsProofs` - the generator of cards.
* `SumTheorems` - what the proofs need to know of sums over finite sets.

### Lobby

| TLA+ | Code |
|---|---|
| `request`, `pc` | one `join-lobby` message per element of `Joins`; `pc` is the await at which its `enterLobby` stands |
| `lobby`, `timers` | `lobby` (line 38), `lobbyTimers` (44); `armed` are handles not yet fired, `bot` counts bot-entry timers, which have no handle |
| `fills`, `starts` | the calls of `startBotFill` and `finalizeLobby` so far, with their local variables |
| `Call` ... `TakeSeat` | `enterLobby`: room, user, referral, charge, seat |
| `FirstPeriod`, `SecondPeriod`, `BotEntry*`, `Bot*`, `Fill*` | the timers and the fill loop |
| `ReadRoom` ... `Commit`, `StartFails`, `BeginCalling`, `Announce`, `StartAborts` | `finalizeLobby` with `startMatch` and `createPoolAndAssign` inside |
| `Settle` | a prize credited meanwhile |

Time is left out: an armed timer may fire at any moment (the second window only
after the first), and the 80 s end of the bot window may have passed whenever the
loop looks. This allows more interleavings than the clock does, so invariants
proved here hold with it. `SecondPeriod` is the one place where a time matters: the
window is 360 s or more after `createdAt`, so the fill it calls ends at once.
The transaction of `startMatch` is split at its reads of the live lobby
(`CreateMatch`, `Assign`), because what it reads changes under it; its rows are
seen by nobody before `Commit`.

### LobbyClock

`left` holds a countdown per armed window and per bot-entry timer, set when the steps of
`Lobby` arm it (`TimersFollow`) and read when it fires; `age` is the time since
`createdAt`; `fill` is, per fill loop, what is left of its bot window and of its sleep.
`Tick` lets time pass while no timer is due: timers fire on time, the database answers
at any time. `RemainingTime` is what clients are shown, in whole seconds
like the code (`WholeSeconds`): both terms of the subtraction are rounded down, so one who comes
within a second after `createdAt` is shown up to a second more than his window has left, and
`ShownTimeHolds` allows less than that. Each action is the one of `Lobby` at its time; only `SecondWindowEnds` spells
out the fill that `handleSecondPeriodTime` calls, which `Lobby` says adds no bot.
`ImplementsLobby` checks exactly that: `createdAt` is never later than the first seat, so 360
s after it the bot window of 80 s is over. `SecondWindowFills` is therefore never taken;
it is there so that the run decides and not the model.

The bot-entry timer is different. It has no handle, so `resetLobby` leaves it running: the
timer of the last lobby fires in the next one, before its second 20, and seats bots in an
empty lobby (the comment at `lobby.service.ts:379` has bots join from second 20). A
player who joins after them does not find the lobby empty, and nothing schedules the
windows. `WaitersAreTimed` in `Lobby` says where the line is: whenever the *first* player is
a real one, the second window is still to come or has fired, unless a start failed since
the last reset. Behind bots, or after a failed start, a player may wait without a timer.

### Match

| TLA+ | Code |
|---|---|
| `match`, `rows`, `flags`, `paid` | the `Match` row, the `MatchNumber` rows, the winner columns and `result` of `PlayerMatch`, the sums of the `WINNING` and `BOT_WINNING` ledger rows |
| `running`, `order` | `tickers`, `predeterminedOrders` of this match |
| `tick` | the ticks under way, each with what it read |
| `Fire`, `Read`, `ReadEnded`, `Pick`, `Persist`, `PersistRejected`, `Reread`, `Ended` | `tickMatch` |
| `Check` | `checkForWinners`, when the update of `tickMatch` has returned |
| `LineRead`, `LineTx`, `FullRead`, `FullTx`, `FullDone` | the two declarations |
| `Finish`, `Stop` | `finishMatch` |
| `TickFails` | a rejected database call; the interval logs it |

A call of the database and the code that runs when it answers are two actions wherever that
code uses the ticker or the predetermined order, which other ticks change in between: `Read`
and `Pick`, `Persist` and `Check`, `FullTx` and `FullDone`, `Finish` and `Stop`, `ReadEnded` or
`Reread` and `Ended`. It matters for `NewPlayerOnly`: when every number is drawn, a tick may
fail, the next one may finish the match and clear the order, and an earlier tick, whose
number was written before, then checks all players. A bot may win so. The property, and the
theorem, hold until every number is drawn. A share of a pool is rounded to the unit of its column (`PerWinner`; the
unit is a cent of the `Decimal(15,2)` columns), and shares add up to the pool within half a
unit per winner (`FullPoolShared`, `Bingo`). The predetermined order draws
`FillerCounts` numbers besides those of the card; a card's layout is a set of
disjoint rows.

`Bingo` has the actions `Call`, `AwardLine`, `AwardFullHouse`, `RunOut`. `PlaysBingo`
maps its variables to the rows: called numbers, winner columns, "a line winner is
recorded", "the status is COMPLETED", and the sums paid.

### Accounts, Wallet, Players

| TLA+ | Code |
|---|---|
| `registered`, `users`, `ledger`, `referrals` | the tables `User`, `Transaction`, `Referral`; a guest is named by the request that creates it |
| `reg`: `Register`, `DrawCode`, `ValidateReferrer`, `CreateUser`, `CreateFails` | `registerGuest`, one action per answer of the database; `CreateUser` is its transaction |
| `comp`: `Complete`, `CheckPhone`, `UpdateAccount`, `CompleteFails` | `completeAccount` |
| `session`: `SignIn`, `Compare` | `signIn` |
| `pay`: `ReadBalance`, `Charge`, `ChargeFails` | lines 210-242 of `enterLobby`, with the ledger row `Lobby` leaves out |
| `prize`: `ReadCredit`, `Settle`, `SettleFails` | `MatchPrizeService.settle` for a real player; at read committed another transaction may run between its two queries |
| `candidate`, `named`, `BuildUsername`, `CreateRandomBot` | `generateUniqueUsername` and `activeUsernames` of `BotService`, per fill |

A unique key refuses the write that would break it, and a refused request may be sent
again. A password is identified with the completion that stored it; `Compare` succeeds when
the password offered is the one whose hash was read. `Ledger` maps a user's credit and the
`Transaction` rows to an account book: every step that changes a credit adds one row, with
the amount of the change and the balance it became. The `balanceBefore` of a row is read
earlier, so it need not be `balanceAfter - amount`; `Ledger` asks only that the user has
had that balance.

### Cards

`PickColumn` is a round of `pickColumnCounts` that counts, `DrawNumbers` draws a column,
`PlaceColumn` and `CannotPlace` are the loop of `placeInGrid`. The service deals cards that
`prisma/seeds/cards.json` lists; nothing in `src/` calls `generateCard` or `isValid`. Rows are
picked by a shuffle, so within a column numbers are not sorted from top to bottom although
the comment at `card.utils.ts:23` says sorted ascending; `isValid` does not look at that, nor
at the 1 to 3 numbers per column.

## Runs

| Run | Question | Result |
|---|---|---|
| `lobby_races` | do lobby, timers, fills and starts stay consistent in every interleaving, with every failure, and what bounds debts and seats? | pass, 771 888 states |
| `lobby_reopens` | does a closed lobby reopen, and is the fill flag cleared, with every failure? | pass, 520 592 states |
| `lobby_times` | with timers at their times: does the lobby stay within `Lobby`, may the second window add bots, is the waiting time shown ever a second too long? | pass (it may not, it is not), 698 580 states |
| `lobby_capacity` | never more than 30 cards (`lobby.service.ts:468`) | violated |
| `lobby_referral` | inviter and invitee never share a room (`lobby.service.ts:282`) | violated |
| `match_serial` | without overlapping ticks: a match implements `Bingo`, ends and awards its full house | pass, 139 310 states |
| `match_overlap` | what survives two overlapping ticks | pass, 2 191 026 states |
| `match_linepool` | the line pool is paid at most once (`schema.prisma:169`) | violated |
| `match_fullpool` | the full-house pool is paid at most once (`schema.prisma:170`) | violated |
| `match_called` | `calledNumbers` has every number drawn (`schema.prisma:159`) | violated |
| `accounts` | requests of accounts, payments, prizes and bot fills interleave, transactions fail: are keys unique, accounts their owners', referrals in order, credits the sums of their rows, bots told apart? | pass, 277 556 states |
| `cards` | is every card returned valid, and where may the placement fail? | pass, 115 125 states |

### What the runs that fail show

* `lobby_capacity`: two joins pass the check at line 206 before either is seated. The
  lobby then holds more cards than a match can deal; every start of it fails.
* `lobby_referral`: the two joins each read the players before the other is seated.
* `match_linepool`: bots alone win the line; `lineWinnerId` stays null; the next line is
  paid from the whole pool once more. No overlap, no failure is needed.
* `match_fullpool`: a second tick finds the same full house before the first one's
  transaction has committed.
* `match_called`: the second of two overlapping ticks overwrites the list of the first.
  The lost number has a row, so where the order is predetermined every later tick picks
  it and fails on the unique key: such a match never ends.

### Bounds

* Lobby. 30 cards, quorum 5, 15 bots, bots of 1 to 4 cards become 3, 2, 1 or 2, and 1 to
  2. The orders between them (quorum < capacity, a bot may complete the quorum or be
  clamped by the capacity, a join may overfill) are kept, and each case occurs.
  Two users and three joins give concurrent joins, a rejoin after a reset, and two seats
  of a user; two fill loops and several starts happen in a row. `MaxPending` is how many
  messages of one user are in flight: 2, with which the bounds of `DebtBounded` and
  `SeatsBounded` are both reached; 1 where a single message of each user is enough
  (`lobby_times`, `lobby_capacity`, `lobby_referral`). `lobby_reopens` has two joins, as
  liveness is costly, and every failure: of charges, of starts at each of their calls, of bots.
  `MaxCredit` bounds prizes. Rooms share nothing but the users'
  credit, so one room is enough here.
* Match. Five numbers, cards of two rows of two: a line before a full house, ties, a bot
  that has the line alone, one number left after the full house, and a player without
  cards. Two ticks overlap: a third needs a tick that takes more than three
  seconds, and most invariants are proved for any number of them.
  `MaxFaults` = 1: one failed call at any of the eight awaits.
  Pools of 13 do not divide by two or three, so shares round both ways.
* LobbyClock. A unit is 20 s: the bot entry (20 s), the end of the bot window (80 s) and the
  windows (180 s each) are 1, 4, 9 and 9 units, in their true proportions; a sleep of 5 to 15
  s passes within a unit or reaches into the next (0 or 1). Three joins reach a second
  lobby after a reset, with a bot-entry timer of the first one left. `Second`, the grain of the
  time shown, is 3 units: larger than in truth, so that ages with a remainder occur. The
  theorem is for any value.
* Players. Two registrations with two names and codes meet on each key; the second may be
  invited by the first. Of three completions two may be under way for one user
  (`MaxPending` = 2) and a third comes later, all asking for one phone number, so that they
  meet on its key too. A sign-in, one payment, one prize and one fill of two bots run
  beside them; a bot and a registration meet on the two names.
* Cards. Three rows of three numbers over four columns, as three of five over nine: columns
  of one, two and three numbers occur, and so does a placement that fails.
* `CHECK_DEADLOCK FALSE` everywhere: once all messages are sent, or the match ended, the
  system stops.

### Fairness

`FairSpec` of `Lobby` is weak fairness of everything the server does by itself: the event
loop runs every timer and continuation. Nothing is assumed of clients (`Call`) and prizes
(`Settle`). `FairSpec` of `Match` is weak fairness of each tick: the interval fires as
long as it exists, and every answer is handled. That a match begins is not assumed, and
failures are bounded by `MaxFaults`. `FillFlagCleared` names the two failures that leave
`botFillInProgress` set: a start that fails after `startBotFill` returned early, and
`createRandomBot` or the broadcast that rejects inside the fill (`lobby.service.ts:434-438`).
The other modules state safety only: a client may give up after any answer, and a lobby may
wait without a timer, as said above.

## Proofs

All theorems hold for every value of the constants that satisfies the assumptions
named in the modules and, where stated, in the theorem; none needs the bounds of the runs.

`LobbyProofs` - `TypeOK`, `OneStartPerRoom`, `TimersOnlyWhileWaiting`, `StartHasQuorum`,
`SeatsArePrefix`. None is inductive alone, so all follow from `ControlInv`, which adds
what a start has read (`QuorumRead`), that the quorum is held while a start is active
(`QuorumHeld`), and that cards do not shrink (`CardsHeld`). The argument: from the moment
`finalizeLobby` sets `STARTING` to the reset or the failure, only joins and bots touch
the lobby, and they append (`RoomGrows`); so what was read stays a lower bound. An armed
window implies `WAITING`, as every path to `finalizeLobby` cancels the windows first.

`LobbySeatProofs` - `DebtBounded`, for every `MaxPending`: of a user at most `MaxPending` messages
are in flight (`PendingInv`), and `Solvent` says that his credit together with `MaxPending - 1` times his dearest
entry covers all that messages past the balance check may still charge. When one passes, the
credit covers it, and the others cost at most his dearest entry each (`OwedBounds`); a charge
lowers both sides alike, a prize raises one. `PaidSeatKept`: `SeatInv` adds that a
seated player of a lobby being started is dealt to by the time the match commits.
`SeatsBounded`, for every `MaxPending` as well: `DoubleInv` adds the messages admitted and not
yet seated to the seats a user has, and that sum is at most `MaxPending`, since a message is
admitted only while the user has no seat. `MaxPending` = 1 gives the plain promises: no negative
balance, no second seat. `SeatPlaysOnce`: `OnceInv`
adds that every seat and every row is one that was taken (`SeatsTaken`, `RowsTaken`) and that
whoever plays an announced match is out of the lobby (`LeftLobby`). The property excepts
starts aborted after their commit: their players stay in the lobby and are dealt to again.
`CardsAddUp`: a step leaves the players of a lobby alone, clears them or seats one more
behind them (`PlayersStep`), and writes `totalCards` to match. `PoolsCovered`, from
`CoverInv`: what a start has read of `totalCards` is at most what it holds now
(`StartsCovered`), as a lobby being started only grows; at the commit every player has a row,
so the cards dealt are the sum over the lobby, and that is `totalCards`.

Three more theorems of `LobbySeatProofs` are about the promises that `lobby_capacity` and
`lobby_referral` refute and what follows from it. `WithinCapacityAlone` and `NoReferralPairAlone` show that they hold in
every run in which a room has one join between its checks and its seat (`OneJoinAtATime`) and,
for the capacity, no bot under way meanwhile (`NoBotMeanwhile`): the overlap is all that
breaks them. The clamp of the bots alone keeps within the capacity (`BotFits`). For the
referrals nobody may be his own inviter, which `ReferrerFirst` of `Accounts` excludes.
`StartsFindCardsCorrect` is about all runs: a start that still deals finds cards for its next
player, or its lobby holds more cards than the pool, or a user sits in it twice
(`NextSeatFits`). Both need the overlaps above, so nothing else but the database can fail a
start.

`LobbyTimeProofs` - `WaitersAreTimed`, from `WaitInv`: a lobby without players has no entry in
`lobbyTimers` that would keep `scheduleWaiting` from arming the windows (`Unscheduled`), and
of the starts of a room only the last is active (`LastStart`), so no reset follows a failure
unseen. About `LobbyClock`, for any lengths of the windows with the bot window within the first.
`CountInv` says that what an armed window has left and the time since `createdAt` together are
at least the window's length. Hence when the second window ends the bot window is over: its
fill adds no bot, every step of `LobbyClock` is one of `Lobby` (`ImplementsLobby`), and
the waiting time shown is less than a second longer than what is left (`ShownTimeHolds`, by
`WholeSecondsBounds`). `ClockTypeOK` needs
that each bot-entry timer has its countdown and each fill its window (`BotsTimed`, `FillsTimed`);
a step moves at most one bot-entry timer of a room (`BotTimerMoves`).

`MatchProofs` - for any number of overlapping ticks and any failures: `TypeOK`, and
`WinnersEarned` from `DrawnInv` (what a tick has read or found rests on drawn
numbers, and drawn numbers are never withdrawn), with `CalledWasDrawn`. `FullHouseStops` from
`StopInv`: the tick that records a full house is the one that will stop the ticker, and
nothing runs before the match begins (`QuietBefore`). Under the assumption that ticks do not overlap
(`\A t, u \in Ticks : t = u`), `CalledMatchesRows` and `ResultsAgree` from `SerialInv`: what the
one tick has read is still so when it writes (`UpToDate`). `CalledIsComplete` follows, and
`match_called` shows that the assumption is needed.

`MatchGameProofs` - `NewPlayerOnly`, for any number of overlapping ticks. What keeps others from
winning is the predetermined order in memory, and a tick that ends the match clears it while
others are still to check for winners. `NewInv` says that it is cleared only when both
prizes have winners (`OpenInv`) or every number is drawn (`RanOut`): in the first case whatever a
tick finds later is dropped by the read of its declaration, in the second the property no
longer asks for anything. This rests on `CardsAssumption`: a card has
rows and no row is empty. With one tick at a time, `PlaysBingo` and `LinePaidOnce` from
`GameInv`: what the tick has found is still what the game asks for when it is written
(`PlaysFair`), and the players it looks at are those the game lets win (`PoolEligible`). Each
write of a tick is then one action of `Bingo` (`GameCall`, `GameLine`, `GameFull`, `GameRunOut`), and
every other step, failed calls included, is a stutter. `FullPoolShared`, from `ShareInv`: nobody is
paid from the pool before the one declaration, and its shares add up to the pool within half a
unit each. `LinePoolShared`, from `LineInv`, says the same of the line in a match without bots,
where whoever has the line is recorded; with bots `match_linepool` refutes it.

`PlayersProofs` - eight theorems about accounts, wallet and bots together, over any requests:

| Theorem | Invariant | Why it is needed |
|---|---|---|
| `PlayersTypesCorrect` | `TypeInv` | a request past its first step has a user (`Holders`) |
| `KeysCorrect` | `KeyInv` | the guards of the two writes are the unique keys; nothing looked up earlier is relied on |
| `SignInCorrect` | `OwnerInv` | every stored password, and every one a sign-in has read, is that of a finished completion of the user |
| `CompletionsBoundedCorrect` | `CompInv` | once a completion of a user is written he is no guest: no further one is accepted, and until then all that were accepted are under way, at most `MaxPending` |
| `BotsToldApartCorrect` | `NameInv` | a candidate is none of the names its own fill already has |
| `ReferrerCorrect` | `ReferrerInv` | everybody registered has a gift row, and a referrer found is registered |
| `LedgerCorrect` | `BookInv` | a credit, and every balance a payment or prize has read, is one the user has had: then each step is one of `Ledger` or a stutter |
| `LedgerAddsUpCorrect` | `TotalsInv` | who is not registered has no credit yet, so that the gift row of his registration is the first he owns that counts |

`CardsProofs` - for any numbers of rows, columns and numbers: `TypeOK` and `FailsLate`, from `CardInv`.
A column adds at most one number to a row (`RowsKeepUp`), so a row is not full, and the
placement cannot throw, before `NumbersPerRow` columns are placed. `ReturnedIsValid`, from
`FillInv`: the counts of the columns and what remains to be distributed add up to the size of
the card (`CountsAddUp`), the rows hold what the columns placed so far hold (`RowsAddUp`), a row
counter counts cells (`RowsCounted`), and a placed column holds its own numbers
(`ColumnsFilled`). When all columns are placed the rows hold as many numbers as fit, so each is
full (`SumAtBound`), and columns with ranges of their own cannot share a number (`CountByParts`).

`SumTheorems` - the models write sums with `SumFunction` and `SumFunctionOnSet` of the community
modules, folds whose recursion chooses one element after the other. The prover has no
induction theorem to offer here: those of the library take an operator. So every induction is
first-order, by a smallest counterexample: a set of numbers, or of finite sets, that is not
empty has a smallest member (`SmallestNumber`, `SmallestSet`), and a family of sets with `{}`
that grows by single elements has them all (`OneByOne`). With it, a function that the fold's
recursion defines exists for every finite set (`SumsUpExists`), so `SumFunctionOnSet` is a sum
(`SumIsFold`); it does not depend on the choice (`AnyElementFirst`). The rest follows: one element
more or less, parts and the whole, equal shares, sums of two functions, sums at their bound, and
cardinalities counted by parts.

Only model-checked: liveness (`LobbyReopens`, `FillFlagCleared`, `MatchEnds`, `FullHouseAwarded`), as
fairness and ENABLED are beyond the prover. Every safety property of a passing run is a
theorem. The runs that fail stand for themselves; of the five promises they refute,
`CalledIsComplete`, `WithinCapacity` and `NoReferralPair` are proved without overlaps, and the two
pools up to the rounding of their shares, the line pool without bots.

## Not modelled

See `components` in `PROJECT.json`. Reads, formatting, logging and socket rooms change nothing
the properties speak about; snapshots, gateways, profiles and notifications do nothing
else. Beyond them:

* The restart of the process. Lobbies and tickers live in memory, no code restores either and
  no document says what should happen: a model would only say that they are gone.
* Code nothing calls: `refund`, `releaseUsername(s)`, `createReferral`, `updateCredit`,
  `sharedCount`, `sharedRowOverlap`.
* Which card a player gets, statistics of bots, tokens and hashing.
* Which room a fill is for is left to `Lobby`; `BotsToldApart` is about the bots of one fill. Two fills
  that overlap may both find a name free, and a fill that outlives a reset overlaps the next
  one of its room.

## Plan

1. `Lobby`, `Match`, `Bingo`: done.
2. `LobbyClock`, with the refinement of `Lobby`: done.
3. `Wallet` against `Ledger`, cents included in `Match`: done.
4. `Accounts`, and the names of bots in `Players`: done.
5. `Cards`: done.
6. Proofs of every safety property the runs check, with the refinements of `Bingo`, `Lobby`
   and `Ledger` and what they need to know of sums: done.
7. Left to prove: how often overlapping ticks may pay a pool at most.
8. Left to model: a restart of the process, once code handles one.
