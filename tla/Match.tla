------------------------------- MODULE Match -------------------------------
(***************************************************************************)
(* One running match: src/src/match/services/match.service.ts (from        *)
(* beginNumberCalling to the end), winner-detector.service.ts,             *)
(* number-caller.service.ts and match-prize.service.ts.                    *)
(*                                                                         *)
(* The ticker is a setInterval that calls the async tickMatch and does not *)
(* wait for it: when the database takes longer than the 1.5 s interval,    *)
(* several ticks are under way. A tick is a process with one action per    *)
(* call of the database, which takes effect at once, and one for the code  *)
(* that runs when the answer is there, where it uses the shared memory.    *)
(***************************************************************************)
EXTENDS Integers, Sequences, FiniteSets, Functions

CONSTANTS
  Players,      \* PlayerMatch rows of the match
  Bots,         \* those of bots (userId null)
  NONE,         \* null
  Numbers,      \* ALL_NUMBERS
  Cards,        \* [Players -> sets of cards]; a card is a set of rows, a row
                \*   a set of numbers
  FillerCounts, \* how many numbers are added to a predetermined order
  LinePool, FullPool, \* in the smallest unit a Decimal(15, 2) column keeps
  Ticks,        \* bound: ticks under way at once
  Faults,       \* awaits at which the database may fail
  MaxFaults     \* bound: how often

Numbered(card) == UNION card

ASSUME PlayersAssumption ==
  /\ IsFiniteSet(Players) /\ Bots \subseteq Players
  /\ NONE \notin Players
ASSUME CardsAssumption ==
  /\ IsFiniteSet(Numbers)
  /\ Cards \in [Players -> SUBSET SUBSET SUBSET Numbers]
  /\ \A p \in Players : \A card \in Cards[p] : card # {} /\ {} \notin card
ASSUME PoolsAssumption == {LinePool, FullPool} \subseteq Nat
ASSUME BoundsAssumption ==
  /\ FillerCounts \subseteq Nat /\ MaxFaults \in Nat
  /\ Faults \subseteq {"read", "persist", "lineread", "linetx", "fullread",
                       "fulltx", "reread", "finish"}

VARIABLES
  newPlayers, \* players whose User.isNewPlayer is set; never changes
  match,      \* the Match row: status, calledNumbers, lineWinnerId,
              \*   fullHouseWinnerId
  rows,       \* the MatchNumber rows: number and orderIndex
  flags,      \* PlayerMatch: line (lineWinner), full (fullHouseWinner), result
  paid,       \* line, full: what the WINNING and BOT_WINNING rows give a player
  begun,      \* beginNumberCalling has run
  running,    \* the ticker of the match exists
  order,      \* its predetermined order in memory, <<>> when there is none
  tick,       \* Ticks -> pc, what the tick read, and what it found
  faults      \* database failures so far

vars == <<newPlayers, match, rows, flags, paid, begun, running, order, tick, faults>>

-----------------------------------------------------------------------------
(* Types                                                                   *)

Status == {"STARTED", "LINE_COMPLETED", "COMPLETED"}
Result == {"PENDING", "LOST", "LINE_WINNER", "FULL_HOUSE_WINNER", "BOTH_WINNER"}

MatchRow == [status : Status, called : Seq(Numbers),
             lineWinner : Players \cup {NONE}, fullWinner : Players \cup {NONE}]

Flags == [line : SUBSET Players, full : SUBSET Players,
          result : [Players -> Result]]

TickPC == {"idle", "read", "pick", "persist", "check", "lineread", "linetx",
           "fullread", "fulltx", "fulldone", "reread", "ended", "finish", "stop"}

\* match and line, full: the last read of the rows; next: the number drawn;
\* winners: the winners found.
Tick == [pc : TickPC, match : MatchRow, line : SUBSET Players,
         full : SUBSET Players, next : Numbers \cup {NONE},
         winners : SUBSET Players]

TypeOK ==
  /\ newPlayers \subseteq Players \ Bots
  /\ match \in MatchRow
  /\ rows \subseteq Numbers \X Nat
  /\ flags \in Flags
  /\ paid \in [line : [Players -> Nat], full : [Players -> Nat]]
  /\ begun \in BOOLEAN /\ running \in BOOLEAN
  /\ order \in Seq(Numbers)
  /\ tick \in [Ticks -> Tick]
  /\ faults \in 0..MaxFaults

-----------------------------------------------------------------------------
(* Helpers                                                                 *)

Called(m) == Range(m.called)

\* WinnerDetectorService, on the set S of called numbers.
HasLine(p, S) == \E card \in Cards[p] : \E row \in card : row \subseteq S
HasFullHouse(p, S) == \E card \in Cards[p] : Numbered(card) \subseteq S

\* Mutant: the search stops at the first line found.
FirstLineWinner(pool, won, S) ==
  {CHOOSE p \in pool \ won : HasLine(p, S) : q \in {r \in pool \ won : HasLine(r, S)}}

\* Mutant: a line passes for a full house.
FindLineWinnersAgain(pool, won, S) == {p \in pool \ won : HasLine(p, S)}

FindLineWinners(pool, won, S) == {p \in pool \ won : HasLine(p, S)}
FindFullHouseWinners(pool, won, S) == {p \in pool \ won : HasFullHouse(p, S)}

\* Mutant: the ALL_NUMBERS it falls back to start at 0.
NextNumbersFromZero(called) == (0..(Cardinality(Numbers) - 1)) \ called

\* Mutant: the first number of the order is called again and again.
NextNumbersRepeated(called) ==
  IF order # <<>> THEN {order[1]} ELSE Numbers \ called

\* pickNext: the numbers it may return after the called ones, none when all
\* are called. A predetermined order is followed to its end.
NextNumbers(called) ==
  LET left == {i \in DOMAIN order : order[i] \notin called}
  IN IF left # {} THEN {order[i] : i \in {k \in left : \A l \in left : k <= l}}
                  ELSE Numbers \ called

EmptyMatch == [status |-> "STARTED", called |-> <<>>, lineWinner |-> NONE,
               fullWinner |-> NONE]

IdleTick == [pc |-> "idle", match |-> EmptyMatch, line |-> {}, full |-> {},
             next |-> NONE, winners |-> {}]

Goto(t, label) == tick' = [tick EXCEPT ![t].pc = label]
EndTick(t) == tick' = [tick EXCEPT ![t] = IdleTick]

\* Mutant: the filter of checkForWinners is gone.
PoolUnfiltered == Players

\* The players checkForWinners looks at.
Pool == IF order # <<>> THEN newPlayers ELSE Players

\* Mutant: lines are looked for until the match is over.
LineOpenToTheEnd(m) == m.status # "COMPLETED"

LineOpen(m) == m.lineWinner = NONE
FullOpen(m) == m.fullWinner = NONE

\* firstReal?.userId ?? undefined: undefined leaves the column as it is. The
\* rows of a match are read in no particular order.
RecordedWinners(winners, recorded) ==
  IF winners \subseteq Bots THEN {recorded} ELSE winners \ Bots

\* Mutant: the division is forgotten.
SettledWhole(amounts, winners, pool) ==
  [p \in Players |-> amounts[p] + IF p \in winners THEN pool ELSE 0]

\* A share of the pool, as the column rounds it.
PerWinner(pool, n) == (2 * pool + n) \div (2 * n)

\* The prize pool, split among the winners and settled for each of them.
Settled(amounts, winners, pool) ==
  [p \in Players |-> amounts[p] +
     IF p \in winners THEN PerWinner(pool, Cardinality(winners)) ELSE 0]

\* setPredeterminedOrder, on the numbers of the first card of some new player.
PredeterminedOrders(card) ==
  UNION {{s \in [1..Cardinality(S) -> S] : IsInjective(s)} :
           S \in {Numbered(card) \cup F :
                    F \in {G \in SUBSET (Numbers \ Numbered(card)) :
                             Cardinality(G) \in FillerCounts}}}

-----------------------------------------------------------------------------
Init ==
  /\ newPlayers \in SUBSET (Players \ Bots)
  /\ match = EmptyMatch
  /\ rows = {}
  /\ flags = [line |-> {}, full |-> {}, result |-> [p \in Players |-> "PENDING"]]
  /\ paid = [line |-> [p \in Players |-> 0], full |-> [p \in Players |-> 0]]
  /\ begun = FALSE /\ running = FALSE
  /\ order = <<>>
  /\ tick = [t \in Ticks |-> IdleTick]
  /\ faults = 0

-----------------------------------------------------------------------------
(* Actions                                                                 *)

\* beginNumberCalling. Only finalizeLobby calls it, once.
Begin ==
  /\ ~ begun
  /\ begun' = TRUE /\ running' = TRUE
  /\ \/ /\ newPlayers = {} \/ \E p \in newPlayers : Cards[p] = {}
        /\ order' = <<>>
     \/ \E p \in newPlayers : \E card \in Cards[p] :
          order' \in PredeterminedOrders(card)
  /\ UNCHANGED <<newPlayers, match, rows, flags, paid, tick, faults>>

\* The interval calls tickMatch whether the last call has returned or not.
Fire(t) ==
  /\ running
  /\ tick[t].pc = "idle"
  /\ Goto(t, "read")
  /\ UNCHANGED <<newPlayers, match, rows, flags, paid, begun, running, order, faults>>

ReadEnded(t) ==
  /\ tick[t].pc = "read"
  /\ match.status = "COMPLETED"
  /\ Goto(t, "ended")
  /\ UNCHANGED <<newPlayers, match, rows, flags, paid, begun, running, order, faults>>

Read(t) ==
  /\ tick[t].pc = "read"
  /\ match.status # "COMPLETED"
  /\ tick' = [tick EXCEPT ![t] = [pc |-> "pick", match |-> match, line |-> flags.line,
                                 full |-> flags.full, next |-> NONE, winners |-> {}]]
  /\ UNCHANGED <<newPlayers, match, rows, flags, paid, begun, running, order, faults>>

\* The match is there: pickNext, with the order as it is by now.
Pick(t) ==
  /\ tick[t].pc = "pick"
  /\ LET next == NextNumbers(Called(tick[t].match))
     IN \/ next = {} /\ Goto(t, "finish")
        \/ \E n \in next : tick' = [tick EXCEPT ![t].pc = "persist", ![t].next = n]
  /\ UNCHANGED <<newPlayers, match, rows, flags, paid, begun, running, order, faults>>

\* Mutant: checkForWinners returns on a line although the line is won.
CheckedLineAlways(k) ==
  LET S == Called(k.match) \cup {k.next}
      line == FindLineWinners(Pool, k.line, S)
      full == FindFullHouseWinners(Pool, k.full, S)
  IN IF line # {} THEN [k EXCEPT !.pc = "lineread", !.winners = line]
     ELSE IF FullOpen(k.match) /\ full # {}
       THEN [k EXCEPT !.pc = "fullread", !.winners = full]
     ELSE [k EXCEPT !.pc = "reread"]

\* checkForWinners, on what the tick read before it wrote the number.
Checked(k) ==
  LET S == Called(k.match) \cup {k.next}
      line == FindLineWinners(Pool, k.line, S)
      full == FindFullHouseWinners(Pool, k.full, S)
  IN IF LineOpen(k.match) /\ line # {}
       THEN [k EXCEPT !.pc = "lineread", !.winners = line]
     ELSE IF FullOpen(k.match) /\ full # {}
       THEN [k EXCEPT !.pc = "fullread", !.winners = full]
     ELSE [k EXCEPT !.pc = "reread"]

\* Mutant: orderIndex is the length of the new list.
NumberRowLate(k) == <<k.next, Len(k.match.called) + 1>>

\* Mutant: the two columns are swapped.
NumberRowSwapped(k) == <<Len(k.match.called), k.next>>

NumberRow(k) == <<k.next, Len(k.match.called)>>

Drawn == {row[1] : row \in rows}

\* calledNumbers is overwritten with what the tick computed from its read.
Persist(t) ==
  LET k == tick[t]
  IN /\ k.pc = "persist"
     /\ k.next \notin Drawn
     /\ match' = [match EXCEPT !.called = Append(k.match.called, k.next)]
     /\ rows' = rows \cup {NumberRow(k)}
     /\ Goto(t, "check")
     /\ UNCHANGED <<newPlayers, flags, paid, begun, running, order, faults>>

\* @@unique([matchId, number]): the update is rolled back, the tick fails.
PersistRejected(t) ==
  /\ tick[t].pc = "persist"
  /\ tick[t].next \in Drawn
  /\ EndTick(t)
  /\ UNCHANGED <<newPlayers, match, rows, flags, paid, begun, running, order, faults>>

\* The number is written: who wins, with the order as it is by now.
Check(t) ==
  /\ tick[t].pc = "check"
  /\ tick' = [tick EXCEPT ![t] = Checked(@)]
  /\ UNCHANGED <<newPlayers, match, rows, flags, paid, begun, running, order, faults>>

\* The read at the start of declareLineWinners and declareFullHouseWinners.
Reads(t, open, label) ==
  /\ tick' = [tick EXCEPT ![t].pc = IF open THEN label ELSE "reread",
                          ![t].match = match, ![t].line = flags.line,
                          ![t].full = flags.full]
  /\ UNCHANGED <<newPlayers, match, rows, flags, paid, begun, running, order, faults>>

LineRead(t) ==
  tick[t].pc = "lineread" /\ Reads(t, LineOpen(match), "linetx")

FullRead(t) ==
  tick[t].pc = "fullread" /\ Reads(t, FullOpen(match), "fulltx")

LineResults(k) ==
  [p \in Players |-> IF p \notin k.winners THEN flags.result[p]
                     ELSE IF p \in k.full THEN "BOTH_WINNER" ELSE "LINE_WINNER"]

LineTx(t) ==
  LET k == tick[t]
  IN /\ k.pc = "linetx"
     /\ \E w \in RecordedWinners(k.winners, match.lineWinner) :
          match' = [match EXCEPT
                      !.status = IF FullOpen(k.match) THEN "LINE_COMPLETED" ELSE "COMPLETED",
                      !.lineWinner = w]
     /\ flags' = [flags EXCEPT
                    !.line = @ \cup k.winners,
                    !.result = LineResults(k)]
     /\ paid' = [paid EXCEPT !.line = Settled(@, k.winners, LinePool)]
     /\ Goto(t, "reread")
     /\ UNCHANGED <<newPlayers, rows, begun, running, order, faults>>

FullResult(k, p) == IF p \in k.line THEN "BOTH_WINNER" ELSE "FULL_HOUSE_WINNER"

\* Mutant: the rest of the players is not marked.
FullResultsUnmarked(k) ==
  [p \in Players |-> IF p \in k.winners THEN FullResult(k, p) ELSE flags.result[p]]

FullResults(k) ==
  [p \in Players |-> IF p \in k.winners THEN FullResult(k, p)
                     ELSE IF flags.result[p] = "PENDING" THEN "LOST"
                     ELSE flags.result[p]]

FullTx(t) ==
  LET k == tick[t]
  IN /\ k.pc = "fulltx"
     /\ \E w \in RecordedWinners(k.winners, match.fullWinner) :
          match' = [match EXCEPT !.status = "COMPLETED", !.fullWinner = w]
     /\ flags' = [flags EXCEPT
                    !.full = @ \cup k.winners,
                    !.result = FullResults(k)]
     /\ paid' = [paid EXCEPT !.full = Settled(@, k.winners, FullPool)]
     /\ Goto(t, "fulldone")
     /\ UNCHANGED <<newPlayers, rows, begun, running, order, faults>>

\* Mutant: the ticker is left to the next read.
FullDoneTicking(t) ==
  /\ tick[t].pc = "fulldone"
  /\ order' = <<>>
  /\ Goto(t, "reread")
  /\ UNCHANGED <<newPlayers, match, rows, flags, paid, begun, running, faults>>

\* The transaction returned.
FullDone(t) ==
  /\ tick[t].pc = "fulldone"
  /\ order' = <<>> /\ running' = FALSE
  /\ Goto(t, "reread")
  /\ UNCHANGED <<newPlayers, match, rows, flags, paid, begun, faults>>

Reread(t) ==
  /\ tick[t].pc = "reread"
  /\ IF match.status = "COMPLETED" THEN Goto(t, "ended") ELSE EndTick(t)
  /\ UNCHANGED <<newPlayers, match, rows, flags, paid, begun, running, order, faults>>

\* The first or the last read of the tick answered that the match is over.
Ended(t) ==
  /\ tick[t].pc = "ended"
  /\ running' = FALSE
  /\ EndTick(t)
  /\ UNCHANGED <<newPlayers, match, rows, flags, paid, begun, order, faults>>

\* finishMatch, and what it and tickMatch do when its update returned.
Finish(t) ==
  /\ tick[t].pc = "finish"
  /\ match' = [match EXCEPT !.status = "COMPLETED"]
  /\ Goto(t, "stop")
  /\ UNCHANGED <<newPlayers, rows, flags, paid, begun, running, order, faults>>

Stop(t) ==
  /\ tick[t].pc = "stop"
  /\ running' = FALSE /\ order' = <<>>
  /\ EndTick(t)
  /\ UNCHANGED <<newPlayers, match, rows, flags, paid, begun, faults>>

\* The database call fails: the interval logs the error, the tick is over.
TickFails(t) ==
  /\ tick[t].pc \in Faults
  /\ faults < MaxFaults
  /\ faults' = faults + 1
  /\ EndTick(t)
  /\ UNCHANGED <<newPlayers, match, rows, flags, paid, begun, running, order>>

-----------------------------------------------------------------------------
TickStep(t) ==
  \/ Fire(t) \/ ReadEnded(t) \/ Read(t) \/ Pick(t) \/ Persist(t)
  \/ PersistRejected(t) \/ Check(t) \/ LineRead(t) \/ LineTx(t) \/ FullRead(t)
  \/ FullTx(t) \/ FullDone(t) \/ Reread(t) \/ Ended(t) \/ Finish(t) \/ Stop(t)

Next ==
  \/ Begin
  \/ \E t \in Ticks : TickStep(t) \/ TickFails(t)

Spec == Init /\ [][Next]_vars

\* The interval fires as long as it exists, every answer of the database is
\* handled in the end; whether a match begins is up to the lobby.
FairSpec == Spec /\ \A t \in Ticks : WF_vars(TickStep(t))

-----------------------------------------------------------------------------
(* Properties                                                              *)

\* A match whose ticks do not overlap plays the game of Bingo, whatever call
\* of the database fails: who wins, what is paid, and when the match ends.
Game == INSTANCE Bingo WITH
  newcomers <- newPlayers, called <- Called(match), line <- flags.line,
  full <- flags.full, taken <- (match.lineWinner # NONE),
  closed <- (match.status = "COMPLETED")
PlaysBingo == Game!Spec

\* Match.calledNumbers lists the numbers drawn, each at its orderIndex.
CalledMatchesRows ==
  rows = {<<match.called[i], i - 1>> : i \in DOMAIN match.called}

\* The result column of a player agrees with the two winner columns, and a
\* full house leaves nobody PENDING.
ResultsAgree ==
  \A p \in Players :
    /\ p \in flags.line \ flags.full => flags.result[p] = "LINE_WINNER"
    /\ p \in flags.full \ flags.line => flags.result[p] = "FULL_HOUSE_WINNER"
    /\ p \in flags.full \cap flags.line => flags.result[p] = "BOTH_WINNER"
    /\ p \notin flags.full \cup flags.line =>
         flags.result[p] = IF flags.full = {} THEN "PENDING" ELSE "LOST"

\* Once a real player is recorded as line winner, the line pool is closed.
LinePaidOnce ==
  [][match.lineWinner # NONE => UNCHANGED <<match.lineWinner, paid.line>>]_vars

\* A match that began is completed and its ticker stopped, however often the
\* database fails in between.
MatchEnds == begun ~> match.status = "COMPLETED" /\ ~ running

\* Only a failing database can deprive a match of its full house: it ends with
\* one whenever somebody who may win holds a card.
FullHouseAwarded ==
  begun /\ (\E p \in Pool : Cards[p] # {}) ~> flags.full # {} \/ faults > 0

\* However the ticks overlap, nobody is declared a winner who has not all the
\* numbers it takes among those drawn.
WinnersEarned ==
  /\ \A p \in flags.line : HasLine(p, Drawn)
  /\ \A p \in flags.full : HasFullHouse(p, Drawn)

\* "In a new-player match, only the new player can win", although the order
\* that marks such a match is dropped from memory when one tick ends it, with
\* another one still about to look for winners. All that lets others win is a
\* match that ran out of numbers.
NewPlayerOnly ==
  newPlayers # {} /\ (\A p \in newPlayers : Cards[p] # {})
    => flags.line \cup flags.full \subseteq newPlayers \/ Numbers \subseteq Drawn

\* Overlapping ticks may lose a number from calledNumbers, never invent one.
CalledWasDrawn == Called(match) \subseteq Drawn

\* A full house stops the ticker, even where an overlapping tick overwrites
\* the status COMPLETED: it runs only until the transaction has returned.
FullHouseStops ==
  flags.full # {} /\ running => \E t \in Ticks : tick[t].pc = "fulldone"

\* The winners of a full house share its pool, no more and no less than the
\* rounding of each share to cents (half a unit) explains.
FullPoolShared ==
  LET rest == SumFunction(paid.full) - FullPool
  IN flags.full # {} =>
       2 * rest \in -Cardinality(flags.full)..Cardinality(flags.full)

\* "ordered array of called numbers": no number drawn is missing from it.
CalledIsComplete == Drawn \subseteq Called(match)

\* "10% line prize pool": the line prizes of a match stay within it.
LinePoolKept == SumFunction(paid.line) <= LinePool

\* "80% full-house pool": the full-house prizes of a match stay within it.
FullPoolKept == SumFunction(paid.full) <= FullPool

=============================================================================
