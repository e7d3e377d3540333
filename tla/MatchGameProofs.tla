-------------------------- MODULE MatchGameProofs --------------------------
(***************************************************************************)
(* Who wins, for every value of the constants. NewPlayerOnly holds however *)
(* many ticks overlap: that only new players win is remembered by the      *)
(* predetermined order alone, which the tick that ends the match clears    *)
(* while others are still under way. Until the match runs out of numbers,  *)
(* whatever they find after that comes to nothing, as both prizes have     *)
(* their winners. With one tick at a time the match implements Bingo.      *)
(***************************************************************************)
EXTENDS MatchProofs, SumTheorems

\* A match of new players, each with a card.
Newcomers == newPlayers # {} /\ \A p \in newPlayers : Cards[p] # {}

BothWon(m) == m.lineWinner # NONE /\ m.fullWinner # NONE

\* What a tick has read is not undone, and its winners are new players, unless
\* the next read drops them.
WinsForNew(k, N, m) ==
  /\ k.line # {} => k.match.lineWinner # NONE
  /\ k.match.lineWinner # NONE => m.lineWinner # NONE
  /\ k.pc \in {"lineread", "fullread"} => k.winners \subseteq N \/ BothWon(m)
  /\ k.pc \in {"linetx", "fulltx"} => k.winners \subseteq N
  /\ k.pc \in {"lineread", "linetx", "fullread", "fulltx"} => k.winners # {}
  /\ k.pc \in {"fullread", "fulltx", "fulldone"} => m.lineWinner # NONE
  /\ k.pc = "fulldone" => m.fullWinner # NONE
  /\ k.pc \notin {"finish", "stop"}

\* The order is in memory until nobody else can win.
OpenInv ==
  /\ \A t \in Ticks : WinsForNew(tick[t], newPlayers, match)
  /\ flags.line \cup flags.full \subseteq newPlayers
  /\ flags.line # {} => match.lineWinner # NONE
  /\ begun /\ order = <<>> => BothWon(match)

RanOut == Numbers \subseteq Drawn

NewInv == RanOut \/ OpenInv

NewcomerInv == StopInv /\ DrawnInv /\ (Newcomers => NewInv)

-----------------------------------------------------------------------------
(* Operators                                                               *)

\* pickNext returns nothing only when all numbers are called.
LEMMA NothingLeft ==
  ASSUME TypeInv, NEW C, NextNumbers(C) = {}
  PROVE  Numbers \subseteq C
<1> DEFINE left == {i \in DOMAIN order : order[i] \notin C}
<1>1. left \subseteq Nat
  BY DEF TypeInv, TypeOK
<1>2. CASE left # {}
  <2>1. PICK i \in left : \A j \in left : ~ (<<j, i>> \in OpToRel(<, Nat))
    <3> HIDE DEF left
    <3> QED
      BY <1>1, <1>2, NatLessThanWellFounded, WFMin
  <2>2. ASSUME NEW j \in left PROVE i <= j
    <3>1. i \in Nat /\ j \in Nat
      BY <1>1
    <3>2. j < i => <<j, i>> \in OpToRel(<, Nat)
      BY <3>1 DEF OpToRel
    <3>3. ~ (j < i)
      BY <2>1, <3>2, Zenon
    <3> QED
      BY <3>1, <3>3
  <2>3. order[i] \in NextNumbers(C)
    BY <1>2, <2>2 DEF NextNumbers
  <2> QED
    BY <2>3
<1>3. CASE left = {}
  BY <1>3 DEF NextNumbers
<1> QED
  BY <1>2, <1>3

\* Who has a full house has a line.
LEMMA FullHouseHasLine ==
  ASSUME NEW p \in Players, NEW S, HasFullHouse(p, S)
  PROVE  HasLine(p, S)
BY CardsAssumption DEF HasFullHouse, HasLine, Numbered

\* A new player among the winners is recorded.
LEMMA RealRecorded ==
  ASSUME NEW W \in SUBSET (Players \ Bots), W # {}, NEW recorded, NEW w \in RecordedWinners(W, recorded)
  PROVE  w # NONE
BY PlayersAssumption DEF RecordedWinners

\* The order of a match of new players is not empty.
LEMMA OrderNotEmpty ==
  ASSUME NEW p \in Players, NEW card \in Cards[p], NEW s \in PredeterminedOrders(card)
  PROVE  s # <<>>
<1>1. PICK F \in SUBSET Numbers :
        s \in [1..Cardinality(Numbered(card) \cup F) -> Numbered(card) \cup F]
  BY DEF PredeterminedOrders
<1>2. Numbered(card) # {} /\ Numbered(card) \subseteq Numbers
  <2>1. card \subseteq SUBSET Numbers /\ card # {} /\ {} \notin card
    BY CardsAssumption
  <2>2. PICK row \in card : row # {}
    BY <2>1
  <2> QED
    BY <2>1, <2>2 DEF Numbered
<1>3. IsFiniteSet(Numbered(card) \cup F)
  BY <1>2, CardsAssumption, FS_Subset
<1>4. Cardinality(Numbered(card) \cup F) \in Nat \ {0}
  BY <1>2, <1>3, FS_CardinalityType, FS_EmptySet
<1>5. 1 \in DOMAIN s
  BY <1>1, <1>4
<1> QED
  BY <1>5

-----------------------------------------------------------------------------
(* What stays                                                              *)

\* Winners once recorded stay recorded, numbers drawn stay drawn.
LEMMA WinnersStay ==
  ASSUME TypeInv, NEW t \in Ticks, TickStep(t) \/ TickFails(t)
  PROVE  /\ match.lineWinner # NONE => match'.lineWinner # NONE
         /\ match.fullWinner # NONE => match'.fullWinner # NONE
         /\ Drawn \subseteq Drawn'
         /\ newPlayers' = newPlayers /\ begun' = begun
<1>0. /\ match \in MatchRow /\ tick[t] \in Tick
      /\ \A W \in SUBSET Players : \A r, w : w \in RecordedWinners(W, r) /\ r # NONE => w # NONE
  BY PlayersAssumption DEF TypeInv, TypeOK, RecordedWinners
<1>1. CASE Fire(t) \/ ReadEnded(t) \/ Read(t) \/ Pick(t) \/ PersistRejected(t)
           \/ Check(t) \/ Reread(t) \/ Ended(t)
  BY <1>1 DEF Fire, ReadEnded, Read, Pick, PersistRejected, Check, Reread, Ended, Drawn
<1>2. CASE LineRead(t) \/ FullRead(t)
  BY <1>2 DEF LineRead, FullRead, Reads, Drawn
<1>3. CASE Persist(t)
  BY <1>0, <1>3 DEF Persist, Drawn, MatchRow
<1>4. CASE LineTx(t)
  BY <1>0, <1>4 DEF LineTx, Drawn, MatchRow, Tick
<1>5. CASE FullTx(t)
  BY <1>0, <1>5 DEF FullTx, Drawn, MatchRow, Tick
<1>6. CASE Finish(t)
  BY <1>0, <1>6 DEF Finish, Drawn, MatchRow
<1>7. CASE FullDone(t) \/ Stop(t) \/ TickFails(t)
  BY <1>7 DEF FullDone, Stop, TickFails, Drawn
<1> QED
  BY <1>1, <1>2, <1>3, <1>4, <1>5, <1>6, <1>7 DEF TickStep

\* What one tick does leaves the others in order.
LEMMA WinsStay ==
  ASSUME TypeInv, NEW t \in Ticks, TickStep(t) \/ TickFails(t), NEW u \in Ticks \ {t},
         WinsForNew(tick[u], newPlayers, match)
  PROVE  WinsForNew(tick'[u], newPlayers, match')
<1>1. tick'[u] = tick[u]
  BY OthersStay
<1> QED
  BY <1>1, WinnersStay DEF WinsForNew, BothWon

LEMMA IdleWins == \A N, m : WinsForNew(IdleTick, N, m)
BY DEF WinsForNew, IdleTick, EmptyMatch

-----------------------------------------------------------------------------
(* The tick that takes the step                                            *)

\* The winners a tick finds when it has written its number. A full house is
\* looked at once the line is gone.
LEMMA CheckedWins ==
  ASSUME NewcomerInv, Newcomers, OpenInv, NEW t \in Ticks, Check(t)
  PROVE  WinsForNew(tick'[t], newPlayers, match')
<1> DEFINE k == tick[t]
           S == Called(k.match) \cup {k.next}
           line == FindLineWinners(Pool, k.line, S)
           full == FindFullHouseWinners(Pool, k.full, S)
<1>0. /\ TypeInv /\ k \in Tick /\ begun /\ WinsForNew(k, newPlayers, match)
  BY DEF NewcomerInv, StopInv, TypeInv, TypeOK, OpenInv, Check, QuietBefore
<1>1. tick'[t] = Checked(k) /\ match' = match
  BY <1>0 DEF Check, TypeInv, TypeOK
<1>2. order = <<>> => BothWon(match)
  BY <1>0 DEF OpenInv
<1>3. order # <<>> => line \subseteq newPlayers /\ full \subseteq newPlayers
  BY DEF Pool, FindLineWinners, FindFullHouseWinners
<1>4. ~ (LineOpen(k.match) /\ line # {}) /\ full # {} => match.lineWinner # NONE
  <2>1. SUFFICES ASSUME LineOpen(k.match), line = {}, full # {}, order # <<>>
                 PROVE  FALSE
    BY <1>0, <1>2 DEF WinsForNew, LineOpen, BothWon
  <2>2. PICK p \in full : TRUE
    BY <2>1
  <2>3. p \in Pool /\ p \in Players /\ HasFullHouse(p, S)
    BY <1>0, <2>1, <2>2 DEF FindFullHouseWinners, Pool, TypeInv, TypeOK
  <2>4. HasLine(p, S)
    BY <2>3, FullHouseHasLine
  <2>5. p \in k.line
    BY <2>1, <2>3, <2>4 DEF FindLineWinners
  <2> QED
    BY <1>0, <2>1, <2>5 DEF WinsForNew, LineOpen
<1>5. \/ /\ tick'[t] = [k EXCEPT !.pc = "lineread", !.winners = line]
         /\ line # {}
      \/ /\ tick'[t] = [k EXCEPT !.pc = "fullread", !.winners = full]
         /\ full # {} /\ match.lineWinner # NONE
      \/ tick'[t] = [k EXCEPT !.pc = "reread"]
  BY <1>1, <1>4 DEF Checked
<1> HIDE DEF line, full, S
<1>6. match' = match /\ k.pc = "check" /\ (order = <<>> \/ order # <<>>)
  BY <1>1 DEF Check
<1>7. CASE tick'[t] = [k EXCEPT !.pc = "lineread", !.winners = line] /\ line # {}
  BY <1>0, <1>2, <1>3, <1>6, <1>7 DEF WinsForNew, Tick
<1>8. CASE /\ tick'[t] = [k EXCEPT !.pc = "fullread", !.winners = full]
           /\ full # {} /\ match.lineWinner # NONE
  BY <1>0, <1>2, <1>3, <1>6, <1>8 DEF WinsForNew, Tick
<1>9. CASE tick'[t] = [k EXCEPT !.pc = "reread"]
  BY <1>0, <1>6, <1>9 DEF WinsForNew, Tick
<1> QED
  BY <1>5, <1>7, <1>8, <1>9

LEMMA TickWins ==
  ASSUME NewcomerInv, Newcomers, OpenInv, ~ RanOut', NEW t \in Ticks,
         TickStep(t) \/ TickFails(t)
  PROVE  WinsForNew(tick'[t], newPlayers, match')
<1> DEFINE k == tick[t]
<1>0. /\ TypeInv /\ k \in Tick /\ tick \in [Ticks -> Tick] /\ match \in MatchRow
      /\ WinsForNew(k, newPlayers, match)
      /\ newPlayers \subseteq Players \ Bots
  BY DEF NewcomerInv, StopInv, TypeInv, TypeOK, OpenInv
<1>1. /\ match.lineWinner # NONE => match'.lineWinner # NONE
      /\ match.fullWinner # NONE => match'.fullWinner # NONE
      /\ Drawn \subseteq Drawn'
  BY <1>0, WinnersStay
<1>2. CASE Fire(t) \/ ReadEnded(t) \/ Persist(t)
  <2>1. \E label \in {"read", "ended", "check"} : tick'[t] = [k EXCEPT !.pc = label]
    BY <1>0, <1>2 DEF Fire, ReadEnded, Persist, Goto
  <2> QED
    BY <1>0, <1>1, <2>1 DEF WinsForNew, Tick
<1>3. CASE PersistRejected(t) \/ Reread(t) \/ Ended(t) \/ Stop(t) \/ TickFails(t)
  <2>1. tick'[t] = IdleTick \/ tick'[t] = [k EXCEPT !.pc = "ended"]
    <3>1. EndTick(t) \/ Goto(t, "ended")
      BY <1>3 DEF PersistRejected, Reread, Ended, Stop, TickFails
    <3> QED
      BY <1>0, <3>1 DEF EndTick, Goto
  <2>2. CASE tick'[t] = [k EXCEPT !.pc = "ended"]
    BY <1>0, <1>1, <2>2 DEF WinsForNew, Tick
  <2> QED
    BY <2>1, <2>2, IdleWins
<1>4. CASE Read(t)
  <2>1. /\ tick'[t].match = match /\ tick'[t].line = flags.line
        /\ tick'[t].pc = "pick" /\ match' = match
    BY <1>0, <1>4 DEF Read
  <2> QED
    BY <2>1 DEF WinsForNew, OpenInv
<1>11. CASE Pick(t)
  <2>1. NextNumbers(Called(k.match)) # {}
    <3>1. Called(k.match) \subseteq Drawn
      BY DEF NewcomerInv, DrawnInv, RestsOn
    <3> QED
      BY <1>0, <1>1, <3>1, NothingLeft DEF RanOut
  <2>2. \E n : tick'[t] = [k EXCEPT !.pc = "persist", !.next = n]
    BY <1>0, <1>11, <2>1 DEF Pick
  <2> QED
    BY <1>0, <1>1, <2>2 DEF WinsForNew, Tick
<1>5. CASE Check(t)
  BY <1>5, CheckedWins
<1>6. CASE LineRead(t) \/ FullRead(t)
  <2>1. /\ tick'[t].match = match /\ tick'[t].line = flags.line /\ match' = match
        /\ tick'[t].winners = k.winners
        /\ \/ tick'[t].pc = "reread"
           \/ k.pc = "lineread" /\ tick'[t].pc = "linetx" /\ LineOpen(match)
           \/ k.pc = "fullread" /\ tick'[t].pc = "fulltx" /\ FullOpen(match)
    BY <1>0, <1>6 DEF LineRead, FullRead, Reads, Tick
  <2> QED
    BY <1>0, <2>1 DEF WinsForNew, BothWon, LineOpen, FullOpen, OpenInv
<1>7. CASE LineTx(t)
  <2>1. tick'[t] = [k EXCEPT !.pc = "reread"]
    BY <1>0, <1>7 DEF LineTx, Goto
  <2> QED
    BY <1>0, <1>1, <2>1 DEF WinsForNew, Tick
<1>8. CASE FullTx(t)
  <2>1. tick'[t] = [k EXCEPT !.pc = "fulldone"] /\ k.pc = "fulltx"
    BY <1>0, <1>8 DEF FullTx, Goto
  <2>2. match'.fullWinner # NONE
    <3>1. k.winners # {} /\ k.winners \in SUBSET (Players \ Bots)
      BY <1>0, <2>1 DEF WinsForNew
    <3>2. match'.fullWinner \in RecordedWinners(k.winners, match.fullWinner)
      BY <1>0, <1>8 DEF FullTx, MatchRow
    <3> QED
      BY <3>1, <3>2, RealRecorded
  <2> QED
    BY <1>0, <1>1, <2>1, <2>2 DEF WinsForNew, Tick
<1>9. CASE FullDone(t)
  <2>1. tick'[t] = [k EXCEPT !.pc = "reread"]
    BY <1>0, <1>9 DEF FullDone, Goto
  <2> QED
    BY <1>0, <1>1, <2>1 DEF WinsForNew, Tick
<1>10. CASE Finish(t)
  BY <1>0, <1>10 DEF Finish, WinsForNew
<1> QED
  BY <1>2, <1>3, <1>4, <1>5, <1>6, <1>7, <1>8, <1>9, <1>10, <1>11 DEF TickStep

-----------------------------------------------------------------------------
(* The match                                                               *)

\* Only new players are declared, and the first of a line is recorded.
LEMMA FlagsForNew ==
  ASSUME NewcomerInv, Newcomers, OpenInv, NEW t \in Ticks, TickStep(t) \/ TickFails(t)
  PROVE  /\ flags'.line \cup flags'.full \subseteq newPlayers
         /\ flags'.line # {} => match'.lineWinner # NONE
<1> DEFINE k == tick[t]
<1>0. /\ TypeInv /\ k \in Tick /\ match \in MatchRow /\ flags \in Flags
      /\ WinsForNew(k, newPlayers, match)
      /\ newPlayers \subseteq Players \ Bots
      /\ flags.line \cup flags.full \subseteq newPlayers
      /\ flags.line # {} => match.lineWinner # NONE
  BY DEF NewcomerInv, StopInv, TypeInv, TypeOK, OpenInv
<1>1. match.lineWinner # NONE => match'.lineWinner # NONE
  BY <1>0, WinnersStay
<1>2. CASE LineTx(t)
  <2>1. /\ flags'.line = flags.line \cup k.winners /\ flags'.full = flags.full
        /\ match'.lineWinner \in RecordedWinners(k.winners, match.lineWinner)
    BY <1>0, <1>2 DEF LineTx, Flags, MatchRow
  <2>2. k.winners # {} /\ k.winners \subseteq newPlayers
    BY <1>0, <1>2 DEF LineTx, WinsForNew
  <2>3. match'.lineWinner # NONE
    BY <1>0, <2>1, <2>2, RealRecorded
  <2> QED
    BY <1>0, <2>1, <2>2, <2>3
<1>3. CASE FullTx(t)
  <2>1. flags'.full = flags.full \cup k.winners /\ flags'.line = flags.line
    BY <1>0, <1>3 DEF FullTx, Flags
  <2>2. k.winners \subseteq newPlayers
    BY <1>0, <1>3 DEF FullTx, WinsForNew
  <2> QED
    BY <1>0, <1>1, <2>1, <2>2
<1>4. CASE ~ (LineTx(t) \/ FullTx(t))
  <2>1. flags' = flags
    <3>1. CASE Fire(t) \/ ReadEnded(t) \/ Read(t) \/ Pick(t) \/ Persist(t)
               \/ PersistRejected(t) \/ Check(t)
      BY <3>1 DEF Fire, ReadEnded, Read, Pick, Persist, PersistRejected, Check
    <3>2. CASE LineRead(t) \/ FullRead(t)
      BY <3>2 DEF LineRead, FullRead, Reads
    <3>3. CASE FullDone(t) \/ Reread(t) \/ Ended(t) \/ Finish(t) \/ Stop(t)
               \/ TickFails(t)
      BY <3>3 DEF FullDone, Reread, Ended, Finish, Stop, TickFails
    <3> QED
      BY <1>4, <3>1, <3>2, <3>3 DEF TickStep
  <2> QED
    BY <1>0, <1>1, <2>1
<1> QED
  BY <1>2, <1>3, <1>4

\* The order is dropped when nobody else can win.
LEMMA OrderDropped ==
  ASSUME NewcomerInv, Newcomers, OpenInv, NEW t \in Ticks, TickStep(t) \/ TickFails(t),
         begun', order' = <<>>
  PROVE  BothWon(match')
<1>0. /\ TypeInv /\ WinsForNew(tick[t], newPlayers, match)
      /\ match.lineWinner # NONE => match'.lineWinner # NONE
      /\ match.fullWinner # NONE => match'.fullWinner # NONE
      /\ begun
  BY WinnersStay DEF NewcomerInv, StopInv, OpenInv
<1>1. CASE FullDone(t)
  BY <1>0, <1>1 DEF FullDone, WinsForNew, BothWon
<1>2. CASE Stop(t)
  BY <1>0, <1>2 DEF Stop, WinsForNew
<1>3. CASE ~ (FullDone(t) \/ Stop(t))
  <2>1. order' = order
    <3>1. CASE Fire(t) \/ ReadEnded(t) \/ Read(t) \/ Pick(t) \/ Persist(t)
               \/ PersistRejected(t) \/ Check(t)
      BY <3>1 DEF Fire, ReadEnded, Read, Pick, Persist, PersistRejected, Check
    <3>2. CASE LineRead(t) \/ FullRead(t)
      BY <3>2 DEF LineRead, FullRead, Reads
    <3>3. CASE LineTx(t) \/ FullTx(t) \/ Finish(t) \/ Reread(t) \/ Ended(t)
               \/ TickFails(t)
      BY <3>3 DEF LineTx, FullTx, Finish, Reread, Ended, TickFails
    <3> QED
      BY <1>3, <3>1, <3>2, <3>3 DEF TickStep
  <2> QED
    BY <1>0, <2>1 DEF OpenInv, BothWon
<1> QED
  BY <1>1, <1>2, <1>3

-----------------------------------------------------------------------------
LEMMA NewcomerInit == Init => NewcomerInv
<1> SUFFICES ASSUME Init PROVE OpenInv
  BY StopInit, DrawnInit DEF NewcomerInv, NewInv
<1>1. \A t \in Ticks : tick[t] = IdleTick
  BY DEF Init
<1>2. flags.line = {} /\ flags.full = {} /\ ~ begun
  BY DEF Init
<1> QED
  BY <1>1, <1>2, IdleWins DEF OpenInv

LEMMA NewcomerStep == NewcomerInv /\ [Next]_vars => NewcomerInv'
<1> SUFFICES ASSUME NewcomerInv, [Next]_vars, Newcomers', ~ RanOut' PROVE OpenInv'
  BY StopStep, DrawnStep DEF NewcomerInv, NewInv
<1>0. newPlayers' = newPlayers /\ Newcomers /\ OpenInv /\ TypeInv
  <2>1. newPlayers' = newPlayers /\ Drawn \subseteq Drawn'
    <3>1. CASE Begin
      BY <3>1 DEF Begin, Drawn
    <3>2. CASE \E t \in Ticks : TickStep(t) \/ TickFails(t)
      BY <3>2, WinnersStay DEF NewcomerInv, StopInv
    <3>3. CASE UNCHANGED vars
      BY <3>3 DEF vars, Drawn
    <3> QED
      BY <3>1, <3>2, <3>3 DEF Next
  <2> QED
    BY <2>1 DEF Newcomers, NewcomerInv, NewInv, RanOut, StopInv
<1>1. CASE Begin
  <2>1. order' # <<>>
    BY <1>0, <1>1, OrderNotEmpty DEF Begin, Newcomers, TypeInv, TypeOK
  <2>2. UNCHANGED <<match, flags, tick>>
    BY <1>1 DEF Begin
  <2> QED
    BY <1>0, <2>1, <2>2 DEF OpenInv
<1>2. ASSUME NEW t \in Ticks, TickStep(t) \/ TickFails(t) PROVE OpenInv'
  <2>1. \A u \in Ticks : WinsForNew(tick'[u], newPlayers', match')
    BY <1>0, <1>2, TickWins, WinsStay DEF OpenInv
  <2>2. begun' /\ order' = <<>> => BothWon(match')
    BY <1>0, <1>2, OrderDropped
  <2>3. /\ flags'.line \cup flags'.full \subseteq newPlayers'
        /\ flags'.line # {} => match'.lineWinner # NONE
    BY <1>0, <1>2, FlagsForNew
  <2> QED
    BY <2>1, <2>2, <2>3 DEF OpenInv
<1>3. CASE UNCHANGED vars
  BY <1>0, <1>3 DEF vars, OpenInv
<1> QED
  BY <1>1, <1>2, <1>3 DEF Next

\* In a match of new players, each of whom has a card, nobody else wins before
\* every number is drawn, however many ticks overlap and although the order
\* that marks such a match is dropped while they run: NewPlayerOnly for every
\* instance.
THEOREM NewPlayerOnlyCorrect == Spec => []NewPlayerOnly
<1>1. NewcomerInv => NewPlayerOnly
  BY DEF NewcomerInv, NewInv, OpenInv, RanOut, Newcomers, NewPlayerOnly
<1>2. Spec => []NewcomerInv
  BY NewcomerInit, NewcomerStep, PTL DEF Spec
<1> QED
  BY <1>1, <1>2, PTL

-----------------------------------------------------------------------------
(* One tick at a time: the match plays Bingo                               *)

Over == match.status = "COMPLETED"

\* Line and full-house winners among those a tick looks at, by now.
LineNow == FindLineWinners(Pool, flags.line, Called(match))
FullNow == FindFullHouseWinners(Pool, flags.full, Called(match))

\* What the tick is about to write is what the game asks for.
PlaysFair(t) ==
  LET k == tick[t]
  IN /\ k.pc \in {"pick", "persist", "check", "lineread", "linetx", "fullread",
                  "fulltx", "finish"} => ~ Over
     /\ k.pc \in {"pick", "persist", "check"} => k.line = flags.line /\ k.full = flags.full
     /\ k.pc \in {"pick", "persist"} => k.match = match
     /\ k.pc = "check" =>
          /\ Called(match) = Called(k.match) \cup {k.next}
          /\ k.match.lineWinner = match.lineWinner
     /\ k.pc \in {"linetx", "fulltx"} => k.match = match
     /\ k.pc \in {"lineread", "linetx"} =>
          k.winners = LineNow /\ k.winners # {} /\ match.lineWinner = NONE
     /\ k.pc \in {"fullread", "fulltx"} =>
          /\ k.winners = FullNow /\ k.winners # {}
          /\ match.lineWinner # NONE \/ LineNow = {}
     /\ k.pc = "finish" => Numbers \subseteq Called(match)
     /\ k.pc \in {"fulldone", "stop"} => Over

\* Those the ticks look at are those who play for the prizes.
PoolEligible ==
  IF order # <<>> THEN newPlayers # {}
                  ELSE newPlayers = {} \/ \E p \in newPlayers : Cards[p] = {}

FairInv ==
  /\ \A t \in Ticks : PlaysFair(t)
  /\ match.fullWinner # NONE \/ flags.full # {} => Over
  /\ begun /\ ~ Over => PoolEligible

GameInv == SerialInv /\ StopInv /\ FairInv

LEMMA GameInvInit == Init => GameInv
<1> SUFFICES ASSUME Init PROVE FairInv
  BY SerialInit, StopInit DEF GameInv
<1>1. \A t \in Ticks : tick[t].pc = "idle"
  BY DEF Init, IdleTick
<1>2. match.fullWinner = NONE /\ flags.full = {} /\ ~ begun
  BY DEF Init, EmptyMatch
<1> QED
  BY <1>1, <1>2 DEF FairInv, PlaysFair

\* A tick that reads, draws, writes and checks changes nothing the checks rest
\* on but the numbers.
LEMMA FairRead ==
  ASSUME GameInv, NEW t \in Ticks, Read(t)
  PROVE  PlaysFair(t)'
<1>1. /\ UNCHANGED <<match, flags>> /\ ~ Over
      /\ tick'[t].pc = "pick" /\ tick'[t].match = match
      /\ tick'[t].line = flags.line /\ tick'[t].full = flags.full
  BY DEF GameInv, StopInv, TypeInv, TypeOK, Read, Over
<1> QED
  BY <1>1 DEF PlaysFair, Over

LEMMA FairPick ==
  ASSUME GameInv, NEW t \in Ticks, Pick(t)
  PROVE  PlaysFair(t)'
<1> DEFINE k == tick[t]
<1>0. /\ TypeInv /\ k \in Tick /\ tick \in [Ticks -> Tick]
      /\ UNCHANGED <<match, flags>> /\ ~ Over
      /\ k.match = match /\ k.line = flags.line /\ k.full = flags.full
  BY DEF GameInv, FairInv, PlaysFair, StopInv, TypeInv, TypeOK, Pick
<1>1. \/ tick'[t].pc = "finish" /\ NextNumbers(Called(match)) = {}
      \/ /\ tick'[t].pc = "persist" /\ tick'[t].match = match
         /\ tick'[t].line = flags.line /\ tick'[t].full = flags.full
  BY <1>0 DEF Pick, Goto, Tick
<1>2. tick'[t].pc = "finish" => Numbers \subseteq Called(match)
  BY <1>0, <1>1, NothingLeft
<1> QED
  BY <1>0, <1>1, <1>2 DEF PlaysFair, Over

\* What a persisted number changes of a match.
LEMMA PersistWrites ==
  ASSUME GameInv, NEW t \in Ticks, Persist(t)
  PROVE  /\ Called(match)' = Called(match) \cup {tick[t].next}
         /\ match'.status = match.status /\ match'.lineWinner = match.lineWinner
         /\ match'.fullWinner = match.fullWinner
         /\ UNCHANGED <<flags, order, newPlayers, paid>>
         /\ tick'[t] = [tick[t] EXCEPT !.pc = "check"] /\ tick[t].match = match
         /\ tick[t].line = flags.line /\ tick[t].full = flags.full
         /\ tick[t].next \in Numbers /\ tick[t].next \notin Called(match)
<1> DEFINE k == tick[t]
<1>0. /\ TypeInv /\ k \in Tick /\ match \in MatchRow /\ k.next \in Numbers
      /\ tick \in [Ticks -> Tick]
      /\ k.match = match /\ k.line = flags.line /\ k.full = flags.full
  BY DEF GameInv, StopInv, FairInv, PlaysFair, Persist, TypeInv, TypeOK, HasNumber
<1>1. /\ match' = [match EXCEPT !.called = Append(match.called, k.next)]
      /\ UNCHANGED <<flags, order, newPlayers, paid>>
      /\ tick'[t] = [k EXCEPT !.pc = "check"] /\ k.next \notin Drawn
  BY <1>0 DEF Persist, Goto
<1>2. match.called \in Seq(Numbers) /\ match'.called = Append(match.called, k.next)
  BY <1>0, <1>1 DEF MatchRow
<1>3. Called(match)' = Called(match) \cup {k.next}
  BY <1>0, <1>2, CalledAppend DEF Called
<1>4. match'.status = match.status /\ match'.lineWinner = match.lineWinner
      /\ match'.fullWinner = match.fullWinner
  BY <1>0, <1>1 DEF MatchRow
<1>5. Called(match) \subseteq Drawn
  <2>1. ASSUME NEW i \in DOMAIN match.called
        PROVE  match.called[i] \in Drawn
    <3>1. <<match.called[i], i - 1>> \in rows
      BY DEF GameInv, SerialInv, CalledMatchesRows
    <3>2. <<match.called[i], i - 1>>[1] = match.called[i]
      OBVIOUS
    <3> QED
      BY <3>1, <3>2 DEF Drawn
  <2> QED
    BY <2>1 DEF Called, Range
<1> QED
  BY <1>0, <1>1, <1>3, <1>4, <1>5

LEMMA FairPersist ==
  ASSUME GameInv, NEW t \in Ticks, Persist(t)
  PROVE  PlaysFair(t)'
<1> DEFINE k == tick[t]
<1>1. ~ Over /\ k \in Tick
  BY DEF GameInv, FairInv, PlaysFair, Persist, StopInv, TypeInv, TypeOK
<1>2. /\ tick'[t].pc = "check" /\ tick'[t].match = match /\ tick'[t].next = k.next
      /\ tick'[t].line = flags.line /\ tick'[t].full = flags.full /\ flags' = flags
      /\ Called(match)' = Called(match) \cup {k.next}
      /\ match'.status = match.status /\ match'.lineWinner = match.lineWinner
  BY <1>1, PersistWrites DEF Tick
<1> QED
  BY <1>1, <1>2 DEF PlaysFair, Over

LEMMA FairCheck ==
  ASSUME GameInv, NEW t \in Ticks, Check(t)
  PROVE  PlaysFair(t)'
<1> DEFINE k == tick[t]
           S == Called(k.match) \cup {k.next}
           line == FindLineWinners(Pool, k.line, S)
           full == FindFullHouseWinners(Pool, k.full, S)
<1>0. /\ ~ Over /\ k \in Tick /\ tick \in [Ticks -> Tick]
      /\ S = Called(match) /\ k.match.lineWinner = match.lineWinner
      /\ k.line = flags.line /\ k.full = flags.full
      /\ UNCHANGED <<match, flags, order, newPlayers>>
  BY DEF GameInv, FairInv, PlaysFair, Check, StopInv, TypeInv, TypeOK
<1>1. line = LineNow' /\ full = FullNow' /\ tick'[t] = Checked(k)
  BY <1>0 DEF Check, LineNow, FullNow, FindLineWinners, FindFullHouseWinners, Pool
<1>3. \/ /\ tick'[t] = [k EXCEPT !.pc = "lineread", !.winners = line]
         /\ line # {} /\ match.lineWinner = NONE
      \/ /\ tick'[t] = [k EXCEPT !.pc = "fullread", !.winners = full]
         /\ full # {} /\ (match.lineWinner # NONE \/ line = {})
      \/ tick'[t] = [k EXCEPT !.pc = "reread"]
  BY <1>0, <1>1 DEF Checked, LineOpen
<1> HIDE DEF line, full, S
<1>4. \/ /\ tick'[t].pc = "lineread" /\ tick'[t].winners = line
         /\ line # {} /\ match.lineWinner = NONE
      \/ /\ tick'[t].pc = "fullread" /\ tick'[t].winners = full
         /\ full # {} /\ (match.lineWinner # NONE \/ line = {})
      \/ tick'[t].pc = "reread"
  BY <1>0, <1>3 DEF Tick
<1> QED
  BY <1>0, <1>1, <1>4 DEF PlaysFair, Over

\* Every step of a tick leaves it about to play fair.
LEMMA FairTick ==
  ASSUME GameInv, NEW t \in Ticks, TickStep(t) \/ TickFails(t)
  PROVE  PlaysFair(t)'
<1> DEFINE k == tick[t]
<1>0. /\ TypeInv /\ k \in Tick /\ tick \in [Ticks -> Tick] /\ PlaysFair(t)
      /\ match \in MatchRow
  BY DEF GameInv, StopInv, FairInv, TypeInv, TypeOK
<1>1. CASE Fire(t) \/ ReadEnded(t)
  <2>1. tick'[t].pc \in {"read", "ended"}
    BY <1>0, <1>1 DEF Fire, ReadEnded, Goto, Tick
  <2> QED
    BY <2>1 DEF PlaysFair
<1>2. CASE PersistRejected(t) \/ Reread(t) \/ Ended(t) \/ Stop(t) \/ TickFails(t)
  <2>1. EndTick(t) \/ Goto(t, "ended")
    BY <1>2 DEF PersistRejected, Reread, Ended, Stop, TickFails
  <2>2. tick'[t].pc \in {"idle", "ended"}
    BY <1>0, <2>1 DEF EndTick, Goto, IdleTick, Tick
  <2> QED
    BY <2>2 DEF PlaysFair
<1>3. CASE Read(t) \/ Pick(t)
  BY <1>3, FairRead, FairPick
<1>4. CASE Persist(t) \/ Check(t)
  BY <1>4, FairPersist, FairCheck
<1>5. CASE LineRead(t) \/ FullRead(t)
  <2>1. /\ UNCHANGED <<match, flags, order, newPlayers>>
        /\ tick'[t].match = match /\ tick'[t].winners = k.winners
        /\ \/ tick'[t].pc = "reread"
           \/ k.pc = "lineread" /\ tick'[t].pc = "linetx"
           \/ k.pc = "fullread" /\ tick'[t].pc = "fulltx"
    BY <1>0, <1>5 DEF LineRead, FullRead, Reads, Tick
  <2> QED
    BY <1>0, <2>1 DEF PlaysFair, Over, LineNow, FullNow, Pool
<1>6. CASE LineTx(t)
  <2>1. tick'[t].pc = "reread"
    BY <1>0, <1>6 DEF LineTx, Goto, Tick
  <2> QED
    BY <2>1 DEF PlaysFair
<1>7. CASE FullTx(t)
  <2>1. tick'[t].pc = "fulldone" /\ match'.status = "COMPLETED"
    BY <1>0, <1>7 DEF FullTx, Goto, Tick, MatchRow
  <2> QED
    BY <2>1 DEF PlaysFair, Over
<1>8. CASE FullDone(t)
  <2>1. tick'[t].pc = "reread"
    BY <1>0, <1>8 DEF FullDone, Goto, Tick
  <2> QED
    BY <2>1 DEF PlaysFair
<1>9. CASE Finish(t)
  <2>1. tick'[t].pc = "stop" /\ match'.status = "COMPLETED"
    BY <1>0, <1>9 DEF Finish, Goto, Tick, MatchRow
  <2> QED
    BY <2>1 DEF PlaysFair, Over
<1> QED
  BY <1>1, <1>2, <1>3, <1>4, <1>5, <1>6, <1>7, <1>8, <1>9 DEF TickStep

\* What the two transactions change of a match.
LEMMA LineTxWrites ==
  ASSUME GameInv, NEW t \in Ticks, LineTx(t)
  PROVE  /\ Called(match)' = Called(match) /\ ~ Over /\ ~ Over'
         /\ match'.fullWinner = match.fullWinner
         /\ match'.lineWinner \in RecordedWinners(tick[t].winners, match.lineWinner)
         /\ flags'.line = flags.line \cup tick[t].winners /\ flags'.full = flags.full
         /\ paid' = [paid EXCEPT !.line = Settled(@, tick[t].winners, LinePool)]
         /\ UNCHANGED <<newPlayers, begun, order>>
<1> DEFINE k == tick[t]
<1>0. /\ k \in Tick /\ match \in MatchRow /\ flags \in Flags
      /\ ~ Over /\ k.match = match
  BY DEF GameInv, StopInv, FairInv, TypeInv, TypeOK, PlaysFair, LineTx
<1>1. match.fullWinner = NONE
  BY <1>0 DEF GameInv, FairInv
<1>2. PICK w \in RecordedWinners(k.winners, match.lineWinner) :
        match' = [match EXCEPT !.status = "LINE_COMPLETED", !.lineWinner = w]
  BY <1>0, <1>1 DEF LineTx, FullOpen
<1>3. /\ match'.called = match.called /\ match'.status = "LINE_COMPLETED"
      /\ match'.fullWinner = match.fullWinner /\ match'.lineWinner = w
  BY <1>0, <1>2 DEF MatchRow
<1>4. flags'.line = flags.line \cup k.winners /\ flags'.full = flags.full
  BY <1>0 DEF LineTx, Flags
<1> QED
  BY <1>0, <1>3, <1>4 DEF LineTx, Over, Called

LEMMA FullTxWrites ==
  ASSUME GameInv, NEW t \in Ticks, FullTx(t)
  PROVE  /\ Called(match)' = Called(match) /\ ~ Over /\ Over'
         /\ match'.lineWinner = match.lineWinner
         /\ flags'.full = tick[t].winners /\ flags'.line = flags.line
         /\ paid' = [paid EXCEPT !.full = Settled(@, tick[t].winners, FullPool)]
         /\ UNCHANGED <<newPlayers, begun, order>>
<1> DEFINE k == tick[t]
<1>0. /\ match \in MatchRow /\ flags \in Flags /\ ~ Over
  BY DEF GameInv, StopInv, FairInv, TypeInv, TypeOK, PlaysFair, FullTx
<1>1. flags.full = {}
  BY <1>0 DEF GameInv, FairInv
<1>2. PICK w : match' = [match EXCEPT !.status = "COMPLETED", !.fullWinner = w]
  BY DEF FullTx
<1>3. /\ match'.called = match.called /\ match'.status = "COMPLETED"
      /\ match'.lineWinner = match.lineWinner
  BY <1>0, <1>2 DEF MatchRow
<1>4. flags'.full = flags.full \cup k.winners /\ flags'.line = flags.line
  BY <1>0 DEF FullTx, Flags
<1> QED
  BY <1>0, <1>1, <1>3, <1>4 DEF FullTx, Over, Called

LEMMA FinishWrites ==
  ASSUME GameInv, NEW t \in Ticks, Finish(t)
  PROVE  /\ Called(match)' = Called(match) /\ Called(match) = Numbers /\ ~ Over /\ Over'
         /\ match'.lineWinner = match.lineWinner
         /\ UNCHANGED <<newPlayers, begun, order, flags, paid>>
<1>0. match \in MatchRow /\ ~ Over /\ Numbers \subseteq Called(match)
  BY DEF GameInv, StopInv, FairInv, TypeInv, TypeOK, PlaysFair, Finish
<1>1. /\ match'.called = match.called /\ match'.status = "COMPLETED"
      /\ match'.lineWinner = match.lineWinner
  BY <1>0 DEF Finish, MatchRow
<1>2. Called(match) \subseteq Numbers
  BY <1>0 DEF Called, Range, MatchRow
<1> QED
  BY <1>0, <1>1, <1>2 DEF Finish, Over, Called

\* The other steps of a tick leave the match, its winners and prizes alone.
LEMMA OtherWrites ==
  ASSUME GameInv, NEW t \in Ticks, TickStep(t) \/ TickFails(t),
         ~ Persist(t), ~ LineTx(t), ~ FullTx(t), ~ Finish(t)
  PROVE  /\ UNCHANGED <<newPlayers, begun, match, flags, paid>>
         /\ order' # order => Over
<1>1. CASE Fire(t) \/ ReadEnded(t) \/ Read(t) \/ Pick(t) \/ PersistRejected(t)
           \/ Check(t)
  BY <1>1 DEF Fire, ReadEnded, Read, Pick, PersistRejected, Check
<1>2. CASE LineRead(t) \/ FullRead(t)
  BY <1>2 DEF LineRead, FullRead, Reads
<1>3. CASE FullDone(t) \/ Stop(t)
  BY <1>3 DEF FullDone, Stop, GameInv, FairInv, PlaysFair
<1>4. CASE Reread(t) \/ Ended(t) \/ TickFails(t)
  BY <1>4 DEF Reread, Ended, TickFails
<1> QED
  BY <1>1, <1>2, <1>3, <1>4 DEF TickStep

LEMMA FairBegin == ASSUME GameInv, Begin PROVE FairInv'
<1>1. \A t \in Ticks : tick[t].pc = "idle"
  BY DEF GameInv, StopInv, QuietBefore, Begin
<1>2. UNCHANGED <<newPlayers, match, flags, tick>>
  BY DEF Begin
<1>3. PoolEligible'
  <2>1. CASE /\ newPlayers = {} \/ \E p \in newPlayers : Cards[p] = {}
             /\ order' = <<>>
    BY <1>2, <2>1 DEF PoolEligible
  <2>2. ASSUME NEW p \in newPlayers, NEW card \in Cards[p], order' \in PredeterminedOrders(card)
        PROVE  PoolEligible'
    <3>1. order' # <<>>
      BY <2>2, OrderNotEmpty DEF GameInv, StopInv, TypeInv, TypeOK
    <3> QED
      BY <1>2, <2>2, <3>1 DEF PoolEligible
  <2> QED
    BY <2>1, <2>2 DEF Begin
<1> QED
  BY <1>1, <1>2, <1>3 DEF GameInv, FairInv, PlaysFair, Over

LEMMA GameInvStep ==
  ASSUME \A t, u \in Ticks : t = u
  PROVE  GameInv /\ [Next]_vars => GameInv'
<1> SUFFICES ASSUME GameInv, [Next]_vars PROVE FairInv'
  BY SerialStep, StopStep DEF GameInv
<1>1. CASE Begin
  BY <1>1, FairBegin
<1>2. ASSUME NEW t \in Ticks, TickStep(t) \/ TickFails(t) PROVE FairInv'
  <2>1. \A u \in Ticks : PlaysFair(u)'
    <3>1. PlaysFair(t)'
      BY <1>2, FairTick
    <3> QED
      BY <3>1
  <2>2. /\ match'.fullWinner # NONE \/ flags'.full # {} => Over'
        /\ begun' = begun /\ newPlayers' = newPlayers
        /\ ~ Over' => ~ Over /\ order' = order
    <3>1. CASE Persist(t)
      BY <3>1, PersistWrites DEF GameInv, FairInv, Over, Persist
    <3>2. CASE LineTx(t)
      BY <3>2, LineTxWrites DEF GameInv, FairInv
    <3>3. CASE FullTx(t)
      BY <3>3, FullTxWrites
    <3>4. CASE Finish(t)
      BY <1>1, <3>4, FinishWrites
    <3>5. CASE ~ (Persist(t) \/ LineTx(t) \/ FullTx(t) \/ Finish(t))
      BY <1>2, <3>5, OtherWrites DEF GameInv, FairInv, Over
    <3> QED
      BY <3>1, <3>2, <3>3, <3>4, <3>5
  <2> QED
    BY <2>1, <2>2 DEF GameInv, FairInv, PoolEligible
<1>3. CASE UNCHANGED vars
  <2>1. \A t \in Ticks : PlaysFair(t)'
    BY <1>3 DEF vars, GameInv, FairInv, PlaysFair, Over, LineNow, FullNow, Pool
  <2> QED
    BY <1>3, <2>1 DEF vars, GameInv, FairInv, Over, PoolEligible
<1> QED
  BY <1>1, <1>2, <1>3 DEF Next

LEMMA GameInvCorrect ==
  ASSUME \A t, u \in Ticks : t = u PROVE Spec => []GameInv
<1>1. GameInv /\ [Next]_vars => GameInv'
  BY GameInvStep
<1> QED
  BY <1>1, GameInvInit, PTL DEF Spec

-----------------------------------------------------------------------------
(* The refinement                                                          *)

LEMMA GameInit == Init => Game!Init
<1> SUFFICES ASSUME Init PROVE Game!Init
  OBVIOUS
<1>1. Called(match) = {}
  BY DEF Init, EmptyMatch, Called, Range
<1>2. match.lineWinner = NONE /\ match.status = "STARTED"
  BY DEF Init, EmptyMatch
<1> QED
  BY <1>1, <1>2 DEF Init, Game!Init

\* Who may win in the match may win in the game.
LEMMA PoolInGame ==
  ASSUME PoolEligible
  PROVE  Pool \in Game!Eligible
BY DEF PoolEligible, Pool, Game!Eligible

LEMMA GameNewLines == Game!NewLines(Pool) = LineNow
BY DEF Game!NewLines, Game!HasLine, LineNow, FindLineWinners, HasLine

LEMMA GameFullHouses ==
  {p \in Pool : Game!HasFullHouse(p)} = {p \in Pool : HasFullHouse(p, Called(match))}
BY DEF Game!HasFullHouse, HasFullHouse, Numbered

LEMMA GameShare ==
  ASSUME NEW amounts, NEW W, NEW pool
  PROVE  Settled(amounts, W, pool) = Game!Share(amounts, W, pool)
<1> DEFINE n == Cardinality(W)
<1>1. Game!Share(amounts, W, pool) =
        [p \in Players |->
           amounts[p] + IF p \in W THEN (2 * pool + n) \div (2 * n) ELSE 0]
  BY DEF Game!Share, Game!Cardinality, Cardinality
<1>2. Settled(amounts, W, pool) =
        [p \in Players |->
           amounts[p] + IF p \in W THEN (2 * pool + n) \div (2 * n) ELSE 0]
  BY DEF Settled, PerWinner
<1> QED
  BY <1>1, <1>2

LEMMA GameCall ==
  ASSUME GameInv, NEW t \in Ticks, Persist(t)
  PROVE  Game!Next
<1>1. ~ Over
  BY DEF GameInv, FairInv, PlaysFair, Persist
<1>2. Game!Call(tick[t].next)
  BY PersistWrites DEF Game!Call
<1> QED
  BY <1>1, <1>2, PersistWrites DEF Game!Next, Over

\* The winners of a line are those of the game, and it is closed when one of
\* them is recorded.
LEMMA GameLine ==
  ASSUME GameInv, NEW t \in Ticks, LineTx(t)
  PROVE  Game!Next
<1> DEFINE W == tick[t].winners
<1>1. /\ W = LineNow /\ W # {} /\ match.lineWinner = NONE
  BY DEF GameInv, FairInv, PlaysFair, LineTx
<1>2. begun
  BY DEF GameInv, StopInv, QuietBefore, LineTx
<1>3. Pool \in Game!Eligible
  BY <1>2, LineTxWrites, PoolInGame DEF GameInv, FairInv
<1>4. W \subseteq Players
  BY DEF GameInv, StopInv, TypeInv, TypeOK, Tick
<1>5. (match'.lineWinner # NONE) = (W \ Bots # {})
  <2>1. match'.lineWinner \in RecordedWinners(W, NONE)
    BY <1>1, LineTxWrites
  <2>2. CASE W \subseteq Bots
    BY <2>1, <2>2 DEF RecordedWinners
  <2>3. CASE ~ (W \subseteq Bots)
    BY <1>4, <2>1, <2>3, PlayersAssumption DEF RecordedWinners
  <2> QED
    BY <2>2, <2>3
<1>6. paid' = [paid EXCEPT !.line = Game!Share(@, W, LinePool)]
  BY LineTxWrites, GameShare
<1>7. Game!AwardLine(W)
  BY <1>1, <1>5, <1>6, LineTxWrites DEF Game!AwardLine, Over
<1> QED
  BY <1>1, <1>3, <1>7, GameNewLines, LineTxWrites DEF Game!Next, Over

\* A full house is declared when no line is left to be, and ends the game.
LEMMA GameFull ==
  ASSUME GameInv, NEW t \in Ticks, FullTx(t)
  PROVE  Game!Next
<1> DEFINE W == tick[t].winners
<1>1. /\ W = FullNow /\ W # {}
      /\ \/ match.lineWinner # NONE
         \/ LineNow = {}
  BY DEF GameInv, FairInv, PlaysFair, FullTx
<1>2. begun
  BY DEF GameInv, StopInv, QuietBefore, FullTx
<1>3. Pool \in Game!Eligible
  BY <1>2, FullTxWrites, PoolInGame DEF GameInv, FairInv
<1>4. W = {p \in Pool : Game!HasFullHouse(p)}
  <2>1. flags.full = {}
    BY FullTxWrites DEF GameInv, FairInv
  <2>2. W = {p \in Pool : HasFullHouse(p, Called(match))}
    BY <1>1, <2>1 DEF FullNow, FindFullHouseWinners
  <2> QED
    BY <2>2, GameFullHouses
<1>5. paid' = [paid EXCEPT !.full = Game!Share(@, W, FullPool)]
  BY FullTxWrites, GameShare
<1> HIDE DEF W
<1>6. Game!AwardFullHouse(Pool)
  <2>1. Game!NewLines(Pool) = {} \/ match.lineWinner # NONE
    BY <1>1, GameNewLines
  <2>2. flags'.full = W /\ Over'
    BY FullTxWrites DEF W
  <2> QED
    BY <1>1, <1>4, <1>5, <2>1, <2>2, FullTxWrites DEF Game!AwardFullHouse, Over
<1> QED
  BY <1>3, <1>6, FullTxWrites DEF Game!Next, Over

LEMMA GameRunOut ==
  ASSUME GameInv, NEW t \in Ticks, Finish(t)
  PROVE  Game!Next
<1>1. Game!RunOut
  BY FinishWrites DEF Game!RunOut, Over
<1> QED
  BY <1>1, FinishWrites DEF Game!Next, Over

LEMMA GameStep ==
  ASSUME GameInv, [Next]_vars
  PROVE  [Game!Next]_(Game!vars)
<1>1. ASSUME UNCHANGED <<newPlayers, match, flags, paid>>
      PROVE  UNCHANGED Game!vars
  BY <1>1 DEF Game!vars, Called
<1>2. CASE Begin
  BY <1>1, <1>2 DEF Begin
<1>3. ASSUME NEW t \in Ticks, TickStep(t) \/ TickFails(t)
      PROVE  [Game!Next]_(Game!vars)
  <2>1. CASE Persist(t) \/ LineTx(t) \/ FullTx(t) \/ Finish(t)
    BY <2>1, GameCall, GameLine, GameFull, GameRunOut
  <2>2. CASE ~ (Persist(t) \/ LineTx(t) \/ FullTx(t) \/ Finish(t))
    BY <1>1, <1>3, <2>2, OtherWrites
  <2> QED
    BY <2>1, <2>2
<1>4. CASE UNCHANGED vars
  BY <1>1, <1>4 DEF vars
<1> QED
  BY <1>2, <1>3, <1>4 DEF Next

\* A match whose ticks do not overlap plays the game of Bingo, whatever calls
\* of the database fail: numbers, winners, prizes and the end are those the
\* game allows. PlaysBingo for every instance with one tick.
THEOREM PlaysBingoCorrect ==
  ASSUME \A t, u \in Ticks : t = u PROVE Spec => PlaysBingo
<1>1. Init => Game!Init
  BY GameInit
<1>2. GameInv /\ [Next]_vars => [Game!Next]_(Game!vars)
  BY GameStep
<1>3. Spec => []GameInv
  BY GameInvCorrect
<1> QED
  BY <1>1, <1>2, <1>3, PTL DEF Spec, PlaysBingo, Game!Spec

\* With one tick at a time the line prize is paid no more once a real player
\* is recorded as its winner: LinePaidOnce for every instance.
THEOREM LinePaidOnceCorrect ==
  ASSUME \A t, u \in Ticks : t = u PROVE Spec => LinePaidOnce
<1> DEFINE A == match.lineWinner # NONE => UNCHANGED <<match.lineWinner, paid.line>>
<1>1. ASSUME GameInv, [Next]_vars PROVE [A]_vars
  <2>1. CASE Begin
    BY <2>1 DEF Begin
  <2>2. ASSUME NEW t \in Ticks, TickStep(t) \/ TickFails(t) PROVE A
    <3>0. /\ match \in MatchRow
          /\ paid \in [line : [Players -> Nat], full : [Players -> Nat]]
      BY <1>1 DEF GameInv, StopInv, TypeInv, TypeOK
    <3>1. CASE Persist(t)
      BY <1>1, <3>0, <3>1, PersistWrites DEF MatchRow
    <3>2. CASE LineTx(t)
      <4>1. match.lineWinner = NONE
        BY <1>1, <3>2 DEF GameInv, FairInv, PlaysFair, LineTx
      <4> QED
        BY <4>1
    <3>3. CASE FullTx(t)
      BY <1>1, <3>0, <3>3, FullTxWrites DEF MatchRow
    <3>4. CASE Finish(t)
      BY <1>1, <3>4, FinishWrites
    <3>5. CASE ~ (Persist(t) \/ LineTx(t) \/ FullTx(t) \/ Finish(t))
      BY <1>1, <2>2, <3>5, OtherWrites
    <3> QED
      BY <3>1, <3>2, <3>3, <3>4, <3>5
  <2> QED
    BY <1>1, <2>1, <2>2 DEF Next
<1>2. Spec => []GameInv
  BY GameInvCorrect
<1> QED
  BY <1>1, <1>2, PTL DEF Spec, LinePaidOnce

-----------------------------------------------------------------------------
(* The full-house pool                                                     *)

\* Rounding a share moves what n winners get by half a unit each at most.
LEMMA SharesRound ==
  ASSUME NEW n \in Nat \ {0}, NEW pool \in Nat
  PROVE  /\ PerWinner(pool, n) \in Nat
         /\ 2 * (n * PerWinner(pool, n) - pool) \in -n..n
BY DEF PerWinner

LEMMA SettledShares ==
  ASSUME NEW W \in SUBSET Players, W # {}, NEW pool \in Nat,
         NEW amounts, \A p \in Players : amounts[p] = 0
  PROVE  2 * (SumFunction(Settled(amounts, W, pool)) - pool)
           \in -Cardinality(W)..Cardinality(W)
<1> DEFINE n == Cardinality(W)
           c == PerWinner(pool, n)
           paidOut == Settled(amounts, W, pool)
<1>1. IsFiniteSet(W) /\ n \in Nat \ {0}
  BY PlayersAssumption, FS_Subset, FS_CardinalityType, FS_EmptySet
<1>2. c \in Nat /\ 2 * (n * c - pool) \in -n..n
  BY <1>1, SharesRound
<1>3. DOMAIN paidOut = Players /\ \A p \in Players : paidOut[p] = IF p \in W THEN c ELSE 0
  BY <1>2 DEF Settled
<1>4. SumFunction(paidOut) = n * c
  <2> HIDE DEF c, n, paidOut
  <2>1. SumFunctionOnSet(paidOut, Players) = Cardinality(W) * c
    BY <1>2, <1>3, PlayersAssumption, SumOfShares
  <2> QED
    BY <1>3, <2>1 DEF SumFunction, n
<1> QED
  BY <1>2, <1>4

\* As long as nobody has a full house, its pool is untouched.
ShareInv ==
  /\ GameInv
  /\ flags.full = {} => \A p \in Players : paid.full[p] = 0
  /\ FullPoolShared

LEMMA ShareInvStep ==
  ASSUME \A t, u \in Ticks : t = u, ShareInv, [Next]_vars
  PROVE  ShareInv'
<1>1. GameInv'
  BY GameInvStep DEF ShareInv
<1>2. CASE \E t \in Ticks : FullTx(t)
  <2>1. PICK t \in Ticks : FullTx(t)
    BY <1>2
  <2> DEFINE W == tick[t].winners
  <2>2. /\ W \in SUBSET Players /\ W # {} /\ flags.full = {}
        /\ paid \in [line : [Players -> Nat], full : [Players -> Nat]]
    BY <2>1, FullTxWrites
       DEF ShareInv, GameInv, StopInv, TypeInv, TypeOK, Tick, FairInv, PlaysFair, FullTx
  <2>3. flags'.full = W /\ paid'.full = Settled(paid.full, W, FullPool)
    BY <2>1, <2>2, FullTxWrites DEF ShareInv
  <2>4. 2 * (SumFunction(Settled(paid.full, W, FullPool)) - FullPool)
          \in -Cardinality(W)..Cardinality(W)
    BY <2>2, PoolsAssumption, SettledShares DEF ShareInv
  <2> QED
    BY <1>1, <2>2, <2>3, <2>4 DEF ShareInv, FullPoolShared
<1>3. CASE ~ \E t \in Ticks : FullTx(t)
  <2>1. flags'.full = flags.full /\ paid'.full = paid.full
    <3>0. /\ flags \in Flags
          /\ paid \in [line : [Players -> Nat], full : [Players -> Nat]]
      BY DEF ShareInv, GameInv, StopInv, TypeInv, TypeOK
    <3>1. CASE Begin \/ UNCHANGED vars
      BY <3>1 DEF Begin, vars
    <3>2. ASSUME NEW t \in Ticks, TickStep(t) \/ TickFails(t) PROVE <2>1
      <4>1. CASE Persist(t)
        BY <4>1, PersistWrites DEF ShareInv
      <4>2. CASE LineTx(t)
        BY <3>0, <4>2, LineTxWrites DEF ShareInv
      <4>3. CASE Finish(t)
        BY <4>3, FinishWrites DEF ShareInv
      <4>4. CASE ~ (Persist(t) \/ LineTx(t) \/ FullTx(t) \/ Finish(t))
        BY <3>2, <4>4, OtherWrites DEF ShareInv
      <4> QED
        BY <1>3, <4>1, <4>2, <4>3, <4>4
    <3> QED
      BY <3>1, <3>2 DEF Next
  <2> QED
    BY <1>1, <2>1 DEF ShareInv, FullPoolShared
<1> QED
  BY <1>2, <1>3

\* With one tick at a time the winners of a full house share its pool, up to
\* half a unit of rounding for each of them: FullPoolShared for any players,
\* cards and pools.
THEOREM FullPoolSharedCorrect ==
  ASSUME \A t, u \in Ticks : t = u PROVE Spec => []FullPoolShared
<1>1. Init => ShareInv
  <2> SUFFICES ASSUME Init PROVE ShareInv
    OBVIOUS
  <2>1. flags.full = {} /\ \A p \in Players : paid.full[p] = 0
    BY DEF Init
  <2> QED
    BY <2>1, GameInvInit DEF ShareInv, FullPoolShared
<1>2. ShareInv /\ [Next]_vars => ShareInv'
  BY ShareInvStep
<1>3. ShareInv => FullPoolShared
  BY DEF ShareInv
<1> QED
  BY <1>1, <1>2, <1>3, PTL DEF Spec

-----------------------------------------------------------------------------
(* The line pool                                                           *)

\* The winners of a line share its pool, no more and no less than the rounding
\* of each share explains.
LinePoolShared ==
  LET rest == SumFunction(paid.line) - LinePool
  IN flags.line # {} =>
       2 * rest \in -Cardinality(flags.line)..Cardinality(flags.line)

\* Where no bot plays, whoever has the line is recorded and closes the pool.
LineInv ==
  /\ GameInv
  /\ flags.line = {} <=> match.lineWinner = NONE
  /\ flags.line = {} => \A p \in Players : paid.line[p] = 0
  /\ LinePoolShared

LEMMA LineInvStep ==
  ASSUME \A t, u \in Ticks : t = u, Bots = {}, LineInv, [Next]_vars
  PROVE  LineInv'
<1>1. GameInv'
  BY GameInvStep DEF LineInv
<1>2. CASE \E t \in Ticks : LineTx(t)
  <2>1. PICK t \in Ticks : LineTx(t)
    BY <1>2
  <2> DEFINE W == tick[t].winners
  <2>2. /\ W \in SUBSET Players /\ W # {} /\ match.lineWinner = NONE
        /\ paid \in [line : [Players -> Nat], full : [Players -> Nat]]
    BY <2>1 DEF LineInv, GameInv, StopInv, TypeInv, TypeOK, Tick, FairInv, PlaysFair, LineTx
  <2>3. flags.line = {}
    BY <2>2 DEF LineInv
  <2>4. flags'.line = W /\ paid'.line = Settled(paid.line, W, LinePool)
    BY <2>1, <2>2, <2>3, LineTxWrites DEF LineInv
  <2>5. match'.lineWinner # NONE
    <3>1. match'.lineWinner \in RecordedWinners(W, match.lineWinner)
      BY <2>1, LineTxWrites DEF LineInv
    <3> QED
      BY <2>2, <3>1, PlayersAssumption DEF RecordedWinners
  <2>6. 2 * (SumFunction(Settled(paid.line, W, LinePool)) - LinePool)
          \in -Cardinality(W)..Cardinality(W)
    BY <2>2, <2>3, PoolsAssumption, SettledShares DEF LineInv
  <2> QED
    BY <1>1, <2>2, <2>4, <2>5, <2>6 DEF LineInv, LinePoolShared
<1>3. CASE ~ \E t \in Ticks : LineTx(t)
  <2>1. /\ flags'.line = flags.line /\ paid'.line = paid.line
        /\ match'.lineWinner = match.lineWinner
    <3>0. /\ flags \in Flags
          /\ paid \in [line : [Players -> Nat], full : [Players -> Nat]]
      BY DEF LineInv, GameInv, StopInv, TypeInv, TypeOK
    <3>1. CASE Begin \/ UNCHANGED vars
      BY <3>1 DEF Begin, vars
    <3>2. ASSUME NEW t \in Ticks, TickStep(t) \/ TickFails(t) PROVE <2>1
      <4>1. CASE Persist(t)
        BY <4>1, PersistWrites DEF LineInv
      <4>2. CASE FullTx(t)
        BY <3>0, <4>2, FullTxWrites DEF LineInv
      <4>3. CASE Finish(t)
        BY <4>3, FinishWrites DEF LineInv
      <4>4. CASE ~ (Persist(t) \/ LineTx(t) \/ FullTx(t) \/ Finish(t))
        BY <3>2, <4>4, OtherWrites DEF LineInv
      <4> QED
        BY <1>3, <4>1, <4>2, <4>3, <4>4
    <3> QED
      BY <3>1, <3>2 DEF Next
  <2> QED
    BY <1>1, <2>1 DEF LineInv, LinePoolShared
<1> QED
  BY <1>2, <1>3

\* With one tick at a time, and no bot that could take the line alone, the
\* winners of the line share its pool up to half a unit of rounding each: bots
\* and overlaps are all that can have it paid again.
THEOREM LinePoolSharedCorrect ==
  ASSUME \A t, u \in Ticks : t = u, Bots = {} PROVE Spec => []LinePoolShared
<1>1. Init => LineInv
  <2> SUFFICES ASSUME Init PROVE LineInv
    OBVIOUS
  <2>1. /\ flags.line = {} /\ match.lineWinner = NONE
        /\ \A p \in Players : paid.line[p] = 0
    BY DEF Init, EmptyMatch
  <2> QED
    BY <2>1, GameInvInit DEF LineInv, LinePoolShared
<1>2. LineInv /\ [Next]_vars => LineInv'
  BY LineInvStep
<1>3. LineInv => LinePoolShared
  BY DEF LineInv
<1> QED
  BY <1>1, <1>2, <1>3, PTL DEF Spec
=============================================================================
