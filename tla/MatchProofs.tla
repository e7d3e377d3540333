---------------------------- MODULE MatchProofs ----------------------------
(***************************************************************************)
(* Theorems about Match, for any number of overlapping ticks and any       *)
(* failures of the database.                                               *)
(***************************************************************************)
EXTENDS Match, FiniteSetTheorems, SequenceTheorems, TLAPS

-----------------------------------------------------------------------------
(* Operators                                                               *)

\* What is called after a number was appended.
LEMMA CalledAppend ==
  ASSUME NEW s \in Seq(Numbers), NEW n \in Numbers
  PROVE  Range(Append(s, n)) = Range(s) \cup {n}
<1> DEFINE a == Append(s, n)
<1>1. /\ DOMAIN s = 1..Len(s) /\ DOMAIN a = 1..(Len(s) + 1) /\ Len(s) \in Nat
      /\ \A i \in 1..Len(s) : a[i] = s[i]
      /\ a[Len(s) + 1] = n
  OBVIOUS
<1> HIDE DEF a
<1>2. ASSUME NEW x \in Range(a) PROVE x \in Range(s) \cup {n}
  BY <1>1, <1>2 DEF Range
<1>3. ASSUME NEW x \in Range(s) PROVE x \in Range(a)
  BY <1>1, <1>3 DEF Range
<1>4. n \in Range(a)
  BY <1>1 DEF Range
<1> QED
  BY <1>2, <1>3, <1>4 DEF a

\* A larger set of numbers completes no fewer lines and full houses.
LEMMA Monotone ==
  ASSUME NEW p, NEW S, NEW T, S \subseteq T
  PROVE  /\ HasLine(p, S) => HasLine(p, T)
         /\ HasFullHouse(p, S) => HasFullHouse(p, T)
BY DEF HasLine, HasFullHouse

\* The shares of a pool are natural numbers, whoever wins.
LEMMA SettledType ==
  ASSUME NEW amounts \in [Players -> Nat], NEW W \in SUBSET Players, NEW pool \in Nat
  PROVE  Settled(amounts, W, pool) \in [Players -> Nat]
<1>1. IsFiniteSet(W) /\ Cardinality(W) \in Nat
  BY PlayersAssumption, FS_Subset, FS_CardinalityType
<1>2. ASSUME NEW p \in W PROVE Cardinality(W) # 0
  BY <1>1, FS_EmptySet
<1>3. ASSUME NEW n \in Nat, n # 0 PROVE PerWinner(pool, n) \in Nat
  <2>1. 2 * pool + n \in Nat /\ 2 * n \in Nat \ {0}
    BY <1>3
  <2>2. ASSUME NEW x \in Nat, NEW y \in Nat \ {0} PROVE x \div y \in Nat
    BY <2>2, SMT
  <2> QED
    BY <2>1, <2>2 DEF PerWinner
<1> QED
  BY <1>1, <1>2, <1>3 DEF Settled

\* A predetermined order is a sequence of numbers.
LEMMA OrderType ==
  ASSUME NEW p \in Players, NEW card \in Cards[p],
         NEW s \in PredeterminedOrders(card)
  PROVE  s \in Seq(Numbers)
<1>1. Numbered(card) \subseteq Numbers
  BY CardsAssumption DEF Numbered
<1>2. PICK F \in SUBSET Numbers :
        s \in [1..Cardinality(Numbered(card) \cup F) -> Numbered(card) \cup F]
  BY DEF PredeterminedOrders
<1>3. IsFiniteSet(Numbered(card) \cup F) /\ Cardinality(Numbered(card) \cup F) \in Nat
  BY <1>1, CardsAssumption, FS_Subset, FS_CardinalityType
<1>4. s \in [1..Cardinality(Numbered(card) \cup F) -> Numbers]
  BY <1>1, <1>2
<1> QED
  BY <1>3, <1>4, SeqDef

-----------------------------------------------------------------------------
(* Types                                                                   *)

\* A tick that is about to persist a number has drawn one.
HasNumber == \A t \in Ticks : tick[t].pc = "persist" => tick[t].next \in Numbers

TypeInv == TypeOK /\ HasNumber

LEMMA IdleTickType == IdleTick \in Tick /\ EmptyMatch \in MatchRow
BY DEF IdleTick, Tick, TickPC, EmptyMatch, MatchRow, Status

\* A step that replaces one tick, field by field.
LEMMA TickReplaced ==
  ASSUME TypeInv, NEW t \in Ticks, NEW r \in Tick,
         r.pc = "persist" => r.next \in Numbers,
         tick' = [tick EXCEPT ![t] = r]
  PROVE  tick' \in [Ticks -> Tick] /\ HasNumber'
BY DEF TypeInv, TypeOK, HasNumber

\* A step that only moves one tick on.
LEMMA TickMoved ==
  ASSUME TypeInv, NEW t \in Ticks, NEW label \in TickPC \ {"persist"}, Goto(t, label)
  PROVE  tick' \in [Ticks -> Tick] /\ HasNumber'
<1> DEFINE r == [tick[t] EXCEPT !.pc = label]
<1>1. r \in Tick /\ r.pc # "persist"
  BY DEF TypeInv, TypeOK, Tick
<1>2. tick' = [tick EXCEPT ![t] = r]
  BY DEF Goto
<1> QED
  BY <1>1, <1>2, TickReplaced

LEMMA TickEnded ==
  ASSUME TypeInv, NEW t \in Ticks, EndTick(t)
  PROVE  tick' \in [Ticks -> Tick] /\ HasNumber'
<1>1. IdleTick.pc # "persist"
  BY DEF IdleTick
<1> QED
  BY <1>1, IdleTickType, TickReplaced DEF EndTick

LEMMA TypeInit == Init => TypeInv
<1> SUFFICES ASSUME Init PROVE TypeInv
  OBVIOUS
<1>1. tick \in [Ticks -> Tick] /\ HasNumber
  BY IdleTickType DEF Init, HasNumber, IdleTick
<1>2. flags \in Flags /\ paid \in [line : [Players -> Nat], full : [Players -> Nat]]
  BY DEF Init, Flags, Result
<1>3. faults \in 0..MaxFaults
  BY BoundsAssumption DEF Init
<1>4. order \in Seq(Numbers)
  BY DEF Init
<1> QED
  BY <1>1, <1>2, <1>3, <1>4, IdleTickType DEF Init, TypeInv, TypeOK

LEMMA TypeBegin == ASSUME TypeInv, Begin PROVE TypeInv'
<1>1. order' \in Seq(Numbers)
  <2>1. CASE order' = <<>>
    BY <2>1
  <2>2. CASE \E p \in newPlayers : \E card \in Cards[p] : order' \in PredeterminedOrders(card)
    BY <2>2, OrderType DEF TypeInv, TypeOK
  <2> QED
    BY <2>1, <2>2 DEF Begin
<1> QED
  BY <1>1 DEF Begin, TypeInv, TypeOK, HasNumber

\* What the tick reads.
LEMMA TypeRead == ASSUME TypeInv, NEW t \in Ticks, Read(t) PROVE TypeInv'
<1> DEFINE r == [pc |-> "pick", match |-> match, line |-> flags.line,
                 full |-> flags.full, next |-> NONE, winners |-> {}]
<1>1. r \in Tick /\ r.pc # "persist"
  BY DEF TypeInv, TypeOK, Tick, TickPC, Flags
<1>2. tick' \in [Ticks -> Tick] /\ HasNumber'
  BY <1>1, TickReplaced DEF Read
<1> QED
  BY <1>2 DEF Read, TypeInv, TypeOK

\* What it draws.
LEMMA TypePick == ASSUME TypeInv, NEW t \in Ticks, Pick(t) PROVE TypeInv'
<1>1. tick[t] \in Tick /\ order \in Seq(Numbers)
  BY DEF TypeInv, TypeOK
<1>2. \A n \in NextNumbers(Called(tick[t].match)) : n \in Numbers
  BY <1>1 DEF NextNumbers
<1>3. tick' \in [Ticks -> Tick] /\ HasNumber'
  <2>1. CASE Goto(t, "finish")
    BY <2>1, TickMoved DEF TickPC
  <2>2. ASSUME NEW n \in NextNumbers(Called(tick[t].match)),
               tick' = [tick EXCEPT ![t].pc = "persist", ![t].next = n]
        PROVE  tick' \in [Ticks -> Tick] /\ HasNumber'
    <3> DEFINE r == [tick[t] EXCEPT !.pc = "persist", !.next = n]
    <3>1. r \in Tick /\ r.next \in Numbers
      BY <1>1, <1>2 DEF Tick, TickPC
    <3>2. tick' = [tick EXCEPT ![t] = r]
      BY <2>2 DEF TypeInv, TypeOK
    <3> HIDE DEF r
    <3> QED
      BY <3>1, <3>2, TickReplaced
  <2> QED
    BY <2>1, <2>2 DEF Pick
<1> QED
  BY <1>3 DEF Pick, TypeInv, TypeOK

\* checkForWinners keeps what the tick read and finds players.
LEMMA CheckedType ==
  ASSUME NEW k \in Tick, TypeInv
  PROVE  /\ Checked(k) \in Tick
         /\ Checked(k).pc \in {"lineread", "fullread", "reread"}
         /\ Checked(k).match = k.match
<1> DEFINE S == Called(k.match) \cup {k.next}
           line == FindLineWinners(Pool, k.line, S)
           full == FindFullHouseWinners(Pool, k.full, S)
<1>1. line \subseteq Players /\ full \subseteq Players
  BY DEF TypeInv, TypeOK, Pool, FindLineWinners, FindFullHouseWinners
<1> HIDE DEF line, full
<1>2. \/ Checked(k) = [k EXCEPT !.pc = "lineread", !.winners = line]
      \/ Checked(k) = [k EXCEPT !.pc = "fullread", !.winners = full]
      \/ Checked(k) = [k EXCEPT !.pc = "reread"]
  BY DEF Checked, line, full
<1> QED
  BY <1>1, <1>2 DEF Tick, TickPC

LEMMA TypePersist == ASSUME TypeInv, NEW t \in Ticks, Persist(t) PROVE TypeInv'
<1> DEFINE k == tick[t]
<1>1. k.next \in Numbers /\ k.match.called \in Seq(Numbers)
  BY DEF Persist, TypeInv, TypeOK, HasNumber, Tick, MatchRow
<1>2. tick' \in [Ticks -> Tick] /\ HasNumber'
  BY TickMoved DEF Persist, TickPC
<1>3. match' \in MatchRow
  <2>1. Append(k.match.called, k.next) \in Seq(Numbers)
    BY <1>1
  <2> QED
    BY <2>1 DEF Persist, TypeInv, TypeOK, MatchRow
<1>4. rows' \subseteq Numbers \X Nat
  BY <1>1 DEF Persist, NumberRow, TypeInv, TypeOK
<1> QED
  BY <1>2, <1>3, <1>4 DEF Persist, TypeInv, TypeOK

LEMMA TypeCheck == ASSUME TypeInv, NEW t \in Ticks, Check(t) PROVE TypeInv'
<1> DEFINE k == tick[t]
<1>1. k \in Tick
  BY DEF TypeInv, TypeOK
<1>2. Checked(k) \in Tick /\ Checked(k).pc # "persist"
  BY <1>1, CheckedType
<1>3. tick' \in [Ticks -> Tick] /\ HasNumber'
  BY <1>2, TickReplaced DEF Check
<1> QED
  BY <1>3 DEF Check, TypeInv, TypeOK

\* The reads of the declarations.
LEMMA ReadsType ==
  ASSUME TypeInv, NEW t \in Ticks, NEW open \in BOOLEAN,
         NEW label \in TickPC \ {"persist"}, Reads(t, open, label)
  PROVE  TypeInv'
<1> DEFINE r == [tick[t] EXCEPT !.pc = IF open THEN label ELSE "reread",
                                !.match = match, !.line = flags.line,
                                !.full = flags.full]
<1> DEFINE next == IF open THEN label ELSE "reread"
<1>0. next \in TickPC \ {"persist"}
  BY DEF TickPC
<1>1. r \in Tick /\ r.pc # "persist"
  <2>1. tick[t] \in Tick /\ match \in MatchRow /\ flags \in Flags
    BY DEF TypeInv, TypeOK
  <2> HIDE DEF next
  <2>2. [tick[t] EXCEPT !.pc = next, !.match = match, !.line = flags.line,
                        !.full = flags.full] \in Tick
    BY <1>0, <2>1 DEF Tick, Flags
  <2>3. [tick[t] EXCEPT !.pc = next, !.match = match, !.line = flags.line,
                        !.full = flags.full].pc = next
    BY <2>1 DEF Tick
  <2> QED
    BY <1>0, <2>2, <2>3 DEF next
<1>2. tick' = [tick EXCEPT ![t] = r]
  BY DEF Reads, TypeInv, TypeOK, Tick
<1>3. tick' \in [Ticks -> Tick] /\ HasNumber'
  BY <1>1, <1>2, TickReplaced
<1> QED
  BY <1>3 DEF Reads, TypeInv, TypeOK

LEMMA TypeLineTx == ASSUME TypeInv, NEW t \in Ticks, LineTx(t) PROVE TypeInv'
<1> DEFINE k == tick[t]
<1>1. k.winners \in SUBSET Players
  BY DEF TypeInv, TypeOK, Tick
<1>2. tick' \in [Ticks -> Tick] /\ HasNumber'
  BY TickMoved DEF LineTx, TickPC
<1>3. match' \in MatchRow
  <2>1. ASSUME NEW w \in RecordedWinners(k.winners, match.lineWinner)
        PROVE  w \in Players \cup {NONE}
    BY <1>1 DEF RecordedWinners, TypeInv, TypeOK, MatchRow
  <2> QED
    BY <2>1 DEF LineTx, TypeInv, TypeOK, MatchRow, Status
<1>4. flags' \in Flags
  <2>1. LineResults(k) \in [Players -> Result]
    BY DEF LineResults, TypeInv, TypeOK, Flags, Result
  <2> QED
    BY <1>1, <2>1 DEF LineTx, TypeInv, TypeOK, Flags
<1>5. paid' \in [line : [Players -> Nat], full : [Players -> Nat]]
  BY <1>1, SettledType, PoolsAssumption DEF LineTx, TypeInv, TypeOK
<1> QED
  BY <1>2, <1>3, <1>4, <1>5 DEF LineTx, TypeInv, TypeOK

LEMMA TypeFullTx == ASSUME TypeInv, NEW t \in Ticks, FullTx(t) PROVE TypeInv'
<1> DEFINE k == tick[t]
<1>1. k.winners \in SUBSET Players
  BY DEF TypeInv, TypeOK, Tick
<1>2. tick' \in [Ticks -> Tick] /\ HasNumber'
  BY TickMoved DEF FullTx, TickPC
<1>3. match' \in MatchRow
  <2>1. ASSUME NEW w \in RecordedWinners(k.winners, match.fullWinner)
        PROVE  w \in Players \cup {NONE}
    BY <1>1 DEF RecordedWinners, TypeInv, TypeOK, MatchRow
  <2> QED
    BY <2>1 DEF FullTx, TypeInv, TypeOK, MatchRow, Status
<1>4. flags' \in Flags
  <2>1. FullResults(k) \in [Players -> Result]
    BY DEF FullResults, FullResult, TypeInv, TypeOK, Flags, Result
  <2> QED
    BY <1>1, <2>1 DEF FullTx, TypeInv, TypeOK, Flags
<1>5. paid' \in [line : [Players -> Nat], full : [Players -> Nat]]
  BY <1>1, SettledType, PoolsAssumption DEF FullTx, TypeInv, TypeOK
<1> QED
  BY <1>2, <1>3, <1>4, <1>5 DEF FullTx, TypeInv, TypeOK

\* The types are inductive.
LEMMA TypeStep == TypeInv /\ [Next]_vars => TypeInv'
<1> SUFFICES ASSUME TypeInv, [Next]_vars PROVE TypeInv'
  OBVIOUS
<1>1. CASE Begin
  BY <1>1, TypeBegin
<1>2. ASSUME NEW t \in Ticks, Fire(t) \/ ReadEnded(t) \/ Reread(t) PROVE TypeInv'
  <2>1. (\E label \in {"read", "ended"} : Goto(t, label)) \/ EndTick(t)
    BY <1>2 DEF Fire, ReadEnded, Reread
  <2>2. tick' \in [Ticks -> Tick] /\ HasNumber'
    BY <2>1, TickMoved, TickEnded DEF TickPC
  <2>3. UNCHANGED <<newPlayers, match, rows, flags, paid, begun, running, order, faults>>
    BY <1>2 DEF Fire, ReadEnded, Reread
  <2> QED
    BY <2>2, <2>3 DEF TypeInv, TypeOK
<1>3. ASSUME NEW t \in Ticks,
             PersistRejected(t) \/ Ended(t) \/ Stop(t) \/ TickFails(t)
      PROVE  TypeInv'
  <2>1. EndTick(t)
    BY <1>3 DEF PersistRejected, Ended, Stop, TickFails
  <2>2. tick' \in [Ticks -> Tick] /\ HasNumber'
    BY <2>1, TickEnded
  <2>3. running' \in BOOLEAN /\ order' \in Seq(Numbers)
    <3>1. running' \in BOOLEAN
      BY <1>3 DEF PersistRejected, Ended, Stop, TickFails, TypeInv, TypeOK
    <3>2. order' = order \/ order' = <<>>
      BY <1>3 DEF PersistRejected, Ended, Stop, TickFails
    <3> QED
      BY <3>1, <3>2, EmptySeq DEF TypeInv, TypeOK
  <2>4. faults' \in 0..MaxFaults
    BY <1>3, BoundsAssumption
       DEF PersistRejected, Ended, Stop, TickFails, TypeInv, TypeOK
  <2>5. UNCHANGED <<newPlayers, match, rows, flags, paid, begun>>
    BY <1>3 DEF PersistRejected, Ended, Stop, TickFails
  <2> QED
    BY <2>2, <2>3, <2>4, <2>5 DEF TypeInv, TypeOK
<1>4. ASSUME NEW t \in Ticks, Read(t) \/ Pick(t) PROVE TypeInv'
  BY <1>4, TypeRead, TypePick
<1>5. ASSUME NEW t \in Ticks, Persist(t) \/ Check(t) PROVE TypeInv'
  BY <1>5, TypePersist, TypeCheck
<1>6. ASSUME NEW t \in Ticks, LineRead(t) PROVE TypeInv'
  BY <1>6, ReadsType DEF LineRead, LineOpen, TickPC
<1>7. ASSUME NEW t \in Ticks, FullRead(t) PROVE TypeInv'
  BY <1>7, ReadsType DEF FullRead, FullOpen, TickPC
<1>8. ASSUME NEW t \in Ticks, LineTx(t) PROVE TypeInv'
  BY <1>8, TypeLineTx
<1>9. ASSUME NEW t \in Ticks, FullTx(t) PROVE TypeInv'
  BY <1>9, TypeFullTx
<1>10. ASSUME NEW t \in Ticks, FullDone(t) PROVE TypeInv'
  <2>2. order' \in Seq(Numbers) /\ running' \in BOOLEAN
    BY <1>10, EmptySeq DEF FullDone
  <2>1. tick' \in [Ticks -> Tick] /\ HasNumber'
    BY <1>10, TickMoved DEF FullDone, TickPC
  <2> QED
    BY <1>10, <2>1, <2>2 DEF FullDone, TypeInv, TypeOK
<1>11. ASSUME NEW t \in Ticks, Finish(t) PROVE TypeInv'
  <2>1. tick' \in [Ticks -> Tick] /\ HasNumber'
    BY <1>11, TickMoved DEF Finish, TickPC
  <2> QED
    BY <1>11, <2>1 DEF Finish, TypeInv, TypeOK, MatchRow, Status
<1>12. CASE UNCHANGED vars
  BY <1>12 DEF vars, TypeInv, TypeOK, HasNumber
<1> QED
  BY <1>1, <1>2, <1>3, <1>4, <1>5, <1>6, <1>7, <1>8, <1>9, <1>10, <1>11, <1>12
     DEF Next, TickStep

\* Every variable of a match keeps its type, whatever ticks overlap.
THEOREM MatchTypeCorrect == Spec => []TypeOK
<1>1. Spec => []TypeInv
  BY TypeInit, TypeStep, PTL DEF Spec
<1> QED
  BY <1>1, PTL DEF TypeInv

-----------------------------------------------------------------------------
(* Winners                                                                 *)

\* What a tick has read and found rests on the numbers of D.
RestsOn(k, D) ==
  /\ Called(k.match) \subseteq D
  /\ k.pc = "check" => k.next \in D
  /\ k.pc \in {"lineread", "linetx"} => \A p \in k.winners : HasLine(p, D)
  /\ k.pc \in {"fullread", "fulltx"} => \A p \in k.winners : HasFullHouse(p, D)

\* Everything that leads to a winner rests on the numbers drawn.
DrawnInv ==
  /\ TypeInv
  /\ CalledWasDrawn
  /\ \A t \in Ticks : RestsOn(tick[t], Drawn)
  /\ WinnersEarned

\* Numbers drawn since do not matter.
LEMMA RestsOnMore ==
  ASSUME NEW k, NEW D, NEW E, D \subseteq E, RestsOn(k, D)
  PROVE  RestsOn(k, E)
BY Monotone DEF RestsOn

\* A step that replaces one tick by one that rests on the drawn numbers.
LEMMA RestReplaced ==
  ASSUME DrawnInv, NEW t \in Ticks, NEW r, RestsOn(r, Drawn'),
         tick' = [tick EXCEPT ![t] = r], rows \subseteq rows'
  PROVE  \A u \in Ticks : RestsOn(tick'[u], Drawn')
<1>1. Drawn \subseteq Drawn'
  BY DEF Drawn
<1>2. ASSUME NEW u \in Ticks PROVE RestsOn(tick'[u], Drawn')
  <2>1. CASE u = t
    BY <2>1 DEF DrawnInv, TypeInv, TypeOK
  <2>2. CASE u # t
    <3>1. tick'[u] = tick[u]
      BY <2>2 DEF DrawnInv, TypeInv, TypeOK
    <3>2. RestsOn(tick[u], Drawn)
      BY DEF DrawnInv
    <3> QED
      BY <1>1, <3>1, <3>2, RestsOnMore
  <2> QED
    BY <2>1, <2>2
<1> QED
  BY <1>2

\* A step that moves a tick to a place where its winners are not looked at,
\* or keeps them for the same prize.
LEMMA RestMoved ==
  ASSUME DrawnInv, NEW t \in Ticks, NEW label \in TickPC, Goto(t, label),
         rows' = rows, label # "check",
         label \in {"lineread", "linetx"} => tick[t].pc \in {"lineread", "linetx"},
         label \in {"fullread", "fulltx"} => tick[t].pc \in {"fullread", "fulltx"}
  PROVE  \A u \in Ticks : RestsOn(tick'[u], Drawn')
<1> DEFINE r == [tick[t] EXCEPT !.pc = label]
<1>1. r.pc = label /\ r.match = tick[t].match /\ r.winners = tick[t].winners
  BY DEF DrawnInv, TypeInv, TypeOK, Tick
<1>2. RestsOn(tick[t], Drawn)
  BY DEF DrawnInv
<1>3. Drawn' = Drawn
  BY DEF Drawn
<1> HIDE DEF r
<1>4. RestsOn(r, Drawn')
  BY <1>1, <1>2, <1>3 DEF RestsOn
<1>5. tick' = [tick EXCEPT ![t] = r]
  BY DEF Goto, r
<1> QED
  BY <1>4, <1>5, RestReplaced

\* An idle tick rests on nothing.
LEMMA IdleRests == \A D : RestsOn(IdleTick, D)
BY DEF RestsOn, IdleTick, EmptyMatch, Called, Range

LEMMA RestEnded ==
  ASSUME DrawnInv, NEW t \in Ticks, EndTick(t), rows' = rows
  PROVE  \A u \in Ticks : RestsOn(tick'[u], Drawn')
BY IdleRests, RestReplaced DEF EndTick

\* A step that leaves the rows of the match alone draws and awards nothing.
LEMMA NothingAwarded ==
  ASSUME DrawnInv, UNCHANGED <<rows, flags>>,
         match'.called = match.called
  PROVE  CalledWasDrawn' /\ WinnersEarned'
<1>1. Drawn' = Drawn /\ Called(match)' = Called(match)
  BY DEF Drawn, Called
<1> QED
  BY <1>1 DEF DrawnInv, CalledWasDrawn, WinnersEarned

LEMMA DrawnInit == Init => DrawnInv
<1> SUFFICES ASSUME Init PROVE DrawnInv
  OBVIOUS
<1>1. TypeInv
  BY TypeInit
<1>2. CalledWasDrawn
  BY DEF Init, EmptyMatch, CalledWasDrawn, Called, Range
<1>3. \A t \in Ticks : RestsOn(tick[t], Drawn)
  BY IdleRests DEF Init
<1>4. WinnersEarned
  BY DEF Init, WinnersEarned
<1> QED
  BY <1>1, <1>2, <1>3, <1>4 DEF DrawnInv

\* The winners that checkForWinners finds, in a set D of numbers that holds
\* what the tick read and what it drew.
LEMMA CheckedRests ==
  ASSUME NEW k \in Tick, NEW D, Called(k.match) \cup {k.next} \subseteq D, TypeInv
  PROVE  RestsOn(Checked(k), D)
<1> DEFINE S == Called(k.match) \cup {k.next}
           line == FindLineWinners(Pool, k.line, S)
           full == FindFullHouseWinners(Pool, k.full, S)
<1>1. (\A p \in line : HasLine(p, D)) /\ (\A p \in full : HasFullHouse(p, D))
  BY Monotone DEF FindLineWinners, FindFullHouseWinners
<1> HIDE DEF line, full
<1>2. \/ Checked(k) = [k EXCEPT !.pc = "lineread", !.winners = line]
      \/ Checked(k) = [k EXCEPT !.pc = "fullread", !.winners = full]
      \/ Checked(k) = [k EXCEPT !.pc = "reread"]
  BY DEF Checked, line, full
<1>3. Checked(k).match = k.match
  BY CheckedType
<1>4. CASE Checked(k) = [k EXCEPT !.pc = "lineread", !.winners = line]
  BY <1>1, <1>3, <1>4 DEF RestsOn, Tick
<1>5. CASE Checked(k) = [k EXCEPT !.pc = "fullread", !.winners = full]
  BY <1>1, <1>3, <1>5 DEF RestsOn, Tick
<1>6. CASE Checked(k) = [k EXCEPT !.pc = "reread"]
  BY <1>3, <1>6 DEF RestsOn, Tick
<1> QED
  BY <1>2, <1>4, <1>5, <1>6

LEMMA DrawnPersist ==
  ASSUME DrawnInv, NEW t \in Ticks, Persist(t)
  PROVE  /\ CalledWasDrawn'
         /\ \A u \in Ticks : RestsOn(tick'[u], Drawn')
         /\ WinnersEarned'
<1> DEFINE k == tick[t]
           r == [k EXCEPT !.pc = "check"]
<1>1. k \in Tick /\ k.next \in Numbers /\ k.match.called \in Seq(Numbers)
  BY DEF Persist, DrawnInv, TypeInv, TypeOK, HasNumber, Tick, MatchRow
<1>2. Drawn \subseteq Drawn' /\ k.next \in Drawn'
  <2>1. NumberRow(k) \in rows' /\ NumberRow(k)[1] = k.next
    BY DEF Persist, NumberRow
  <2> QED
    BY <2>1 DEF Persist, Drawn
<1>3. Called(k.match) \subseteq Drawn'
  BY <1>2 DEF DrawnInv, RestsOn
<1>4. CalledWasDrawn'
  <2>1. match'.called = Append(k.match.called, k.next)
    BY DEF Persist, DrawnInv, TypeInv, TypeOK, MatchRow
  <2>2. Called(match)' = Called(k.match) \cup {k.next}
    BY <1>1, <2>1, CalledAppend DEF Called
  <2> QED
    BY <1>2, <1>3, <2>2 DEF CalledWasDrawn
<1>5. \A u \in Ticks : RestsOn(tick'[u], Drawn')
  <2>1. r.pc = "check" /\ r.match = k.match /\ r.next = k.next
    BY <1>1 DEF Tick
  <2>2. tick' = [tick EXCEPT ![t] = r] /\ rows \subseteq rows'
    BY DEF Persist, Goto
  <2> HIDE DEF r
  <2>3. RestsOn(r, Drawn')
    BY <1>2, <1>3, <2>1 DEF RestsOn
  <2> QED
    BY <2>2, <2>3, RestReplaced
<1>6. WinnersEarned'
  BY <1>2, Monotone DEF Persist, DrawnInv, WinnersEarned
<1> QED
  BY <1>4, <1>5, <1>6

\* What it finds rests on what it read and on the number it has written.
LEMMA DrawnCheck ==
  ASSUME DrawnInv, NEW t \in Ticks, Check(t)
  PROVE  \A u \in Ticks : RestsOn(tick'[u], Drawn')
<1> DEFINE k == tick[t]
<1>1. k \in Tick /\ TypeInv /\ RestsOn(k, Drawn) /\ k.pc = "check"
  BY DEF Check, DrawnInv, TypeInv, TypeOK
<1>2. Drawn' = Drawn /\ rows' = rows
  BY DEF Check, Drawn
<1>3. RestsOn(Checked(k), Drawn')
  BY <1>1, <1>2, CheckedRests DEF RestsOn
<1> QED
  BY <1>2, <1>3, RestReplaced DEF Check

\* Reading again drops no winner and reads only what was drawn.
LEMMA DrawnReads ==
  ASSUME DrawnInv, NEW t \in Ticks, NEW open \in BOOLEAN,
         NEW label \in {"linetx", "fulltx"}, Reads(t, open, label),
         label = "linetx" => tick[t].pc = "lineread",
         label = "fulltx" => tick[t].pc = "fullread"
  PROVE  \A u \in Ticks : RestsOn(tick'[u], Drawn')
<1> DEFINE next == IF open THEN label ELSE "reread"
           r == [tick[t] EXCEPT !.pc = next, !.match = match,
                                !.line = flags.line, !.full = flags.full]
<1>1. r.pc = next /\ r.match = match /\ r.winners = tick[t].winners
  BY DEF DrawnInv, TypeInv, TypeOK, Tick
<1>2. RestsOn(tick[t], Drawn) /\ Called(match) \subseteq Drawn
  BY DEF DrawnInv, CalledWasDrawn
<1>3. tick' = [tick EXCEPT ![t] = r] /\ Drawn' = Drawn
  BY DEF Reads, DrawnInv, TypeInv, TypeOK, Tick, Drawn
<1> HIDE DEF r
<1>4. RestsOn(r, Drawn)
  BY <1>1, <1>2 DEF RestsOn
<1> QED
  BY <1>3, <1>4, RestReplaced DEF Reads

LEMMA DrawnStep == DrawnInv /\ [Next]_vars => DrawnInv'
<1> SUFFICES ASSUME DrawnInv, [Next]_vars
             PROVE  /\ CalledWasDrawn'
                    /\ \A u \in Ticks : RestsOn(tick'[u], Drawn')
                    /\ WinnersEarned'
  BY TypeStep DEF DrawnInv
<1> USE DEF TickPC
<1>1. CASE Begin
  BY <1>1, NothingAwarded DEF Begin, Drawn, DrawnInv
<1>2. ASSUME NEW t \in Ticks, Fire(t) \/ ReadEnded(t) \/ Reread(t)
      PROVE  CalledWasDrawn' /\ WinnersEarned' /\ \A u \in Ticks : RestsOn(tick'[u], Drawn')
  <2>1. UNCHANGED <<match, rows, flags>>
    BY <1>2 DEF Fire, ReadEnded, Reread
  <2>2. (\E label \in {"read", "ended"} : Goto(t, label)) \/ EndTick(t)
    BY <1>2 DEF Fire, ReadEnded, Reread
  <2> QED
    BY <2>1, <2>2, NothingAwarded, RestMoved, RestEnded
<1>3. ASSUME NEW t \in Ticks,
             PersistRejected(t) \/ Ended(t) \/ Stop(t) \/ TickFails(t)
      PROVE  CalledWasDrawn' /\ WinnersEarned' /\ \A u \in Ticks : RestsOn(tick'[u], Drawn')
  <2>1. EndTick(t) /\ UNCHANGED <<match, rows, flags>>
    BY <1>3 DEF PersistRejected, Ended, Stop, TickFails
  <2> QED
    BY <2>1, NothingAwarded, RestEnded
<1>4. ASSUME NEW t \in Ticks, Read(t)
      PROVE  CalledWasDrawn' /\ WinnersEarned' /\ \A u \in Ticks : RestsOn(tick'[u], Drawn')
  <2> DEFINE r == [pc |-> "pick", match |-> match, line |-> flags.line,
                   full |-> flags.full, next |-> NONE, winners |-> {}]
  <2>1. r.match = match /\ r.pc = "pick"
    OBVIOUS
  <2>2. Drawn' = Drawn /\ Called(match) \subseteq Drawn
    BY <1>4 DEF Read, Drawn, DrawnInv, CalledWasDrawn
  <2>3. tick' = [tick EXCEPT ![t] = r]
    BY <1>4 DEF Read
  <2> HIDE DEF r
  <2>4. RestsOn(r, Drawn')
    BY <2>1, <2>2 DEF RestsOn
  <2> QED
    BY <1>4, <2>3, <2>4, RestReplaced, NothingAwarded DEF Read
<1>5. ASSUME NEW t \in Ticks, Pick(t)
      PROVE  CalledWasDrawn' /\ WinnersEarned' /\ \A u \in Ticks : RestsOn(tick'[u], Drawn')
  <2>1. PICK r : /\ tick' = [tick EXCEPT ![t] = r]
                 /\ r.match = tick[t].match /\ r.pc \in {"finish", "persist"}
    <3> DEFINE out == [tick[t] EXCEPT !.pc = "finish"]
               Drawing(n) == [tick[t] EXCEPT !.pc = "persist", !.next = n]
    <3>0. tick[t] \in Tick /\ tick \in [Ticks -> Tick]
      BY DEF DrawnInv, TypeInv, TypeOK
    <3>1. out.match = tick[t].match /\ out.pc = "finish"
      BY <3>0 DEF Tick
    <3>2. \A n : Drawing(n).match = tick[t].match /\ Drawing(n).pc = "persist"
      BY <3>0 DEF Tick
    <3>3. \/ tick' = [tick EXCEPT ![t] = out]
          \/ \E n \in NextNumbers(Called(tick[t].match)) :
               tick' = [tick EXCEPT ![t] = Drawing(n)]
      BY <1>5, <3>0 DEF Pick, Goto
    <3> HIDE DEF out, Drawing
    <3> QED
      BY <3>1, <3>2, <3>3
  <2>2. Drawn' = Drawn /\ RestsOn(tick[t], Drawn)
    BY <1>5 DEF Pick, Drawn, DrawnInv
  <2>3. RestsOn(r, Drawn')
    BY <2>1, <2>2 DEF RestsOn
  <2> QED
    BY <1>5, <2>1, <2>3, RestReplaced, NothingAwarded DEF Pick
<1>10. ASSUME NEW t \in Ticks, Persist(t) \/ Check(t)
      PROVE  CalledWasDrawn' /\ WinnersEarned' /\ \A u \in Ticks : RestsOn(tick'[u], Drawn')
  <2>1. CASE Persist(t)
    BY <2>1, DrawnPersist
  <2>2. CASE Check(t)
    BY <2>2, DrawnCheck, NothingAwarded DEF Check
  <2> QED
    BY <1>10, <2>1, <2>2
<1>6. ASSUME NEW t \in Ticks, LineRead(t) \/ FullRead(t)
      PROVE  CalledWasDrawn' /\ WinnersEarned' /\ \A u \in Ticks : RestsOn(tick'[u], Drawn')
  <2>1. UNCHANGED <<match, rows, flags>>
    BY <1>6 DEF LineRead, FullRead, Reads
  <2>2. CASE LineRead(t)
    BY <2>1, <2>2, NothingAwarded, DrawnReads DEF LineRead, LineOpen
  <2>3. CASE FullRead(t)
    BY <2>1, <2>3, NothingAwarded, DrawnReads DEF FullRead, FullOpen
  <2> QED
    BY <1>6, <2>2, <2>3
<1>7. ASSUME NEW t \in Ticks, LineTx(t) \/ FullTx(t)
      PROVE  CalledWasDrawn' /\ WinnersEarned' /\ \A u \in Ticks : RestsOn(tick'[u], Drawn')
  <2> DEFINE k == tick[t]
  <2>1. RestsOn(k, Drawn) /\ WinnersEarned
    BY DEF DrawnInv
  <2>2. rows' = rows /\ Drawn' = Drawn /\ match'.called = match.called
    BY <1>7 DEF LineTx, FullTx, Drawn, DrawnInv, TypeInv, TypeOK, MatchRow
  <2>3. CalledWasDrawn'
    BY <2>2 DEF DrawnInv, CalledWasDrawn, Called
  <2>4. \A u \in Ticks : RestsOn(tick'[u], Drawn')
    BY <1>7, <2>2, RestMoved DEF LineTx, FullTx
  <2>5. WinnersEarned'
    <3>1. CASE LineTx(t)
      <4>1. flags'.line = flags.line \cup k.winners /\ flags'.full = flags.full
        BY <3>1 DEF LineTx, DrawnInv, TypeInv, TypeOK, Flags
      <4> QED
        BY <2>1, <2>2, <3>1, <4>1 DEF LineTx, RestsOn, WinnersEarned
    <3>2. CASE FullTx(t)
      <4>1. flags'.full = flags.full \cup k.winners /\ flags'.line = flags.line
        BY <3>2 DEF FullTx, DrawnInv, TypeInv, TypeOK, Flags
      <4> QED
        BY <2>1, <2>2, <3>2, <4>1 DEF FullTx, RestsOn, WinnersEarned
    <3> QED
      BY <1>7, <3>1, <3>2
  <2> QED
    BY <2>3, <2>4, <2>5
<1>8. ASSUME NEW t \in Ticks, FullDone(t) \/ Finish(t)
      PROVE  CalledWasDrawn' /\ WinnersEarned' /\ \A u \in Ticks : RestsOn(tick'[u], Drawn')
  <2>1. UNCHANGED <<rows, flags>> /\ match'.called = match.called
    BY <1>8 DEF FullDone, Finish, DrawnInv, TypeInv, TypeOK, MatchRow
  <2>2. \A u \in Ticks : RestsOn(tick'[u], Drawn')
    BY <1>8, <2>1, RestMoved DEF FullDone, Finish
  <2> QED
    BY <2>1, <2>2, NothingAwarded
<1>9. CASE UNCHANGED vars
  BY <1>9, NothingAwarded DEF vars, Drawn, DrawnInv
<1> QED
  BY <1>1, <1>2, <1>3, <1>4, <1>5, <1>6, <1>7, <1>8, <1>9, <1>10 DEF Next, TickStep

\* Nobody is declared a winner without the numbers it takes among those
\* drawn, however many ticks overlap and whatever fails.
THEOREM WinnersCorrect == Spec => []WinnersEarned
<1>1. Spec => []DrawnInv
  BY DrawnInit, DrawnStep, PTL DEF Spec
<1> QED
  BY <1>1, PTL DEF DrawnInv

\* calledNumbers may lose a number, but invents none.
THEOREM CalledCorrect == Spec => []CalledWasDrawn
<1>1. Spec => []DrawnInv
  BY DrawnInit, DrawnStep, PTL DEF Spec
<1> QED
  BY <1>1, PTL DEF DrawnInv

-----------------------------------------------------------------------------
(* The ticker after a full house                                           *)

\* Before the match begins no tick is under way and nothing is won.
QuietBefore ==
  ~ begun => ~ running /\ flags.full = {} /\ \A t \in Ticks : tick[t].pc = "idle"

StopInv == TypeInv /\ QuietBefore /\ FullHouseStops

\* What a step of one tick leaves of the others.
LEMMA OthersStay ==
  ASSUME TypeInv, NEW t \in Ticks, TickStep(t) \/ TickFails(t)
  PROVE  \A u \in Ticks \ {t} : tick'[u] = tick[u]
<1> USE DEF TypeInv, TypeOK
<1>1. CASE Fire(t) \/ ReadEnded(t) \/ Persist(t) \/ LineTx(t) \/ FullTx(t)
           \/ FullDone(t) \/ Finish(t)
  BY <1>1 DEF Fire, ReadEnded, Persist, LineTx, FullTx, FullDone, Finish, Goto
<1>2. CASE PersistRejected(t) \/ Reread(t) \/ Ended(t) \/ Stop(t) \/ TickFails(t)
  <2>1. Goto(t, "ended") \/ EndTick(t)
    BY <1>2 DEF PersistRejected, Reread, Ended, Stop, TickFails
  <2> QED
    BY <2>1 DEF Goto, EndTick
<1>3. CASE Read(t) \/ Pick(t)
  BY <1>3 DEF Read, Pick, Goto
<1>4. CASE Check(t)
  BY <1>4 DEF Check
<1>5. CASE LineRead(t) \/ FullRead(t)
  BY <1>5 DEF LineRead, FullRead, Reads
<1> QED
  BY <1>1, <1>2, <1>3, <1>4, <1>5 DEF TickStep

\* No step starts the ticker again, and only the full-house transaction
\* declares a full house.
LEMMA OnlyFullTx ==
  ASSUME TypeInv, NEW t \in Ticks, TickStep(t) \/ TickFails(t)
  PROVE  /\ begun' = begun
         /\ running' => running
         /\ tick[t].pc = "idle" => running
         /\ ~ FullTx(t) => flags'.full = flags.full
         /\ tick[t].pc = "fulldone" => ~ running'
<1>0. "idle" \notin Faults /\ "fulldone" \notin Faults
  BY BoundsAssumption
<1>1. CASE Fire(t) \/ ReadEnded(t) \/ Read(t) \/ Pick(t)
  BY <1>1 DEF Fire, ReadEnded, Read, Pick
<1>8. CASE Persist(t) \/ PersistRejected(t) \/ Check(t) \/ Reread(t) \/ Ended(t)
  BY <1>8 DEF Persist, PersistRejected, Check, Reread, Ended
<1>2. CASE LineRead(t) \/ FullRead(t)
  BY <1>2 DEF LineRead, FullRead, Reads
<1>3. CASE LineTx(t)
  <2>1. flags'.full = flags.full
    BY <1>3 DEF LineTx, TypeInv, TypeOK, Flags
  <2> QED
    BY <1>3, <2>1 DEF LineTx
<1>4. CASE FullTx(t)
  BY <1>4 DEF FullTx
<1>5. CASE FullDone(t) \/ Finish(t) \/ Stop(t)
  BY <1>5 DEF FullDone, Finish, Stop
<1>6. CASE TickFails(t)
  BY <1>0, <1>6 DEF TickFails
<1> QED
  BY <1>1, <1>2, <1>3, <1>4, <1>5, <1>6, <1>8 DEF TickStep

LEMMA StopTick ==
  ASSUME StopInv, NEW t \in Ticks, TickStep(t) \/ TickFails(t)
  PROVE  QuietBefore' /\ FullHouseStops'
<1>1. TypeInv
  BY DEF StopInv
<1>2. begun
  BY <1>1, OnlyFullTx DEF StopInv, QuietBefore
<1>3. QuietBefore'
  BY <1>1, <1>2, OnlyFullTx DEF QuietBefore
<1>4. CASE FullTx(t)
  <2>1. tick'[t].pc = "fulldone"
    BY <1>1, <1>4 DEF FullTx, Goto, TypeInv, TypeOK, Tick
  <2> QED
    BY <1>3, <2>1 DEF FullHouseStops
<1>5. CASE ~ FullTx(t)
  <2>1. SUFFICES ASSUME flags'.full # {}, running'
                 PROVE  \E u \in Ticks : tick'[u].pc = "fulldone"
    BY <1>3 DEF FullHouseStops
  <2>2. PICK u \in Ticks : tick[u].pc = "fulldone"
    BY <1>1, <1>5, <2>1, OnlyFullTx DEF StopInv, FullHouseStops
  <2>3. u # t
    BY <1>1, <2>1, <2>2, OnlyFullTx
  <2> QED
    BY <1>1, <2>2, <2>3, OthersStay
<1> QED
  BY <1>4, <1>5

LEMMA StopInit == Init => StopInv
<1> SUFFICES ASSUME Init PROVE QuietBefore /\ FullHouseStops
  BY TypeInit DEF StopInv
<1>1. flags.full = {} /\ ~ running /\ \A t \in Ticks : tick[t].pc = "idle"
  BY DEF Init, IdleTick
<1> QED
  BY <1>1 DEF QuietBefore, FullHouseStops

LEMMA StopStep == StopInv /\ [Next]_vars => StopInv'
<1> SUFFICES ASSUME StopInv, [Next]_vars PROVE QuietBefore' /\ FullHouseStops'
  BY TypeStep DEF StopInv
<1>1. CASE Begin
  BY <1>1 DEF Begin, StopInv, QuietBefore, FullHouseStops
<1>2. ASSUME NEW t \in Ticks, TickStep(t) \/ TickFails(t)
      PROVE  QuietBefore' /\ FullHouseStops'
  BY <1>2, StopTick
<1>3. CASE UNCHANGED vars
  BY <1>3 DEF vars, StopInv, QuietBefore, FullHouseStops
<1> QED
  BY <1>1, <1>2, <1>3 DEF Next

\* A full house stops the ticker, however many ticks overlap and whatever of
\* the status they overwrite: FullHouseStops for every instance.
THEOREM FullHouseStopsCorrect == Spec => []FullHouseStops
<1>1. Spec => []StopInv
  BY StopInit, StopStep, PTL DEF Spec
<1> QED
  BY <1>1, PTL DEF StopInv

-----------------------------------------------------------------------------
(* Ticks that do not overlap                                               *)

\* What a tick has read is still so when it writes, and who is to be declared
\* a full-house winner is somebody.
UpToDate(k, m, f) ==
  /\ k.pc \in {"pick", "persist"} => k.match = m
  /\ k.pc \in {"linetx", "fulltx"} => k.line = f.line /\ k.full = f.full
  /\ k.pc \in {"fullread", "fulltx"} => k.winners # {}

SerialInv ==
  /\ TypeInv
  /\ \A t \in Ticks : UpToDate(tick[t], match, flags)
  /\ CalledMatchesRows
  /\ ResultsAgree

LEMMA SerialInit == Init => SerialInv
<1> SUFFICES ASSUME Init PROVE SerialInv
  OBVIOUS
<1>1. \A t \in Ticks : UpToDate(tick[t], match, flags)
  BY DEF Init, IdleTick, UpToDate
<1>2. CalledMatchesRows
  BY DEF Init, EmptyMatch, CalledMatchesRows
<1>3. ResultsAgree
  BY DEF Init, ResultsAgree
<1> QED
  BY <1>1, <1>2, <1>3, TypeInit DEF SerialInv

\* A step keeps what the tick has read up to date, as no other tick writes.
LEMMA SerialTick ==
  ASSUME SerialInv, NEW t \in Ticks, TickStep(t) \/ TickFails(t)
  PROVE  UpToDate(tick'[t], match', flags')
<1>0. /\ tick \in [Ticks -> Tick] /\ tick[t] \in Tick /\ TypeInv
      /\ UpToDate(tick[t], match, flags)
  BY DEF SerialInv, TypeInv, TypeOK
<1>1. CASE Fire(t) \/ ReadEnded(t) \/ Persist(t) \/ LineTx(t) \/ FullTx(t)
           \/ FullDone(t) \/ Finish(t)
  <2>1. PICK label \in {"read", "ended", "check", "reread", "fulldone", "stop"} :
          Goto(t, label)
    BY <1>1 DEF Fire, ReadEnded, Persist, LineTx, FullTx, FullDone, Finish
  <2>2. tick'[t].pc = label
    BY <1>0, <2>1 DEF Goto, Tick
  <2> QED
    BY <2>1, <2>2 DEF UpToDate
<1>2. CASE PersistRejected(t) \/ Reread(t) \/ Ended(t) \/ Stop(t) \/ TickFails(t)
  <2>1. tick'[t].pc \in {"idle", "ended"}
    <3>1. Goto(t, "ended") \/ EndTick(t)
      BY <1>2 DEF PersistRejected, Reread, Ended, Stop, TickFails
    <3> QED
      BY <1>0, <3>1 DEF Goto, EndTick, IdleTick, Tick
  <2> QED
    BY <2>1 DEF UpToDate
<1>3. CASE Read(t)
  <2>1. tick'[t].pc = "pick" /\ tick'[t].match = match /\ match' = match
    BY <1>0, <1>3 DEF Read
  <2> QED
    BY <2>1 DEF UpToDate
<1>8. CASE Pick(t)
  <2>1. tick'[t].pc \in {"finish", "persist"} /\ tick'[t].match = tick[t].match
    BY <1>0, <1>8 DEF Pick, Goto, Tick
  <2>2. match' = match /\ tick[t].pc = "pick"
    BY <1>8 DEF Pick
  <2> QED
    BY <1>0, <2>1, <2>2 DEF UpToDate
<1>4. CASE Check(t)
  <2> DEFINE k == tick[t]
             S == Called(k.match) \cup {k.next}
             line == FindLineWinners(Pool, k.line, S)
             full == FindFullHouseWinners(Pool, k.full, S)
  <2>1. tick'[t] = Checked(k)
    BY <1>0, <1>4 DEF Check
  <2> HIDE DEF line, full
  <2>2. \/ Checked(k) = [k EXCEPT !.pc = "lineread", !.winners = line]
        \/ Checked(k) = [k EXCEPT !.pc = "fullread", !.winners = full] /\ full # {}
        \/ Checked(k) = [k EXCEPT !.pc = "reread"]
    BY DEF Checked, line, full
  <2>3. /\ Checked(k).pc \in {"lineread", "fullread", "reread"}
        /\ Checked(k).pc = "fullread" => Checked(k).winners # {}
    BY <1>0, <2>2 DEF Tick
  <2> QED
    BY <2>1, <2>3 DEF UpToDate
<1>5. ASSUME NEW open \in BOOLEAN, NEW label \in {"linetx", "fulltx"},
             Reads(t, open, label), label = "fulltx" => tick[t].pc = "fullread"
      PROVE  UpToDate(tick'[t], match', flags')
  <2> DEFINE next == IF open THEN label ELSE "reread"
  <2>1. /\ tick'[t].pc = next /\ tick'[t].line = flags.line /\ tick'[t].full = flags.full
        /\ tick'[t].winners = tick[t].winners
    BY <1>0, <1>5 DEF Reads, Tick
  <2>2. flags' = flags
    BY <1>5 DEF Reads
  <2>3. next \in {label, "reread"}
    OBVIOUS
  <2> HIDE DEF next
  <2> QED
    BY <1>0, <1>5, <2>1, <2>2, <2>3 DEF UpToDate
<1>6. CASE LineRead(t)
  BY <1>5, <1>6 DEF LineRead, LineOpen
<1>7. CASE FullRead(t)
  BY <1>5, <1>7 DEF FullRead, FullOpen
<1> QED
  BY <1>1, <1>2, <1>3, <1>4, <1>6, <1>7, <1>8 DEF TickStep

\* The rows grow with the list.
LEMMA SerialPersist ==
  ASSUME SerialInv, NEW t \in Ticks, Persist(t)
  PROVE  CalledMatchesRows'
<1> DEFINE k == tick[t]
           s == match.called
           a == Append(s, k.next)
<1>0. /\ TypeInv /\ k \in Tick /\ match \in MatchRow /\ k.next \in Numbers
      /\ k.match = match
  BY DEF SerialInv, Persist, UpToDate, TypeInv, TypeOK, HasNumber
<1>1. s \in Seq(Numbers)
  BY <1>0 DEF MatchRow
<1>2. match'.called = a /\ rows' = rows \cup {<<k.next, Len(s)>>}
  BY <1>0 DEF Persist, NumberRow, MatchRow
<1>3. /\ DOMAIN s = 1..Len(s) /\ DOMAIN a = 1..(Len(s) + 1) /\ Len(s) \in Nat
      /\ \A i \in 1..Len(s) : a[i] = s[i]
      /\ a[Len(s) + 1] = k.next
  BY <1>0, <1>1
<1>4. rows = {<<s[i], i - 1>> : i \in 1..Len(s)}
  BY <1>3 DEF SerialInv, CalledMatchesRows
<1> HIDE DEF a, s
<1>5. {<<a[i], i - 1>> : i \in 1..(Len(s) + 1)}
        = {<<s[i], i - 1>> : i \in 1..Len(s)} \cup {<<k.next, Len(s)>>}
  <2>1. 1..(Len(s) + 1) = 1..Len(s) \cup {Len(s) + 1} /\ (Len(s) + 1) - 1 = Len(s)
    BY <1>3
  <2>2. {<<a[i], i - 1>> : i \in 1..Len(s)} = {<<s[i], i - 1>> : i \in 1..Len(s)}
    BY <1>3
  <2>3. {<<a[i], i - 1>> : i \in 1..Len(s) \cup {Len(s) + 1}}
          = {<<a[i], i - 1>> : i \in 1..Len(s)} \cup {<<a[Len(s) + 1], (Len(s) + 1) - 1>>}
    BY Zenon
  <2> QED
    BY <1>3, <2>1, <2>2, <2>3, Zenon
<1> QED
  BY <1>2, <1>3, <1>4, <1>5 DEF CalledMatchesRows

\* The results follow the winners.
LEMMA SerialResults ==
  ASSUME SerialInv, NEW t \in Ticks, LineTx(t) \/ FullTx(t)
  PROVE  ResultsAgree'
<1> DEFINE k == tick[t]
<1>0. /\ TypeInv /\ k \in Tick /\ flags \in Flags /\ ResultsAgree
      /\ k.line = flags.line /\ k.full = flags.full
  BY DEF SerialInv, LineTx, FullTx, UpToDate, TypeInv, TypeOK
<1>1. CASE LineTx(t)
  <2>1. /\ flags'.line = flags.line \cup k.winners /\ flags'.full = flags.full
        /\ flags'.result = LineResults(k)
    BY <1>0, <1>1 DEF LineTx, Flags
  <2>2. \A p \in Players :
          flags'.result[p] = IF p \notin k.winners THEN flags.result[p]
                             ELSE IF p \in flags.full THEN "BOTH_WINNER" ELSE "LINE_WINNER"
    BY <1>0, <2>1 DEF LineResults
  <2> QED
    BY <1>0, <2>1, <2>2 DEF ResultsAgree
<1>2. CASE FullTx(t)
  <2>1. /\ flags'.full = flags.full \cup k.winners /\ flags'.line = flags.line
        /\ flags'.result = FullResults(k) /\ k.winners # {}
    BY <1>0, <1>2 DEF FullTx, Flags, SerialInv, UpToDate
  <2>2. \A p \in Players :
          flags'.result[p] = IF p \in k.winners
                             THEN IF p \in flags.line THEN "BOTH_WINNER" ELSE "FULL_HOUSE_WINNER"
                             ELSE IF flags.result[p] = "PENDING" THEN "LOST"
                             ELSE flags.result[p]
    BY <1>0, <2>1 DEF FullResults, FullResult
  <2> QED
    BY <1>0, <2>1, <2>2 DEF ResultsAgree
<1> QED
  BY <1>1, <1>2

LEMMA SerialStep ==
  ASSUME \A t, u \in Ticks : t = u, SerialInv, [Next]_vars
  PROVE  SerialInv'
<1>0. TypeInv /\ TypeInv'
  BY TypeStep DEF SerialInv
<1>1. CASE Begin
  BY <1>0, <1>1 DEF Begin, SerialInv, CalledMatchesRows, ResultsAgree
<1>2. ASSUME NEW t \in Ticks, TickStep(t) \/ TickFails(t) PROVE SerialInv'
  <2>1. \A u \in Ticks : UpToDate(tick'[u], match', flags')
    BY <1>2, SerialTick
  <2>2. CalledMatchesRows'
    <3>1. CASE Persist(t)
      BY <3>1, SerialPersist
    <3>2. CASE ~ Persist(t)
      <4>1. rows' = rows /\ match'.called = match.called
        <5>1. CASE Fire(t) \/ ReadEnded(t) \/ Read(t) \/ Pick(t) \/ PersistRejected(t)
                   \/ Check(t)
          BY <5>1 DEF Fire, ReadEnded, Read, Pick, PersistRejected, Check
        <5>2. CASE LineRead(t) \/ FullRead(t)
          BY <5>2 DEF LineRead, FullRead, Reads
        <5>3. CASE LineTx(t) \/ FullTx(t) \/ Finish(t)
          BY <1>0, <5>3 DEF LineTx, FullTx, Finish, TypeInv, TypeOK, MatchRow
        <5>4. CASE FullDone(t) \/ Reread(t) \/ Ended(t) \/ Stop(t) \/ TickFails(t)
          BY <5>4 DEF FullDone, Reread, Ended, Stop, TickFails
        <5> QED
          BY <1>2, <3>2, <5>1, <5>2, <5>3, <5>4 DEF TickStep
      <4> QED
        BY <4>1 DEF SerialInv, CalledMatchesRows
    <3> QED
      BY <3>1, <3>2
  <2>3. ResultsAgree'
    <3>1. CASE LineTx(t) \/ FullTx(t)
      BY <3>1, SerialResults
    <3>2. CASE ~ (LineTx(t) \/ FullTx(t))
      <4>1. flags' = flags
        <5>1. CASE Fire(t) \/ ReadEnded(t) \/ Read(t) \/ Pick(t) \/ Persist(t)
                   \/ PersistRejected(t) \/ Check(t)
          BY <5>1 DEF Fire, ReadEnded, Read, Pick, Persist, PersistRejected, Check
        <5>2. CASE LineRead(t) \/ FullRead(t)
          BY <5>2 DEF LineRead, FullRead, Reads
        <5>3. CASE FullDone(t) \/ Reread(t) \/ Ended(t) \/ Finish(t) \/ Stop(t)
                   \/ TickFails(t)
          BY <5>3 DEF FullDone, Reread, Ended, Finish, Stop, TickFails
        <5> QED
          BY <1>2, <3>2, <5>1, <5>2, <5>3 DEF TickStep
      <4> QED
        BY <4>1 DEF SerialInv, ResultsAgree
    <3> QED
      BY <3>1, <3>2
  <2> QED
    BY <1>0, <2>1, <2>2, <2>3 DEF SerialInv
<1>3. CASE UNCHANGED vars
  BY <1>0, <1>3 DEF vars, SerialInv, CalledMatchesRows, ResultsAgree
<1> QED
  BY <1>1, <1>2, <1>3 DEF Next

\* As long as ticks do not overlap, calledNumbers and the MatchNumber rows say
\* the same, whatever call of the database fails.
THEOREM CalledRowsCorrect ==
  ASSUME \A t, u \in Ticks : t = u PROVE Spec => []CalledMatchesRows
<1>1. SerialInv /\ [Next]_vars => SerialInv'
  BY SerialStep
<1>2. Spec => []SerialInv
  BY <1>1, SerialInit, PTL DEF Spec
<1> QED
  BY <1>2, PTL DEF SerialInv

\* "ordered array of called numbers": as long as ticks do not overlap, every
\* number drawn is in it, and the overlap is all that breaks it.
THEOREM CalledCompleteCorrect ==
  ASSUME \A t, u \in Ticks : t = u PROVE Spec => []CalledIsComplete
<1>1. CalledMatchesRows => CalledIsComplete
  <2> SUFFICES ASSUME CalledMatchesRows, NEW row \in rows PROVE row[1] \in Called(match)
    BY DEF CalledIsComplete, Drawn
  <2>1. PICK i \in DOMAIN match.called : row = <<match.called[i], i - 1>>
    BY DEF CalledMatchesRows
  <2> QED
    BY <2>1 DEF Called, Range
<1> QED
  BY <1>1, CalledRowsCorrect, PTL

\* As long as ticks do not overlap, the result of a player agrees with the two
\* winner columns.
THEOREM ResultsCorrect ==
  ASSUME \A t, u \in Ticks : t = u PROVE Spec => []ResultsAgree
<1>1. SerialInv /\ [Next]_vars => SerialInv'
  BY SerialStep
<1>2. Spec => []SerialInv
  BY <1>1, SerialInit, PTL DEF Spec
<1> QED
  BY <1>2, PTL DEF SerialInv

=============================================================================
