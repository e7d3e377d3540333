---------------------------- MODULE LobbyProofs ----------------------------
(***************************************************************************)
(* What holds of Lobby for every set of users, rooms and messages and for  *)
(* every value of the limits, checked by TLAPS.                            *)
(***************************************************************************)
EXTENDS Lobby, SumTheorems

\* The smaller of two integers is one of them and exceeds neither.
LEMMA MinPair ==
  ASSUME NEW a \in Int, NEW b \in Int
  PROVE  /\ Min({a, b}) \in Int
         /\ Min({a, b}) \in {a, b}
         /\ Min({a, b}) <= a /\ Min({a, b}) <= b
<1> DEFINE m == IF a <= b THEN a ELSE b
<1>1. m \in {a, b} /\ \A y \in {a, b} : m <= y
  OBVIOUS
<1>2. Min({a, b}) \in {a, b} /\ \A y \in {a, b} : Min({a, b}) <= y
  BY <1>1 DEF Min
<1>. QED
  BY <1>2

\* The limits are natural numbers.
LEMMA Limits ==
  /\ MinRoomCards \in Nat /\ MaxRoomCards \in Nat /\ MaxBotsPerMatch \in Nat
  /\ MaxPending \in Nat /\ MaxPending > 0 /\ MaxCredit \in Nat
  /\ MaxCardsPerMatch \in Nat /\ CardsPerMatch \in Nat
  /\ BotMinCards \in Nat /\ BotMaxCards \in Nat
  /\ MinCardsToStart \in Nat /\ MinCardsToStart > 0
BY CountsAssumption

\* Reading, replacing and appending in a sequence.
LEMMA SeqFacts ==
  ASSUME NEW S, NEW q \in Seq(S)
  PROVE  /\ \A i \in DOMAIN q : i \in Nat /\ q[i] \in S
         /\ \A i \in DOMAIN q, e \in S : [q EXCEPT ![i] = e] \in Seq(S)
         /\ \A e \in S : Append(q, e) \in Seq(S)
OBVIOUS

\* Putting a seat into a lobby gives a lobby.
LEMMA SeatedType ==
  ASSUME NEW l \in LobbyState, NEW p \in Seat
  PROVE  /\ Seated(l, p) \in LobbyState
         /\ Seated(l, p).players = Append(l.players, p)
         /\ Seated(l, p).totalCards = l.totalCards + p.cards
         /\ Seated(l, p).status = l.status
<1>1. l.players \in Seq(Seat) /\ l.totalCards \in Nat /\ p.cards \in Nat
  BY DEF LobbyState, Seat
<1>2. Append(l.players, p) \in Seq(Seat) /\ l.totalCards + p.cards \in Nat
  BY <1>1
<1>. QED
  BY <1>2 DEF Seated, LobbyState

\* finalizeLobby keeps the types of what it writes.
LEMMA FinalizeType ==
  ASSUME TypeOK, NEW r \in Rooms, NEW l \in LobbyState, FinalizeLobby(r, l)
  PROVE  lobby' \in [Rooms -> LobbyState] /\ starts' \in Seq(Start)
<1>1. NewStart(r) \in Start
  BY DEF NewStart, Start, StartPC
<1>2. [l EXCEPT !.status = "STARTING"] \in LobbyState
  BY DEF LobbyState
<1>. QED
  BY <1>1, <1>2 DEF FinalizeLobby, TypeOK

LEMMA CancelAndFinalizeType ==
  ASSUME TypeOK, NEW r \in Rooms, NEW l \in LobbyState, NEW t \in Timers,
         CancelAndFinalize(r, l, t)
  PROVE  /\ lobby' \in [Rooms -> LobbyState] /\ starts' \in Seq(Start)
         /\ timers' \in [Rooms -> Timers]
<1>1. Cancelled(t) \in Timers
  BY DEF Cancelled, Timers
<1>. QED
  BY <1>1, FinalizeType DEF CancelAndFinalize, TypeOK

\* The updates of a timers record and of a fill that actions make.
LEMMA TimersUpdates ==
  ASSUME NEW t \in Timers
  PROVE  /\ \A w : [t EXCEPT !.armed = @ \ {w}] \in Timers
         /\ t.bot > 0 => [t EXCEPT !.bot = @ - 1] \in Timers
         /\ Scheduled(t) \in Timers
<1>1. \A w : [t EXCEPT !.armed = @ \ {w}] \in Timers
  BY DEF Timers
<1>2. t.bot > 0 => [t EXCEPT !.bot = @ - 1] \in Timers
  BY DEF Timers
<1>3. Scheduled(t) \in Timers
  BY DEF Timers, Scheduled
<1>. QED
  BY <1>1, <1>2, <1>3

LEMMA FillUpdates ==
  ASSUME NEW g \in Fill
  PROVE  /\ \A e \in {"ended", "failed"} : [g EXCEPT !.pc = e] \in Fill
         /\ [g EXCEPT !.pc = "sleep", !.added = @ + 1] \in Fill
         /\ \A n \in Nat : [g EXCEPT !.pc = "bot", !.cards = n] \in Fill
         /\ g.cards \in Int
<1>1. \A e \in {"ended", "failed"} : [g EXCEPT !.pc = e] \in Fill
  BY DEF Fill
<1>2. [g EXCEPT !.pc = "sleep", !.added = @ + 1] \in Fill
  <2>1. g.added + 1 \in Nat
    BY DEF Fill
  <2>. QED
    BY <2>1 DEF Fill
<1>3. \A n \in Nat : [g EXCEPT !.pc = "bot", !.cards = n] \in Fill
  BY DEF Fill
<1>4. g.cards \in Int
  BY DEF Fill
<1>. QED
  BY <1>1, <1>2, <1>3, <1>4

-----------------------------------------------------------------------------
LEMMA InitTypeOK == Init => TypeOK
BY TablesAssumption DEF Init, TypeOK, JoinPC, EmptyLobby, LobbyState, NoTimers,
   Timers

\* Types of the parts of the state that an action reads.
LEMMA LobbyParts ==
  ASSUME TypeOK
  PROVE  /\ \A r \in Rooms : /\ lobby[r] \in LobbyState
                             /\ lobby[r].players \in Seq(Seat)
                             /\ lobby[r].totalCards \in Nat
                             /\ timers[r] \in Timers
         /\ \A j \in Joins : /\ RoomOf(j) \in Rooms
                             /\ request[j].user \in Users
                             /\ request[j].cards \in Nat
                             /\ Cost(j) \in Int
         /\ \A f \in DOMAIN fills : fills[f] \in Fill /\ fills[f].room \in Rooms
         /\ \A s \in DOMAIN starts : starts[s] \in Start /\ starts[s].room \in Rooms
<1>1. \A j \in Joins : request[j] \in Request
  BY DEF TypeOK
<1>2. \A j \in Joins : /\ RoomOf(j) \in Rooms /\ request[j].user \in Users
                       /\ request[j].cards \in Nat
  BY <1>1, CountsAssumption DEF Request, RoomOf
<1>3. \A j \in Joins : Cost(j) \in Int
  BY <1>2, TablesAssumption DEF Cost, RoomOf
<1>4. \A r \in Rooms : /\ lobby[r] \in LobbyState
                       /\ lobby[r].players \in Seq(Seat)
                       /\ lobby[r].totalCards \in Nat
                       /\ timers[r] \in Timers
  BY DEF TypeOK, LobbyState
<1>5. \A f \in DOMAIN fills : fills[f] \in Fill /\ fills[f].room \in Rooms
  <2>1. \A f \in DOMAIN fills : fills[f] \in Fill
    BY SeqFacts DEF TypeOK
  <2>. QED
    BY <2>1 DEF Fill
<1>6. \A s \in DOMAIN starts : starts[s] \in Start /\ starts[s].room \in Rooms
  <2>1. \A s \in DOMAIN starts : starts[s] \in Start
    BY SeqFacts DEF TypeOK
  <2>. QED
    BY <2>1 DEF Start
<1>. QED
  BY <1>2, <1>3, <1>4, <1>5, <1>6

\* The cards of any of the seats of a list add up to a number.
LEMMA CardsOfSeats ==
  ASSUME NEW ps \in Seq(Seat), NEW S \in SUBSET (DOMAIN ps)
  PROVE  /\ IsFiniteSet(S)
         /\ \A i \in DOMAIN ps : CardsOf(ps)[i] \in Nat
         /\ SumFunctionOnSet(CardsOf(ps), S) \in Int
<1>1. Len(ps) \in Nat /\ DOMAIN ps = 1..Len(ps)
  OBVIOUS
<1>2. IsFiniteSet(S)
  <2>1. 1 \in Int /\ Len(ps) \in Int /\ S \in SUBSET (1..Len(ps))
    BY <1>1
  <2>2. IsFiniteSet(1..Len(ps))
    BY <2>1, FS_Interval
  <2>. QED
    BY <2>1, <2>2, FS_Subset
<1>3. \A i \in DOMAIN ps : CardsOf(ps)[i] \in Nat
  <2>1. \A i \in DOMAIN ps : ps[i] \in Seat
    BY SeqFacts
  <2>2. \A i \in DOMAIN ps : ps[i].cards \in Nat
    BY <2>1 DEF Seat
  <2>. QED
    BY <2>2 DEF CardsOf
<1>. QED
  BY <1>2, <1>3, SumIsInt

\* createRandomBot keeps to its two limits, whatever the players hold.
LEMMA BotCardsBounded ==
  ASSUME NEW ps \in Seq(Seat)
  PROVE  BotCardCount(RealPlayerCards(ps)) \in BotMinCards..BotMaxCards
<1> DEFINE c == RealPlayerCards(ps) + 1
           d == Max({c, BotMinCards})
<1>1. RealPlayerCards(ps) \in Int
  BY CardsOfSeats DEF RealPlayerCards
<1>2. c \in Int
  BY <1>1
<1> HIDE DEF c
<1>3. d \in Int /\ BotMinCards <= d
  <2>1. \E x \in {c, BotMinCards} : \A y \in {c, BotMinCards} : x >= y
    BY <1>2, Limits
  <2>2. d \in {c, BotMinCards} /\ \A y \in {c, BotMinCards} : d >= y
    BY <2>1 DEF Max
  <2>. QED
    BY <1>2, <2>2, Limits
<1> HIDE DEF d
<1>4. Min({d, BotMaxCards}) \in BotMinCards..BotMaxCards
  <2>1. BotMaxCards \in Int /\ BotMinCards \in Int /\ BotMinCards <= BotMaxCards
    BY Limits, CountsAssumption
  <2>2. Min({d, BotMaxCards}) \in {d, BotMaxCards} /\ Min({d, BotMaxCards}) <= BotMaxCards
    BY <1>3, <2>1, MinPair
  <2>. QED
    BY <1>3, <2>1, <2>2
<1>. QED
  BY <1>4 DEF BotCardCount, c, d

LEMMA JoinTypeOK ==
  ASSUME TypeOK, NEW j \in Joins, JoinStep(j) \/ Call(j)
  PROVE  TypeOK'
<1>1. CASE Call(j) \/ Admit(j) \/ ReadUser(j) \/ CheckReferral(j) \/ ChargeFails(j)
  BY <1>1 DEF Call, Admit, ReadUser, CheckReferral, ChargeFails, Goto, TypeOK, JoinPC
<1>2. CASE Charge(j)
  BY <1>2, LobbyParts DEF Charge, Goto, TypeOK, JoinPC
<1>3. CASE TakeSeat(j)
  <2> DEFINE r == RoomOf(j)
             p == [join |-> j, cards |-> request[j].cards]
             l == Seated(lobby[r], p)
             t == IF lobby[r].players = <<>> THEN Scheduled(timers[r]) ELSE timers[r]
  <2>1. p \in Seat /\ r \in Rooms /\ lobby[r] \in LobbyState /\ timers[r] \in Timers
    BY LobbyParts DEF Seat
  <2>2. l \in LobbyState
    BY <2>1, SeatedType
  <2>3. t \in Timers
    BY <2>1, TimersUpdates
  <2>4. pc' \in [Joins -> JoinPC]
    BY <1>3 DEF TakeSeat, Goto, TypeOK, JoinPC
  <2>5. /\ lobby' \in [Rooms -> LobbyState] /\ starts' \in Seq(Start)
        /\ timers' \in [Rooms -> Timers]
    <3>1. CASE CancelAndFinalize(r, l, t)
      BY <2>1, <2>2, <2>3, <3>1, CancelAndFinalizeType
    <3>2. CASE /\ lobby' = [lobby EXCEPT ![r] = l]
               /\ timers' = [timers EXCEPT ![r] = t]
               /\ UNCHANGED starts
      BY <2>1, <2>2, <2>3, <3>2 DEF TypeOK
    <3>. QED
      BY <1>3, <3>1, <3>2 DEF TakeSeat
  <2>. QED
    BY <1>3, <2>4, <2>5 DEF TakeSeat, TypeOK
<1>. QED
  BY <1>1, <1>2, <1>3 DEF JoinStep

LEMMA TimerTypeOK ==
  ASSUME TypeOK, NEW r \in Rooms, TimerStep(r)
  PROVE  TypeOK'
<1> DEFINE fired(w) == [timers[r] EXCEPT !.armed = @ \ {w}]
<1>1. /\ lobby[r] \in LobbyState /\ timers[r] \in Timers
      /\ \A w : fired(w) \in Timers
  BY LobbyParts, TimersUpdates
<1>2. ASSUME NEW w, NEW l \in LobbyState, WindowFired(r, w, l)
      PROVE  /\ lobby' \in [Rooms -> LobbyState] /\ starts' \in Seq(Start)
             /\ timers' \in [Rooms -> Timers]
  <2>1. CASE CancelAndFinalize(r, l, fired(w))
    BY <1>1, <2>1, CancelAndFinalizeType
  <2>2. CASE /\ lobby' = [lobby EXCEPT ![r] = l]
             /\ timers' = [timers EXCEPT ![r] = fired(w)]
             /\ UNCHANGED starts
    BY <1>1, <2>2 DEF TypeOK
  <2>. QED
    BY <1>2, <2>1, <2>2 DEF WindowFired
<1>3. CASE FirstPeriod(r)
  <2>1. CASE lobby[r].status = "WAITING"
    <3>1. [lobby[r] EXCEPT !.first = TRUE] \in LobbyState
      BY <1>1 DEF LobbyState
    <3>. QED
      BY <1>2, <1>3, <2>1, <3>1 DEF FirstPeriod, TypeOK
  <2>2. CASE lobby[r].status # "WAITING"
    <3>1. /\ timers' = [timers EXCEPT ![r] = fired("first")]
          /\ UNCHANGED <<request, pc, credit, lobby, fills, starts>>
      BY <1>3, <2>2 DEF FirstPeriod
    <3>. QED
      BY <1>1, <3>1 DEF TypeOK
  <2>. QED
    BY <2>1, <2>2
<1>4. CASE SecondPeriod(r)
  <2>1. CASE lobby[r].status = "WAITING"
    <3>1. [lobby[r] EXCEPT !.second = TRUE] \in LobbyState
      BY <1>1 DEF LobbyState
    <3>. QED
      BY <1>2, <1>4, <2>1, <3>1 DEF SecondPeriod, TypeOK
  <2>2. CASE lobby[r].status # "WAITING"
    <3>1. /\ timers' = [timers EXCEPT ![r] = fired("second")]
          /\ UNCHANGED <<request, pc, credit, lobby, fills, starts>>
      BY <1>4, <2>2 DEF SecondPeriod
    <3>. QED
      BY <1>1, <3>1 DEF TypeOK
  <2>. QED
    BY <2>1, <2>2
<1>5. CASE BotEntryIdle(r) \/ BotEntryFills(r)
  <2>1. timers' \in [Rooms -> Timers]
    <3>1. [timers[r] EXCEPT !.bot = @ - 1] \in Timers
      BY <1>1, <1>5, TimersUpdates DEF BotEntryIdle, BotEntryFills, BotTimerFires
    <3>2. timers' = [timers EXCEPT ![r] = [timers[r] EXCEPT !.bot = @ - 1]]
      BY <1>5 DEF BotEntryIdle, BotEntryFills, BotTimerFires
    <3>. QED
      BY <3>1, <3>2 DEF TypeOK
  <2>2. CASE BotEntryIdle(r)
    BY <2>1, <2>2 DEF BotEntryIdle, TypeOK
  <2>3. CASE BotEntryFills(r)
    <3>1. [lobby[r] EXCEPT !.filling = TRUE] \in LobbyState
      BY <1>1 DEF LobbyState
    <3>2. \A n \in BotMinCards..BotMaxCards :
            [pc |-> "bot", room |-> r, added |-> 0, cards |-> n] \in Fill
      BY Limits DEF Fill
    <3>3. fills' \in Seq(Fill)
      BY <2>3, <3>2, BotCardsBounded, LobbyParts, SeqFacts DEF BotEntryFills, TypeOK
    <3>. QED
      BY <2>1, <2>3, <3>1, <3>3 DEF BotEntryFills, TypeOK
  <2>. QED
    BY <1>5, <2>2, <2>3
<1>. QED
  BY <1>3, <1>4, <1>5 DEF TimerStep

LEMMA FillTypeOK ==
  ASSUME TypeOK, NEW f \in DOMAIN fills, FillStep(f)
  PROVE  TypeOK'
<1> DEFINE r == fills[f].room
           g == fills[f]
<1>1. /\ g \in Fill /\ r \in Rooms
      /\ lobby[r] \in LobbyState /\ timers[r] \in Timers
  BY LobbyParts
<1>2. /\ \A e \in {"ended", "failed"} : [g EXCEPT !.pc = e] \in Fill
      /\ [g EXCEPT !.pc = "sleep", !.added = @ + 1] \in Fill
      /\ \A n \in BotMinCards..BotMaxCards : [g EXCEPT !.pc = "bot", !.cards = n] \in Fill
  <2>1. BotMinCards..BotMaxCards \subseteq Nat
    BY CountsAssumption
  <2>. QED
    BY <1>1, <2>1, FillUpdates
<1>3. fills' \in Seq(Fill)
  <2>1. \/ \E e \in {"ended", "failed"} : fills' = [fills EXCEPT ![f] = [g EXCEPT !.pc = e]]
        \/ fills' = [fills EXCEPT ![f] = [g EXCEPT !.pc = "sleep", !.added = @ + 1]]
        \/ \E n \in BotMinCards..BotMaxCards :
             fills' = [fills EXCEPT ![f] = [g EXCEPT !.pc = "bot", !.cards = n]]
    BY <1>1, BotCardsBounded, LobbyParts
       DEF FillStep, BotJoins, FillFails, FillExits, EndFill, FillAbandons,
           FillContinues
  <2>. QED
    <3>1. PICK h \in Fill : fills' = [fills EXCEPT ![f] = h]
      BY <1>2, <2>1
    <3>. QED
      BY <3>1, SeqFacts DEF TypeOK
<1>4. CASE FillFails(f) \/ FillAbandons(f) \/ FillContinues(f)
  BY <1>3, <1>4 DEF FillFails, FillAbandons, FillContinues, TypeOK
<1>5. CASE BotJoins(f)
  <2> DEFINE n == Min({fills[f].cards, MaxCardsPerMatch - lobby[r].totalCards})
  <2>1. n \in Int
    <3>1. /\ fills[f].cards \in Int
          /\ MaxCardsPerMatch - lobby[r].totalCards \in Int
      <4>1. fills[f].cards \in Int
        BY <1>1, FillUpdates
      <4>2. lobby[r].totalCards \in Nat
        BY <1>1, LobbyParts
      <4>. QED
        BY <4>1, <4>2, Limits
    <3>. QED
      BY <3>1, MinPair
  <2>2. n > 0 => Seated(lobby[r], [join |-> BOT, cards |-> n]) \in LobbyState
    BY <1>1, <2>1, SeatedType DEF Seat
  <2>. QED
    BY <1>1, <1>3, <1>5, <2>2 DEF BotJoins, TypeOK
<1>6. CASE FillExits(f)
  <2> DEFINE l == [lobby[r] EXCEPT !.filling = FALSE]
  <2>1. l \in LobbyState
    BY <1>1 DEF LobbyState
  <2>2. CASE CancelAndFinalize(r, l, timers[r])
    BY <1>1, <1>3, <1>6, <2>1, <2>2, CancelAndFinalizeType DEF FillExits, EndFill, TypeOK
  <2>3. CASE lobby' = [lobby EXCEPT ![r] = l] /\ UNCHANGED <<timers, starts>>
    BY <1>1, <1>3, <1>6, <2>1, <2>3 DEF FillExits, EndFill, TypeOK
  <2>. QED
    BY <1>6, <2>2, <2>3 DEF FillExits, EndFill
<1>. QED
  BY <1>4, <1>5, <1>6 DEF FillStep

\* The updates of a start that actions make.
LEMMA StartUpdates ==
  ASSUME NEW g \in Start, NEW n \in Nat, NEW p \in Seat
  PROVE  /\ [g EXCEPT !.pc = "create", !.entry = n] \in Start
         /\ [g EXCEPT !.pc = "assign", !.cards = n] \in Start
         /\ [g EXCEPT !.seats = Append(@, p), !.dealt = @ + p.cards] \in Start
         /\ \A label \in StartPC : [g EXCEPT !.pc = label] \in Start
<1>1. [g EXCEPT !.pc = "create", !.entry = n] \in Start
  BY DEF Start, StartPC
<1>2. [g EXCEPT !.pc = "assign", !.cards = n] \in Start
  BY DEF Start, StartPC
<1>3. [g EXCEPT !.seats = Append(@, p), !.dealt = @ + p.cards] \in Start
  <2>1. Append(g.seats, p) \in Seq(Seat)
    BY DEF Start
  <2>2. g.dealt + p.cards \in Nat
    BY DEF Start, Seat
  <2>. QED
    BY <2>1, <2>2 DEF Start
<1>4. \A label \in StartPC : [g EXCEPT !.pc = label] \in Start
  BY DEF Start
<1>. QED
  BY <1>1, <1>2, <1>3, <1>4

\* While not every player has cards, the next one is a seat of the lobby.
LEMMA NextSeatType ==
  ASSUME TypeOK, NEW s \in DOMAIN starts, ~ AllDealt(s)
  PROVE  /\ NextSeat(s) \in Seat
         /\ Len(starts[s].seats) + 1 \in DOMAIN Players(s)
<1>1. starts[s].seats \in Seq(Seat) /\ Players(s) \in Seq(Seat)
  BY LobbyParts DEF Start, Players
<1>2. Len(starts[s].seats) + 1 \in 1..Len(Players(s))
  BY <1>1 DEF AllDealt
<1>. QED
  BY <1>1, <1>2 DEF NextSeat

LEMMA StartTypeOK ==
  ASSUME TypeOK, NEW s \in DOMAIN starts, StartStep(s)
  PROVE  TypeOK'
<1> DEFINE r == starts[s].room
           g == starts[s]
<1>1. /\ g \in Start /\ r \in Rooms
      /\ lobby[r] \in LobbyState /\ timers[r] \in Timers
      /\ lobby[r].totalCards \in Nat
  BY LobbyParts
<1>2. ASSUME NEW h \in Start, starts' = [starts EXCEPT ![s] = h]
      PROVE  starts' \in Seq(Start)
  BY <1>2, SeqFacts DEF TypeOK
<1>3. [lobby[r] EXCEPT !.status = "WAITING"] \in LobbyState
  BY <1>1 DEF LobbyState
<1>4. \A n \in Nat, p \in Seat :
        /\ [g EXCEPT !.pc = "create", !.entry = n] \in Start
        /\ [g EXCEPT !.pc = "assign", !.cards = n] \in Start
        /\ [g EXCEPT !.seats = Append(@, p), !.dealt = @ + p.cards] \in Start
  BY <1>1, StartUpdates
<1>5. \A label \in StartPC : [g EXCEPT !.pc = label] \in Start
  <2>1. [join |-> BOT, cards |-> 0] \in Seat
    BY DEF Seat
  <2>. QED
    BY <1>1, <2>1, StartUpdates
<1>6. CASE ReadRoom(s)
  <2>1. starts' = [starts EXCEPT ![s] = [g EXCEPT !.pc = "create",
                                                  !.entry = lobby[r].totalCards]]
    BY <1>6 DEF ReadRoom
  <2>2. [join |-> BOT, cards |-> 0] \in Seat
    BY DEF Seat
  <2>3. [g EXCEPT !.pc = "create", !.entry = lobby[r].totalCards] \in Start
    BY <1>1, <1>4, <2>2
  <2>4. starts' \in Seq(Start)
    BY <1>2, <2>1, <2>3
  <2>. QED
    BY <1>6, <2>4 DEF ReadRoom, TypeOK
<1>7. CASE CreateMatch(s)
  <2>1. starts' = [starts EXCEPT ![s] = [g EXCEPT !.pc = "assign",
                                                  !.cards = lobby[r].totalCards]]
    BY <1>7 DEF CreateMatch
  <2>2. [join |-> BOT, cards |-> 0] \in Seat
    BY DEF Seat
  <2>3. [g EXCEPT !.pc = "assign", !.cards = lobby[r].totalCards] \in Start
    BY <1>1, <1>4, <2>2
  <2>4. starts' \in Seq(Start)
    BY <1>2, <2>1, <2>3
  <2>. QED
    BY <1>7, <2>4 DEF CreateMatch, TypeOK
<1>8. CASE Assign(s)
  <2>1. NextSeat(s) \in Seat
    BY <1>8, NextSeatType DEF Assign
  <2>. QED
    BY <1>2, <1>4, <1>8, <2>1 DEF Assign, TypeOK
<1>9. CASE Commit(s) \/ BeginCalling(s)
  BY <1>2, <1>5, <1>9 DEF Commit, BeginCalling, StartPC, TypeOK
<1>10. CASE StartFails(s)
  <2>1. [NewStart(r) EXCEPT !.pc = "failed"] \in Start
    <3>1. [pc |-> "failed", room |-> r, entry |-> 0, cards |-> 0, dealt |-> 0,
           seats |-> <<>>] \in Start
      BY <1>1 DEF Start, StartPC
    <3>. QED
      BY <3>1 DEF NewStart
  <2>2. starts' \in Seq(Start)
    BY <1>2, <1>10, <2>1 DEF StartFails
  <2>. QED
    BY <1>1, <1>3, <1>10, <2>2 DEF StartFails, Reopened, TypeOK
<1>11. CASE Announce(s)
  <2>1. EmptyLobby \in LobbyState
    BY DEF EmptyLobby, LobbyState
  <2>2. Cancelled(timers[r]) \in Timers
    BY <1>1 DEF Cancelled, Timers
  <2>3. starts' \in Seq(Start)
    BY <1>2, <1>5, <1>11 DEF Announce, StartPC
  <2>. QED
    BY <1>1, <1>11, <2>1, <2>2, <2>3 DEF Announce, TypeOK
<1>12. CASE StartAborts(s)
  <2>1. starts' \in Seq(Start)
    BY <1>2, <1>5, <1>12 DEF StartAborts, StartPC
  <2>. QED
    BY <1>1, <1>3, <1>12, <2>1 DEF StartAborts, Reopened, TypeOK
<1>. QED
  BY <1>6, <1>7, <1>8, <1>9, <1>10, <1>11, <1>12 DEF StartStep

LEMMA NextTypeOK == TypeOK /\ [Next]_vars => TypeOK'
<1> SUFFICES ASSUME TypeOK, [Next]_vars
             PROVE  TypeOK'
  OBVIOUS
<1>1. ASSUME NEW u \in Users, NEW a \in Prizes, Settle(u, a)
      PROVE  TypeOK'
  BY <1>1, CountsAssumption DEF Settle, TypeOK
<1>2. CASE UNCHANGED vars
  BY <1>2 DEF vars, TypeOK
<1>. QED
  BY <1>1, <1>2, JoinTypeOK, TimerTypeOK, FillTypeOK, StartTypeOK DEF Next, ServerStep

\* Every step of the lobby writes values of the types its code declares.
THEOREM TypeCorrect == Spec => []TypeOK
<1>. QED
  BY InitTypeOK, NextTypeOK, PTL DEF Spec

-----------------------------------------------------------------------------
(***************************************************************************)
(* The inductive invariant. OneStartPerRoom, SeatsArePrefix and the quorum *)
(* need each other: a start reads the lobby of its room after every await, *)
(* and the lobby keeps its players because no other start can reset it.    *)
(***************************************************************************)

\* What a start has read so far reached the quorum.
QuorumRead ==
  \A s \in DOMAIN starts :
    /\ starts[s].pc \notin {"room", "failed"} => starts[s].entry >= MinCardsToStart
    /\ starts[s].pc \notin {"room", "create", "failed"}
         => starts[s].cards >= MinCardsToStart

QuorumHeld ==
  \A s \in DOMAIN starts :
    Active(s) => lobby[starts[s].room].totalCards >= MinCardsToStart

Held(l) == l.totalCards > 0 => l.players # <<>>

CardsHeld == \A r \in Rooms : Held(lobby[r])

ControlInv ==
  /\ TypeOK /\ OneStartPerRoom /\ TimersOnlyWhileWaiting /\ SeatsArePrefix
  /\ QuorumRead /\ QuorumHeld /\ CardsHeld

LEMMA InitControlInv == Init => ControlInv
<1> SUFFICES ASSUME Init
             PROVE  ControlInv
  OBVIOUS
<1>1. TypeOK
  BY InitTypeOK
<1>2. DOMAIN starts = {}
  BY DEF Init
<1>3. CardsHeld /\ TimersOnlyWhileWaiting
  BY DEF Init, CardsHeld, Held, TimersOnlyWhileWaiting, EmptyLobby, NoTimers
<1>4. OneStartPerRoom
  BY <1>2 DEF Init, OneStartPerRoom, EmptyLobby
<1>. QED
  BY <1>1, <1>2, <1>3, <1>4 DEF ControlInv, SeatsArePrefix, QuorumRead, QuorumHeld

\* m has the players of l and perhaps more, and no fewer cards.
Extends(l, m) ==
  /\ l.totalCards <= m.totalCards
  /\ Len(l.players) <= Len(m.players)
  /\ \A i \in DOMAIN l.players : m.players[i] = l.players[i]

\* What joins, timers and fills do to a room: the lobby grows to m, its timers
\* become t, and perhaps a quorum opens a new start.
Grows(r, m, t) ==
  /\ lobby' = [lobby EXCEPT ![r] = m]
  /\ timers' = [timers EXCEPT ![r] = t]
  /\ Extends(lobby[r], m) /\ Held(m)
  /\ t.armed # {} => t.scheduled /\ m.status = "WAITING" /\ m.players # <<>>
  /\ \/ starts' = starts /\ m.status = lobby[r].status
     \/ /\ starts' = Append(starts, NewStart(r))
        /\ lobby[r].status = "WAITING" /\ m.status = "STARTING"
        /\ m.totalCards >= MinCardsToStart

RoomGrows(r) == \E m \in LobbyState, t \in Timers : Grows(r, m, t)

\* Finalizing a lobby that just grew: its timers are gone, and a start is
\* opened only when none works on the room.
LEMMA CancelAndFinalizeGrows ==
  ASSUME TypeOK, NEW r \in Rooms, NEW l \in LobbyState, NEW t \in Timers,
         Extends(lobby[r], l), Held(l), l.status = lobby[r].status,
         l.totalCards >= MinCardsToStart, CancelAndFinalize(r, l, t)
  PROVE  RoomGrows(r)
<1> DEFINE m == IF l.status = "WAITING" THEN [l EXCEPT !.status = "STARTING"] ELSE l
           c == Cancelled(t)
<1>1. m \in LobbyState /\ c \in Timers /\ c.armed = {}
  BY DEF LobbyState, Cancelled, Timers
<1>2. m.players = l.players /\ m.totalCards = l.totalCards
  BY DEF LobbyState
<1>3. lobby' = [lobby EXCEPT ![r] = m] /\ timers' = [timers EXCEPT ![r] = c]
  BY DEF CancelAndFinalize, FinalizeLobby
<1>4. Extends(lobby[r], m) /\ Held(m)
  BY <1>2 DEF Extends, Held
<1>5. CASE l.status = "WAITING"
  <2>1. starts' = Append(starts, NewStart(r)) /\ m.status = "STARTING"
    BY <1>5 DEF CancelAndFinalize, FinalizeLobby, LobbyState
  <2>. QED
    BY <1>1, <1>2, <1>3, <1>4, <1>5, <2>1 DEF RoomGrows, Grows
<1>6. CASE l.status # "WAITING"
  <2>1. starts' = starts /\ m = l
    BY <1>6 DEF CancelAndFinalize, FinalizeLobby
  <2>. QED
    BY <1>1, <1>3, <1>4, <2>1 DEF RoomGrows, Grows
<1>. QED
  BY <1>5, <1>6

\* A step that only makes a lobby grow preserves the invariant.
LEMMA GrowsControlInv ==
  ASSUME ControlInv, TypeOK', NEW r \in Rooms, RoomGrows(r)
  PROVE  ControlInv'
<1>1. PICK m \in LobbyState, t \in Timers : Grows(r, m, t)
  BY DEF RoomGrows
<1>2. /\ lobby'[r] = m /\ timers'[r] = t
      /\ \A q \in Rooms \ {r} : lobby'[q] = lobby[q] /\ timers'[q] = timers[q]
  BY <1>1 DEF Grows, ControlInv, TypeOK
<1>3. \A q \in Rooms : Extends(lobby[q], lobby'[q])
  BY <1>1, <1>2, LobbyParts DEF Grows, Extends, ControlInv, LobbyState
<1>4. CardsHeld' /\ TimersOnlyWhileWaiting'
  BY <1>1, <1>2 DEF Grows, ControlInv, CardsHeld, Held, TimersOnlyWhileWaiting
<1>5. CASE starts' = starts /\ m.status = lobby[r].status
  <2>1. \A q \in Rooms : lobby'[q].status = lobby[q].status
    BY <1>2, <1>5
  <2>2. OneStartPerRoom'
    BY <1>5, <2>1 DEF ControlInv, OneStartPerRoom, Active
  <2>3. QuorumRead'
    BY <1>5 DEF ControlInv, QuorumRead
  <2>4. \A s \in DOMAIN starts :
          /\ Extends(lobby[starts[s].room], lobby'[starts[s].room])
          /\ lobby[starts[s].room].totalCards \in Nat
          /\ lobby'[starts[s].room].totalCards \in Nat
          /\ lobby[starts[s].room].players \in Seq(Seat)
          /\ lobby'[starts[s].room].players \in Seq(Seat)
          /\ starts[s].seats \in Seq(Seat)
    <3>1. \A s \in DOMAIN starts : starts[s].room \in Rooms /\ starts[s] \in Start
      BY LobbyParts DEF ControlInv
    <3>2. \A q \in Rooms : lobby[q] \in LobbyState /\ lobby'[q] \in LobbyState
      BY DEF ControlInv, TypeOK
    <3>. QED
      BY <1>3, <3>1, <3>2 DEF LobbyState, Start
  <2>5. QuorumHeld'
    BY <1>5, <2>4, Limits DEF ControlInv, QuorumHeld, Active, Extends
  <2>6. SeatsArePrefix'
    <3>1. SUFFICES ASSUME NEW s \in DOMAIN starts, Active(s)
                   PROVE  LET ps == lobby'[starts[s].room].players
                          IN /\ Len(starts[s].seats) <= Len(ps)
                             /\ \A i \in DOMAIN starts[s].seats : starts[s].seats[i] = ps[i]
      BY <1>5 DEF SeatsArePrefix, Players, Active
    <3>2. /\ Len(starts[s].seats) <= Len(lobby[starts[s].room].players)
          /\ \A i \in DOMAIN starts[s].seats :
               starts[s].seats[i] = lobby[starts[s].room].players[i]
      BY <3>1 DEF ControlInv, SeatsArePrefix, Players
    <3> DEFINE q == starts[s].seats
               a == lobby[starts[s].room].players
               b == lobby'[starts[s].room].players
    <3>3. q \in Seq(Seat) /\ a \in Seq(Seat) /\ b \in Seq(Seat)
      BY <2>4
    <3>4. Len(a) <= Len(b) /\ \A i \in DOMAIN a : b[i] = a[i]
      BY <2>4 DEF Extends
    <3> HIDE DEF q, a, b
    <3>5. /\ Len(q) <= Len(b)
          /\ \A i \in DOMAIN q : i \in DOMAIN a /\ q[i] = b[i]
      <4>1. Len(q) <= Len(a) /\ \A i \in DOMAIN q : q[i] = a[i]
        BY <3>2 DEF q, a
      <4>. QED
        BY <3>3, <3>4, <4>1
    <3>. QED
      BY <3>5 DEF q, b
  <2>. QED
    BY <1>4, <2>2, <2>3, <2>5, <2>6 DEF ControlInv
<1>6. CASE /\ starts' = Append(starts, NewStart(r))
           /\ lobby[r].status = "WAITING" /\ m.status = "STARTING"
           /\ m.totalCards >= MinCardsToStart
  <2>1. PICK n \in Nat :
          /\ DOMAIN starts' = DOMAIN starts \cup {n} /\ n \notin DOMAIN starts
          /\ starts'[n] = NewStart(r)
          /\ \A s \in DOMAIN starts : starts'[s] = starts[s]
    <3>1. Len(starts) + 1 \in Nat
      BY DEF ControlInv, TypeOK
    <3>2. /\ DOMAIN starts' = DOMAIN starts \cup {Len(starts) + 1}
          /\ Len(starts) + 1 \notin DOMAIN starts
          /\ starts'[Len(starts) + 1] = NewStart(r)
          /\ \A s \in DOMAIN starts : starts'[s] = starts[s]
      BY <1>6 DEF ControlInv, TypeOK
    <3>. QED
      BY <3>1, <3>2
  <2>2. \A s \in DOMAIN starts : Active(s) => starts[s].room # r
    BY <1>6, LobbyParts DEF ControlInv, OneStartPerRoom
  <2>3. starts'[n].pc = "room" /\ starts'[n].room = r
    BY <2>1 DEF NewStart
  <2>4. OneStartPerRoom'
    <3>1. \A s, u \in DOMAIN starts' :
            Active(s)' /\ Active(u)' /\ starts'[s].room = starts'[u].room => s = u
      BY <2>1, <2>2, <2>3 DEF ControlInv, OneStartPerRoom, Active
    <3>2. \A q \in Rooms : lobby'[q].status = "STARTING"
            <=> \E s \in DOMAIN starts' : Active(s)' /\ starts'[s].room = q
      <4>1. lobby'[r].status = "STARTING"
        BY <1>2, <1>6
      <4>2. Active(n)' /\ starts'[n].room = r
        BY <2>3 DEF Active
      <4>3. \A q \in Rooms \ {r} :
              (\E s \in DOMAIN starts' : Active(s)' /\ starts'[s].room = q)
                <=> \E s \in DOMAIN starts : Active(s) /\ starts[s].room = q
        BY <2>1, <2>3 DEF Active
      <4>4. \A q \in Rooms \ {r} : lobby'[q].status = "STARTING"
              <=> \E s \in DOMAIN starts' : Active(s)' /\ starts'[s].room = q
        BY <1>2, <4>3 DEF ControlInv, OneStartPerRoom
      <4>. QED
        BY <2>1, <4>1, <4>2, <4>4
    <3>. QED
      BY <3>1, <3>2 DEF OneStartPerRoom
  <2>5. QuorumRead'
    BY <2>1, <2>3 DEF ControlInv, QuorumRead
  <2>6. QuorumHeld'
    <3>1. \A s \in DOMAIN starts : Active(s) =>
            lobby'[starts[s].room].totalCards >= MinCardsToStart
      BY <1>2, <2>2, LobbyParts DEF ControlInv, QuorumHeld
    <3>. QED
      BY <1>2, <1>6, <2>1, <2>3, <3>1 DEF QuorumHeld, Active
  <2>7. SeatsArePrefix'
    <3>1. starts'[n].seats = <<>>
      BY <2>1 DEF NewStart
    <3>2. \A s \in DOMAIN starts : Active(s) =>
            lobby'[starts[s].room] = lobby[starts[s].room]
      BY <1>2, <2>2, LobbyParts DEF ControlInv
    <3>3. lobby'[r].players \in Seq(Seat)
      BY <1>2 DEF LobbyState
    <3>. QED
      BY <2>1, <2>3, <3>1, <3>2, <3>3 DEF ControlInv, SeatsArePrefix, Players, Active
  <2>. QED
    BY <1>4, <2>4, <2>5, <2>6, <2>7 DEF ControlInv
<1>. QED
  BY <1>1, <1>5, <1>6 DEF Grows

LEMMA UnchangedControlInv ==
  ASSUME ControlInv, TypeOK', UNCHANGED <<lobby, timers, starts>>
  PROVE  ControlInv'
<1>1. OneStartPerRoom' /\ TimersOnlyWhileWaiting'
  BY DEF ControlInv, OneStartPerRoom, TimersOnlyWhileWaiting, Active
<1>2. SeatsArePrefix' /\ QuorumRead' /\ QuorumHeld' /\ CardsHeld'
  BY DEF ControlInv, SeatsArePrefix, Players, QuorumRead, QuorumHeld, Active,
         CardsHeld, Held
<1>. QED
  BY <1>1, <1>2 DEF ControlInv

\* A lobby without players waits, and its timers are those of a waiting lobby.
LEMMA LobbyFacts ==
  ASSUME ControlInv, NEW r \in Rooms
  PROVE  /\ lobby[r] \in LobbyState /\ timers[r] \in Timers
         /\ lobby[r].players \in Seq(Seat) /\ lobby[r].totalCards \in Nat
         /\ Held(lobby[r])
         /\ lobby[r].players = <<>> => lobby[r].status = "WAITING"
         /\ timers[r].armed # {} => /\ timers[r].scheduled
                                    /\ lobby[r].status = "WAITING"
                                    /\ lobby[r].players # <<>>
<1>1. /\ lobby[r] \in LobbyState /\ timers[r] \in Timers
      /\ lobby[r].players \in Seq(Seat) /\ lobby[r].totalCards \in Nat
  BY LobbyParts DEF ControlInv
<1>2. Held(lobby[r])
  BY DEF ControlInv, CardsHeld
<1>3. lobby[r].status = "STARTING" => lobby[r].totalCards >= MinCardsToStart
  BY DEF ControlInv, OneStartPerRoom, QuorumHeld
<1>4. lobby[r].players = <<>> => lobby[r].status = "WAITING"
  BY <1>1, <1>2, <1>3, Limits DEF Held, LobbyState
<1>. QED
  BY <1>1, <1>2, <1>4 DEF ControlInv, TimersOnlyWhileWaiting

\* A seat added at the end makes a lobby grow.
LEMMA SeatedExtends ==
  ASSUME NEW l \in LobbyState, NEW p \in Seat
  PROVE  /\ Seated(l, p) \in LobbyState
         /\ Extends(l, Seated(l, p)) /\ Held(Seated(l, p))
         /\ Seated(l, p).players # <<>>
         /\ Seated(l, p).status = l.status
<1>1. l.players \in Seq(Seat) /\ l.totalCards \in Nat /\ p.cards \in Nat
  BY DEF LobbyState, Seat
<1>2. /\ Len(Append(l.players, p)) = Len(l.players) + 1
      /\ \A i \in DOMAIN l.players : Append(l.players, p)[i] = l.players[i]
      /\ Append(l.players, p) # <<>>
  BY <1>1
<1>3. /\ Seated(l, p) \in LobbyState
      /\ Seated(l, p).players = Append(l.players, p)
      /\ Seated(l, p).totalCards = l.totalCards + p.cards
      /\ Seated(l, p).status = l.status
  BY SeatedType
<1>4. l.totalCards <= l.totalCards + p.cards /\ Len(l.players) <= Len(l.players) + 1
  BY <1>1
<1>5. Extends(l, Seated(l, p))
  BY <1>2, <1>3, <1>4 DEF Extends
<1>. QED
  BY <1>2, <1>3, <1>5 DEF Held

\* A lobby whose flags alone change grows, too.
LEMMA FlagsExtend ==
  ASSUME NEW l \in LobbyState, Held(l), NEW m \in LobbyState,
         m.players = l.players, m.totalCards = l.totalCards
  PROVE  Extends(l, m) /\ Held(m)
BY DEF Extends, Held, LobbyState

\* What a step of a join, a timer or a fill may do to lobbies and starts.
Tame ==
  \/ \E r \in Rooms : RoomGrows(r)
  \/ UNCHANGED <<lobby, timers, starts>>

LEMMA JoinTame ==
  ASSUME ControlInv, NEW j \in Joins, JoinStep(j) \/ Call(j)
  PROVE  Tame
<1>2. CASE \/ Call(j) \/ Admit(j) \/ ReadUser(j) \/ CheckReferral(j)
           \/ Charge(j) \/ ChargeFails(j)
  BY <1>2 DEF Tame, Call, Admit, ReadUser, CheckReferral, Charge, ChargeFails
<1>3. CASE TakeSeat(j)
  <2> DEFINE r == RoomOf(j)
             p == [join |-> j, cards |-> request[j].cards]
             l == Seated(lobby[r], p)
             t == IF lobby[r].players = <<>> THEN Scheduled(timers[r]) ELSE timers[r]
  <2>1. p \in Seat /\ r \in Rooms
    BY LobbyParts DEF Seat, ControlInv
  <2>2. lobby[r] \in LobbyState /\ timers[r] \in Timers
    BY <2>1, LobbyFacts
  <2>3. t \in Timers
    BY <2>2, TimersUpdates
  <2>4. /\ l \in LobbyState /\ Extends(lobby[r], l) /\ Held(l)
        /\ l.players # <<>> /\ l.status = lobby[r].status
    BY <2>1, <2>2, SeatedExtends
  <2>5. t.armed # {} => t.scheduled /\ lobby[r].status = "WAITING"
    BY <2>1, LobbyFacts DEF Scheduled
  <2>6. CASE l.totalCards >= MaxCardsPerMatch
    <3>1. l.totalCards >= MinCardsToStart
      BY <2>4, <2>6, CountsAssumption, Limits DEF LobbyState
    <3>2. CancelAndFinalize(r, l, t)
      BY <1>3, <2>6 DEF TakeSeat
    <3>. QED
      BY <2>1, <2>3, <2>4, <3>1, <3>2, CancelAndFinalizeGrows DEF Tame, ControlInv
  <2>7. CASE ~ (l.totalCards >= MaxCardsPerMatch)
    <3>1. /\ lobby' = [lobby EXCEPT ![r] = l] /\ timers' = [timers EXCEPT ![r] = t]
          /\ starts' = starts
      BY <1>3, <2>7 DEF TakeSeat
    <3>2. RoomGrows(r)
      BY <2>3, <2>4, <2>5, <3>1 DEF RoomGrows, Grows
    <3>. QED
      BY <2>1, <3>2 DEF Tame
  <2>. QED
    BY <2>6, <2>7
<1>. QED
  BY <1>2, <1>3 DEF JoinStep

LEMMA TimerTame ==
  ASSUME ControlInv, NEW r \in Rooms, TimerStep(r)
  PROVE  Tame
<1> DEFINE fired(w) == [timers[r] EXCEPT !.armed = @ \ {w}]
<1>2. lobby[r] \in LobbyState /\ timers[r] \in Timers /\ Held(lobby[r])
  BY LobbyFacts
<1>3. Extends(lobby[r], lobby[r])
  BY <1>2, FlagsExtend
<1>4. \A w : /\ fired(w) \in Timers
             /\ fired(w).armed # {} => /\ fired(w).scheduled
                                       /\ lobby[r].status = "WAITING"
                                       /\ lobby[r].players # <<>>
  BY <1>2, LobbyFacts, TimersUpdates DEF Timers
<1>5. ASSUME NEW w, NEW l \in LobbyState, WindowFired(r, w, l),
             l.players = lobby[r].players, l.totalCards = lobby[r].totalCards,
             l.status = lobby[r].status
      PROVE  Tame
  <2>1. Extends(lobby[r], l) /\ Held(l)
    BY <1>2, <1>5, FlagsExtend
  <2>2. CASE l.totalCards >= MinCardsToStart
    <3>1. CancelAndFinalize(r, l, fired(w))
      BY <1>5, <2>2 DEF WindowFired
    <3>. QED
      BY <1>4, <1>5, <2>1, <2>2, <3>1, CancelAndFinalizeGrows DEF Tame, ControlInv
  <2>3. CASE ~ (l.totalCards >= MinCardsToStart)
    <3>1. /\ lobby' = [lobby EXCEPT ![r] = l]
          /\ timers' = [timers EXCEPT ![r] = fired(w)] /\ starts' = starts
      BY <1>5, <2>3 DEF WindowFired
    <3>2. RoomGrows(r)
      BY <1>4, <1>5, <2>1, <3>1 DEF RoomGrows, Grows
    <3>. QED
      BY <3>2 DEF Tame
  <2>. QED
    BY <2>2, <2>3
<1>6. ASSUME NEW t \in Timers, UNCHANGED <<lobby, starts>>,
             timers' = [timers EXCEPT ![r] = t],
             t.armed \subseteq timers[r].armed, t.scheduled = timers[r].scheduled
      PROVE  Tame
  <2>1. lobby' = [lobby EXCEPT ![r] = lobby[r]]
    BY <1>6 DEF ControlInv, TypeOK
  <2>2. RoomGrows(r)
    BY <1>2, <1>3, <1>6, <2>1, LobbyFacts DEF RoomGrows, Grows
  <2>. QED
    BY <2>2 DEF Tame
<1>7. CASE FirstPeriod(r)
  <2>1. CASE lobby[r].status = "WAITING"
    <3> DEFINE l == [lobby[r] EXCEPT !.first = TRUE]
    <3>1. l \in LobbyState /\ l.players = lobby[r].players
          /\ l.totalCards = lobby[r].totalCards /\ l.status = lobby[r].status
      BY <1>2 DEF LobbyState
    <3>2. WindowFired(r, "first", l)
      BY <1>7, <2>1 DEF FirstPeriod
    <3>. QED
      BY <1>5, <3>1, <3>2
  <2>2. CASE lobby[r].status # "WAITING"
    <3>1. timers' = [timers EXCEPT ![r] = fired("first")] /\ UNCHANGED <<lobby, starts>>
      BY <1>7, <2>2 DEF FirstPeriod
    <3>2. fired("first").armed \subseteq timers[r].armed
          /\ fired("first").scheduled = timers[r].scheduled
      BY <1>2 DEF Timers
    <3>. QED
      BY <1>4, <1>6, <3>1, <3>2
  <2>. QED
    BY <2>1, <2>2
<1>8. CASE SecondPeriod(r)
  <2>1. CASE lobby[r].status = "WAITING"
    <3> DEFINE l == [lobby[r] EXCEPT !.second = TRUE]
    <3>1. l \in LobbyState /\ l.players = lobby[r].players
          /\ l.totalCards = lobby[r].totalCards /\ l.status = lobby[r].status
      BY <1>2 DEF LobbyState
    <3>2. WindowFired(r, "second", l)
      BY <1>8, <2>1 DEF SecondPeriod
    <3>. QED
      BY <1>5, <3>1, <3>2
  <2>2. CASE lobby[r].status # "WAITING"
    <3>1. timers' = [timers EXCEPT ![r] = fired("second")] /\ UNCHANGED <<lobby, starts>>
      BY <1>8, <2>2 DEF SecondPeriod
    <3>2. fired("second").armed \subseteq timers[r].armed
          /\ fired("second").scheduled = timers[r].scheduled
      BY <1>2 DEF Timers
    <3>. QED
      BY <1>4, <1>6, <3>1, <3>2
  <2>. QED
    BY <2>1, <2>2
<1>9. CASE BotEntryIdle(r) \/ BotEntryFills(r)
  <2> DEFINE t == [timers[r] EXCEPT !.bot = @ - 1]
  <2>1. timers' = [timers EXCEPT ![r] = t] /\ timers[r].bot > 0 /\ starts' = starts
    BY <1>9 DEF BotEntryIdle, BotEntryFills, BotTimerFires
  <2>2. t \in Timers /\ t.armed = timers[r].armed /\ t.scheduled = timers[r].scheduled
    BY <1>2, <2>1, TimersUpdates DEF Timers
  <2>3. CASE BotEntryIdle(r)
    BY <1>6, <2>1, <2>2, <2>3 DEF BotEntryIdle
  <2>4. CASE BotEntryFills(r)
    <3> DEFINE l == [lobby[r] EXCEPT !.filling = TRUE]
    <3>1. lobby' = [lobby EXCEPT ![r] = l]
      BY <2>4 DEF BotEntryFills
    <3>2. l \in LobbyState /\ l.players = lobby[r].players
          /\ l.totalCards = lobby[r].totalCards /\ l.status = lobby[r].status
      BY <1>2 DEF LobbyState
    <3>3. Extends(lobby[r], l) /\ Held(l)
      BY <1>2, <3>2, FlagsExtend
    <3>4. RoomGrows(r)
      BY <2>1, <2>2, <3>1, <3>2, <3>3, LobbyFacts DEF RoomGrows, Grows
    <3>. QED
      BY <3>4 DEF Tame
  <2>. QED
    BY <1>9, <2>3, <2>4
<1>. QED
  BY <1>7, <1>8, <1>9 DEF TimerStep

LEMMA FillTame ==
  ASSUME ControlInv, NEW f \in DOMAIN fills, FillStep(f)
  PROVE  Tame
<1> DEFINE r == fills[f].room
<1>2. r \in Rooms
  BY LobbyParts DEF ControlInv
<1>3. /\ lobby[r] \in LobbyState /\ timers[r] \in Timers
      /\ lobby[r].totalCards \in Nat /\ Held(lobby[r])
      /\ timers = [timers EXCEPT ![r] = timers[r]]
  BY <1>2, LobbyFacts DEF ControlInv, TypeOK
<1>4. CASE FillFails(f) \/ FillAbandons(f) \/ FillContinues(f)
  BY <1>4 DEF Tame, FillFails, FillAbandons, FillContinues
<1>5. CASE BotJoins(f)
  <2> DEFINE n == Min({fills[f].cards, MaxCardsPerMatch - lobby[r].totalCards})
             l == Seated(lobby[r], [join |-> BOT, cards |-> n])
  <2>1. n \in Int
    <3>1. fills[f].cards \in Int
      BY LobbyParts, FillUpdates DEF ControlInv
    <3>2. MaxCardsPerMatch - lobby[r].totalCards \in Int
      BY <1>3, Limits
    <3>. QED
      BY <3>1, <3>2, MinPair
  <2>2. CASE n > 0
    <3>1. [join |-> BOT, cards |-> n] \in Seat
      BY <2>1, <2>2 DEF Seat
    <3>2. /\ l \in LobbyState /\ Extends(lobby[r], l) /\ Held(l)
          /\ l.players # <<>> /\ l.status = lobby[r].status
      BY <1>3, <3>1, SeatedExtends
    <3>3. lobby' = [lobby EXCEPT ![r] = l] /\ UNCHANGED <<timers, starts>>
      BY <1>5, <2>2 DEF BotJoins
    <3>4. RoomGrows(r)
      BY <1>2, <1>3, <3>2, <3>3, LobbyFacts DEF RoomGrows, Grows
    <3>. QED
      BY <1>2, <3>4 DEF Tame
  <2>3. CASE ~ (n > 0)
    BY <1>5, <2>3 DEF Tame, BotJoins
  <2>. QED
    BY <2>2, <2>3
<1>6. CASE FillExits(f)
  <2> DEFINE l == [lobby[r] EXCEPT !.filling = FALSE]
  <2>1. l \in LobbyState /\ l.players = lobby[r].players
        /\ l.totalCards = lobby[r].totalCards /\ l.status = lobby[r].status
    BY <1>3 DEF LobbyState
  <2>2. Extends(lobby[r], l) /\ Held(l)
    BY <1>3, <2>1, FlagsExtend
  <2>3. CASE l.totalCards >= MinCardsToStart
    <3>1. CancelAndFinalize(r, l, timers[r])
      BY <1>6, <2>3 DEF FillExits, EndFill
    <3>. QED
      BY <1>2, <1>3, <2>1, <2>2, <2>3, <3>1, CancelAndFinalizeGrows DEF Tame, ControlInv
  <2>4. CASE ~ (l.totalCards >= MinCardsToStart)
    <3>1. lobby' = [lobby EXCEPT ![r] = l] /\ UNCHANGED <<timers, starts>>
      BY <1>6, <2>4 DEF FillExits, EndFill
    <3>2. timers' = [timers EXCEPT ![r] = timers[r]] /\ starts' = starts
      BY <1>3, <3>1
    <3>3. timers[r].armed # {} =>
            timers[r].scheduled /\ l.status = "WAITING" /\ l.players # <<>>
      BY <1>2, <2>1, LobbyFacts
    <3>4. Grows(r, l, timers[r])
      BY <2>1, <2>2, <3>1, <3>2, <3>3 DEF Grows
    <3>5. RoomGrows(r)
      BY <1>3, <2>1, <3>4 DEF RoomGrows
    <3>. QED
      BY <1>2, <3>5 DEF Tame
  <2>. QED
    BY <2>3, <2>4
<1>. QED
  BY <1>4, <1>5, <1>6 DEF FillStep

\* A step of a start that neither ends it nor touches the lobby: the start
\* stays in its room and active, and keeps the invariant if its own record does.
LEMMA AdvanceControlInv ==
  ASSUME ControlInv, TypeOK', NEW s \in DOMAIN starts, NEW h \in Start,
         starts' = [starts EXCEPT ![s] = h], UNCHANGED <<lobby, timers>>,
         Active(s), h.room = starts[s].room,
         h.pc \in {"create", "assign", "calling", "announce"},
         h.entry >= MinCardsToStart,
         h.pc # "create" => h.cards >= MinCardsToStart,
         Len(h.seats) <= Len(Players(s)),
         \A i \in DOMAIN h.seats : h.seats[i] = Players(s)[i]
  PROVE  ControlInv'
<1>1. /\ DOMAIN starts' = DOMAIN starts /\ starts'[s] = h
      /\ \A u \in DOMAIN starts \ {s} : starts'[u] = starts[u]
  BY DEF ControlInv, TypeOK
<1>2. \A u \in DOMAIN starts : /\ Active(u)' <=> Active(u)
                               /\ starts'[u].room = starts[u].room
  BY <1>1 DEF Active
<1>3. OneStartPerRoom' /\ TimersOnlyWhileWaiting' /\ CardsHeld'
  BY <1>1, <1>2 DEF ControlInv, OneStartPerRoom, TimersOnlyWhileWaiting, CardsHeld, Held
<1>4. QuorumRead' /\ QuorumHeld'
  BY <1>1, <1>2 DEF ControlInv, QuorumRead, QuorumHeld
<1>5. SeatsArePrefix'
  BY <1>1, <1>2 DEF ControlInv, SeatsArePrefix, Players
<1>. QED
  BY <1>3, <1>4, <1>5 DEF ControlInv

\* The last step of a start: its room waits again, with its players or empty,
\* and its windows are gone.
LEMMA EndControlInv ==
  ASSUME ControlInv, TypeOK', NEW s \in DOMAIN starts, NEW h \in Start,
         NEW m \in LobbyState, NEW t \in Timers,
         starts' = [starts EXCEPT ![s] = h],
         lobby' = [lobby EXCEPT ![starts[s].room] = m],
         timers' = [timers EXCEPT ![starts[s].room] = t],
         Active(s), h.room = starts[s].room,
         h.pc \in {"done", "failed", "aborted"},
         h.pc # "failed" => h.entry >= MinCardsToStart /\ h.cards >= MinCardsToStart,
         m.status = "WAITING", Held(m), t.armed = {}
  PROVE  ControlInv'
<1> DEFINE r == starts[s].room
<1>1. /\ DOMAIN starts' = DOMAIN starts /\ starts'[s] = h
      /\ \A u \in DOMAIN starts \ {s} : starts'[u] = starts[u]
      /\ r \in Rooms
  BY LobbyParts DEF ControlInv, TypeOK
<1>2. /\ lobby'[r] = m /\ timers'[r] = t
      /\ \A q \in Rooms \ {r} : lobby'[q] = lobby[q] /\ timers'[q] = timers[q]
  BY <1>1 DEF ControlInv, TypeOK
<1>3. \A u \in DOMAIN starts : Active(u)' <=> Active(u) /\ u # s
  BY <1>1 DEF Active
<1>4. \A u \in DOMAIN starts : Active(u) /\ u # s => starts[u].room # r
  BY DEF ControlInv, OneStartPerRoom
<1>5. OneStartPerRoom'
  <2>1. \A u, v \in DOMAIN starts' :
          Active(u)' /\ Active(v)' /\ starts'[u].room = starts'[v].room => u = v
    BY <1>1, <1>3 DEF ControlInv, OneStartPerRoom
  <2>2. \A q \in Rooms : lobby'[q].status = "STARTING"
          <=> \E u \in DOMAIN starts' : Active(u)' /\ starts'[u].room = q
    <3>1. ~ \E u \in DOMAIN starts' : Active(u)' /\ starts'[u].room = r
      BY <1>1, <1>3, <1>4
    <3>2. \A q \in Rooms \ {r} :
            (\E u \in DOMAIN starts' : Active(u)' /\ starts'[u].room = q)
              <=> \E u \in DOMAIN starts : Active(u) /\ starts[u].room = q
      BY <1>1, <1>3
    <3>3. \A q \in Rooms \ {r} : lobby'[q].status = "STARTING"
            <=> \E u \in DOMAIN starts' : Active(u)' /\ starts'[u].room = q
      BY <1>2, <3>2 DEF ControlInv, OneStartPerRoom
    <3>. QED
      BY <1>2, <3>1, <3>3
  <2>. QED
    BY <2>1, <2>2 DEF OneStartPerRoom
<1>6. TimersOnlyWhileWaiting' /\ CardsHeld'
  BY <1>2 DEF ControlInv, TimersOnlyWhileWaiting, CardsHeld, Held
<1>7. QuorumRead'
  BY <1>1 DEF ControlInv, QuorumRead
<1>8. QuorumHeld'
  <2>1. \A u \in DOMAIN starts : Active(u)' =>
          /\ starts'[u].room = starts[u].room
          /\ lobby'[starts[u].room] = lobby[starts[u].room]
    BY <1>1, <1>2, <1>3, <1>4, LobbyParts DEF ControlInv
  <2>. QED
    BY <1>1, <1>3, <2>1 DEF ControlInv, QuorumHeld
<1>9. SeatsArePrefix'
  <2>1. \A u \in DOMAIN starts :
          Active(u)' => lobby'[starts[u].room] = lobby[starts[u].room]
    BY <1>2, <1>3, <1>4, LobbyParts DEF ControlInv
  <2>. QED
    BY <1>1, <1>3, <2>1 DEF ControlInv, SeatsArePrefix, Players
<1>. QED
  BY <1>5, <1>6, <1>7, <1>8, <1>9 DEF ControlInv

LEMMA StartControlInv ==
  ASSUME ControlInv, NEW s \in DOMAIN starts, StartStep(s)
  PROVE  ControlInv'
<1> DEFINE r == starts[s].room
           g == starts[s]
<1>1. TypeOK'
  BY StartTypeOK DEF ControlInv
<1>2. g \in Start /\ r \in Rooms
  BY LobbyParts DEF ControlInv
<1>3. /\ lobby[r] \in LobbyState /\ timers[r] \in Timers
      /\ lobby[r].totalCards \in Nat /\ Held(lobby[r])
      /\ timers = [timers EXCEPT ![r] = timers[r]]
  BY <1>2, LobbyFacts DEF ControlInv, TypeOK
<1>4. [join |-> BOT, cards |-> 0] \in Seat
  BY DEF Seat
<1>5. /\ g.pc # "room" /\ g.pc # "failed" => g.entry >= MinCardsToStart
      /\ g.pc # "room" /\ g.pc # "create" /\ g.pc # "failed"
           => g.cards >= MinCardsToStart
      /\ Active(s) => lobby[r].totalCards >= MinCardsToStart
  BY DEF ControlInv, QuorumRead, QuorumHeld
<1>6. \A label \in StartPC :
        LET h == [g EXCEPT !.pc = label]
        IN /\ h \in Start /\ h.pc = label /\ h.room = r
           /\ h.entry = g.entry /\ h.cards = g.cards /\ h.seats = g.seats
  BY <1>2, <1>4, StartUpdates DEF Start
<1>7. Active(s) =>
        /\ Len(g.seats) <= Len(Players(s))
        /\ \A i \in DOMAIN g.seats : g.seats[i] = Players(s)[i]
  BY DEF ControlInv, SeatsArePrefix
<1>8. Active(s) => timers[r].armed = {}
  BY <1>2 DEF ControlInv, OneStartPerRoom, TimersOnlyWhileWaiting
<1>9. CASE ReadRoom(s)
  <2> DEFINE h == [g EXCEPT !.pc = "create", !.entry = lobby[r].totalCards]
  <2>1. h \in Start /\ h.pc = "create" /\ h.room = r /\ h.entry = lobby[r].totalCards
    BY <1>2, <1>3, <1>4, StartUpdates DEF Start
  <2>2. Active(s) /\ starts' = [starts EXCEPT ![s] = h] /\ UNCHANGED <<lobby, timers>>
    BY <1>9 DEF ReadRoom, Active
  <2>3. h.seats = g.seats
    BY <1>2 DEF Start
  <2>. QED
    BY <1>1, <1>5, <1>7, <2>3, <2>1, <2>2, AdvanceControlInv
<1>10. CASE CreateMatch(s)
  <2> DEFINE h == [g EXCEPT !.pc = "assign", !.cards = lobby[r].totalCards]
  <2>1. h \in Start /\ h.pc = "assign" /\ h.room = r
        /\ h.cards = lobby[r].totalCards /\ h.entry = g.entry /\ h.seats = g.seats
    BY <1>2, <1>3, <1>4, StartUpdates DEF Start
  <2>2. Active(s) /\ starts' = [starts EXCEPT ![s] = h] /\ UNCHANGED <<lobby, timers>>
    BY <1>10 DEF CreateMatch, Active
  <2>3. g.pc = "create"
    BY <1>10 DEF CreateMatch
  <2>. QED
    BY <1>1, <1>5, <1>7, <2>1, <2>2, <2>3, AdvanceControlInv
<1>11. CASE Assign(s)
  <2> DEFINE p == NextSeat(s)
             h == [g EXCEPT !.seats = Append(@, p), !.dealt = @ + p.cards]
  <2>1. p \in Seat /\ Len(g.seats) + 1 \in DOMAIN Players(s)
    BY <1>11, NextSeatType DEF Assign, ControlInv
  <2>2. /\ h \in Start /\ h.pc = g.pc /\ h.room = r /\ h.entry = g.entry
        /\ h.cards = g.cards /\ h.seats = Append(g.seats, p)
    BY <1>2, <2>1, StartUpdates DEF Start
  <2>3. Active(s) /\ g.pc = "assign" /\ starts' = [starts EXCEPT ![s] = h]
        /\ UNCHANGED <<lobby, timers>>
    BY <1>11 DEF Assign, Active
  <2>4. Players(s) \in Seq(Seat) /\ g.seats \in Seq(Seat)
    BY <1>2, <1>3 DEF Players, LobbyState, Start
  <2>5. /\ Len(h.seats) <= Len(Players(s))
        /\ \A i \in DOMAIN h.seats : h.seats[i] = Players(s)[i]
    BY <1>7, <2>1, <2>2, <2>3, <2>4 DEF NextSeat
  <2>. QED
    BY <1>1, <1>5, <2>2, <2>3, <2>5, AdvanceControlInv
<1>12. CASE Commit(s) \/ BeginCalling(s)
  <2>1. PICK label \in {"calling", "announce"} :
          /\ starts' = [starts EXCEPT ![s] = [g EXCEPT !.pc = label]]
          /\ UNCHANGED <<lobby, timers>>
    BY <1>12 DEF Commit, BeginCalling
  <2>2. Active(s) /\ g.pc \in {"assign", "calling"}
    BY <1>12 DEF Commit, BeginCalling, Active
  <2>3. label \in StartPC
    BY DEF StartPC
  <2> DEFINE h == [g EXCEPT !.pc = label]
  <2>4. /\ h \in Start /\ h.pc = label /\ h.room = r
        /\ h.entry = g.entry /\ h.cards = g.cards /\ h.seats = g.seats
    BY <1>6, <2>3
  <2>5. h.entry >= MinCardsToStart /\ h.cards >= MinCardsToStart
    BY <1>5, <2>2, <2>4
  <2>6. /\ Len(h.seats) <= Len(Players(s))
        /\ \A i \in DOMAIN h.seats : h.seats[i] = Players(s)[i]
    BY <1>7, <2>2, <2>4
  <2> HIDE DEF h
  <2>. QED
    BY <1>1, <2>1, <2>2, <2>4, <2>5, <2>6, AdvanceControlInv DEF h
<1>13. CASE StartFails(s) \/ StartAborts(s)
  <2> DEFINE m == [lobby[r] EXCEPT !.status = "WAITING"]
  <2>1. m \in LobbyState /\ m.status = "WAITING" /\ Held(m)
    BY <1>3 DEF LobbyState, Held
  <2>2. Active(s) /\ lobby' = [lobby EXCEPT ![r] = m]
        /\ timers' = [timers EXCEPT ![r] = timers[r]]
    BY <1>3, <1>13 DEF StartFails, StartAborts, Reopened, Active
  <2>3. \E h \in Start : /\ starts' = [starts EXCEPT ![s] = h]
                         /\ h.room = r /\ h.pc \in {"failed", "aborted"}
                         /\ h.pc # "failed" => /\ h.entry >= MinCardsToStart
                                               /\ h.cards >= MinCardsToStart
    <3>1. CASE StartFails(s)
      <4> DEFINE h == [pc |-> "failed", room |-> r, entry |-> 0, cards |-> 0,
                       dealt |-> 0, seats |-> <<>>]
      <4>1. h \in Start
        BY <1>2 DEF Start, StartPC
      <4>2. starts' = [starts EXCEPT ![s] = [NewStart(r) EXCEPT !.pc = "failed"]]
        BY <3>1 DEF StartFails
      <4>3. [NewStart(r) EXCEPT !.pc = "failed"] = h
        BY DEF NewStart
      <4>. QED
        BY <4>1, <4>2, <4>3
    <3>2. CASE StartAborts(s)
      <4>1. starts' = [starts EXCEPT ![s] = [g EXCEPT !.pc = "aborted"]]
            /\ g.pc \in {"calling", "announce"}
        BY <3>2 DEF StartAborts
      <4>2. "aborted" \in StartPC
        BY DEF StartPC
      <4>. QED
        BY <1>5, <1>6, <4>1, <4>2
    <3>. QED
      BY <1>13, <3>1, <3>2
  <2>. QED
    BY <1>1, <1>3, <1>8, <2>1, <2>2, <2>3, EndControlInv
<1>14. CASE Announce(s)
  <2>1. EmptyLobby \in LobbyState /\ EmptyLobby.status = "WAITING" /\ Held(EmptyLobby)
    BY DEF EmptyLobby, LobbyState, Held
  <2>2. Cancelled(timers[r]) \in Timers /\ Cancelled(timers[r]).armed = {}
    BY <1>3 DEF Cancelled, Timers
  <2>3. /\ Active(s) /\ g.pc = "announce"
        /\ starts' = [starts EXCEPT ![s] = [g EXCEPT !.pc = "done"]]
        /\ lobby' = [lobby EXCEPT ![r] = EmptyLobby]
        /\ timers' = [timers EXCEPT ![r] = Cancelled(timers[r])]
    BY <1>14 DEF Announce, Active
  <2>4. "done" \in StartPC
    BY DEF StartPC
  <2>. QED
    BY <1>1, <1>5, <1>6, <2>1, <2>2, <2>3, <2>4, EndControlInv
<1>. QED
  BY <1>9, <1>10, <1>11, <1>12, <1>13, <1>14 DEF StartStep

LEMMA NextControlInv == ControlInv /\ [Next]_vars => ControlInv'
<1> SUFFICES ASSUME ControlInv, [Next]_vars
             PROVE  ControlInv'
  OBVIOUS
<1>1. TypeOK'
  BY NextTypeOK DEF ControlInv
<1>2. ASSUME NEW u \in Users, NEW a \in Prizes, Settle(u, a)
      PROVE  ControlInv'
  BY <1>1, <1>2, UnchangedControlInv DEF Settle
<1>3. CASE UNCHANGED vars
  BY <1>1, <1>3, UnchangedControlInv DEF vars
<1>4. Tame => ControlInv'
  BY <1>1, GrowsControlInv, UnchangedControlInv DEF Tame
<1>. QED
  BY <1>2, <1>3, <1>4, JoinTame, TimerTame, FillTame, StartControlInv
     DEF Next, ServerStep

LEMMA ControlCorrect == Spec => []ControlInv
<1>. QED
  BY InitControlInv, NextControlInv, PTL DEF Spec

\* However joins, windows, fills and failures interleave, at most one
\* finalizeLobby works on a room, and exactly then the lobby is STARTING.
THEOREM OneStartCorrect == Spec => []OneStartPerRoom
<1>1. ControlInv => OneStartPerRoom
  BY DEF ControlInv
<1>. QED
  BY <1>1, ControlCorrect, PTL

\* No waiting window outlives the lobby it was armed for.
THEOREM TimersCorrect == Spec => []TimersOnlyWhileWaiting
<1>1. ControlInv => TimersOnlyWhileWaiting
  BY DEF ControlInv
<1>. QED
  BY <1>1, ControlCorrect, PTL

\* No match is started, or recorded, with fewer cards than the quorum.
THEOREM QuorumCorrect == Spec => []StartHasQuorum
<1>1. ControlInv => StartHasQuorum
  BY DEF ControlInv, QuorumHeld, QuorumRead, StartHasQuorum, Committed
<1>. QED
  BY <1>1, ControlCorrect, PTL

\* The rows a start writes are the first players of the lobby, in order, while
\* the array it iterates over grows.
THEOREM PrefixCorrect == Spec => []SeatsArePrefix
<1>1. ControlInv => SeatsArePrefix
  BY DEF ControlInv
<1>. QED
  BY <1>1, ControlCorrect, PTL

=============================================================================
