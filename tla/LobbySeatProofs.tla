-------------------------- MODULE LobbySeatProofs --------------------------
(***************************************************************************)
(* What the lobby owes to players: the seat they paid for, one seat and no *)
(* debt but for messages that overlap, and cards that add up to what the   *)
(* pools were computed from. Rests on the inductive invariant of           *)
(* LobbyProofs.                                                            *)
(***************************************************************************)
EXTENDS LobbyProofs

\* Messages never change; a join moves by its own steps alone.
LEMMA PcSteps ==
  ASSUME TypeOK, [Next]_vars
  PROVE  /\ request' = request
         /\ \A k \in Joins : pc'[k] # pc[k] => JoinStep(k) \/ Call(k)
<1>1. ASSUME NEW j \in Joins, JoinStep(j) \/ Call(j)
      PROVE  request' = request /\ \A k \in Joins \ {j} : pc'[k] = pc[k]
  BY <1>1 DEF JoinStep, Call, Admit, ReadUser, CheckReferral, Charge, ChargeFails,
     TakeSeat, Goto, TypeOK
<1>2. ASSUME NEW r \in Rooms, TimerStep(r)
      PROVE  UNCHANGED <<request, pc>>
  BY <1>2 DEF TimerStep, FirstPeriod, SecondPeriod, BotEntryIdle, BotEntryFills
<1>3. ASSUME NEW f \in DOMAIN fills, FillStep(f)
      PROVE  UNCHANGED <<request, pc>>
  BY <1>3 DEF FillStep, BotJoins, FillFails, FillExits, EndFill, FillAbandons,
     FillContinues
<1>4. ASSUME NEW s \in DOMAIN starts, StartStep(s)
      PROVE  UNCHANGED <<request, pc>>
  BY <1>4 DEF StartStep, ReadRoom, CreateMatch, Assign, Commit, StartFails,
     BeginCalling, Announce, StartAborts
<1>5. ASSUME NEW u \in Users, NEW a \in Prizes, Settle(u, a)
      PROVE  UNCHANGED <<request, pc>>
  BY <1>5 DEF Settle
<1>. QED
  BY <1>1, <1>2, <1>3, <1>4, <1>5 DEF Next, ServerStep, vars

(***************************************************************************)
(* DebtBounded. The balance is compared before two more awaits and charged *)
(* after them. What a user has left never falls short of what the messages *)
(* compared so far will still be charged for by more than the entries of   *)
(* the other messages in flight, and these are MaxPending - 1 at most.     *)
(***************************************************************************)
PendingBounded == \A u \in Users : Cardinality(InFlight(u)) <= MaxPending

PendingInv == TypeOK /\ PendingBounded

\* The messages whose entry was compared with the balance and not charged yet.
Compared(u) == {j \in Joins : request[j].user = u /\ pc[j] \in {"referral", "charge"}}

Costs == [j \in Joins |-> Cost(j)]

Owed(u) == SumFunctionOnSet(Costs, Compared(u))

Solvent ==
  \A u \in Users : credit[u] + (MaxPending - 1) * Dearest(u) >= Owed(u)

DebtInv == PendingInv /\ Solvent

\* One of finitely many numbers is the largest.
LEMMA LargestImage ==
  ASSUME NEW S, IsFiniteSet(S), NEW g, \A x \in S : g[x] \in Nat
  PROVE  LET V == {0} \cup {g[x] : x \in S}
         IN  Max(V) \in Nat /\ \A y \in V : Max(V) >= y
<1> DEFINE Values(T) == {0} \cup {g[x] : x \in T}
           G == {T \in SUBSET S : \E m \in Values(T) : \A y \in Values(T) : m >= y}
<1>1. {} \in G
  OBVIOUS
<1>2. ASSUME NEW T \in G, NEW x \in S \ T PROVE T \cup {x} \in G
  <2>1. PICK m \in Values(T) : \A y \in Values(T) : m >= y
    OBVIOUS
  <2>2. m \in Nat /\ g[x] \in Nat /\ \A y \in Values(T) : y \in Nat
    OBVIOUS
  <2>3. Values(T \cup {x}) = Values(T) \cup {g[x]}
    OBVIOUS
  <2>4. CASE m >= g[x]
    <3>1. \A y \in Values(T \cup {x}) : m >= y
      BY <2>1, <2>3, <2>4
    <3> QED
      BY <2>1, <2>3, <3>1
  <2>5. CASE g[x] > m
    <3>1. \A y \in Values(T) : g[x] >= y
      BY <2>1, <2>2, <2>5
    <3>2. \A y \in Values(T \cup {x}) : g[x] >= y
      BY <2>2, <2>3, <3>1
    <3> QED
      BY <2>3, <3>2
  <2> QED
    BY <2>2, <2>4, <2>5
<1>3. S \in G
  <2>1. G \in SUBSET SUBSET S
    OBVIOUS
  <2> HIDE DEF G
  <2> QED
    BY <1>1, <1>2, <2>1, OneByOne
<1>4. PICK m \in Values(S) : \A y \in Values(S) : m >= y
  BY <1>3
<1>5. Values(S) \subseteq Nat
  OBVIOUS
<1> HIDE DEF Values
<1>6. Max(Values(S)) \in Values(S) /\ \A y \in Values(S) : Max(Values(S)) >= y
  BY <1>4 DEF Max
<1> QED
  BY <1>5, <1>6 DEF Values

LEMMA CostIsNat == ASSUME TypeOK PROVE \A j \in Joins : Cost(j) \in Nat
<1> SUFFICES ASSUME NEW j \in Joins PROVE Cost(j) \in Nat
  OBVIOUS
<1>1. request[j].cards \in Nat /\ request[j].room \in Rooms
  BY LobbyParts DEF RoomOf
<1>2. EntryFee[request[j].room] \in Nat
  BY <1>1, TablesAssumption
<1>. QED
  BY <1>1, <1>2 DEF Cost

LEMMA DearestBounds ==
  ASSUME TypeOK, NEW u \in Users
  PROVE  /\ Dearest(u) \in Nat
         /\ \A j \in Joins : request[j].user = u => Cost(j) <= Dearest(u)
<1> DEFINE S == {k \in Joins : request[k].user = u}
           V == {0} \cup {Costs[j] : j \in S}
<1>1. IsFiniteSet(S)
  BY SetsAssumption, FS_Subset
<1>2. \A j \in S : Costs[j] \in Nat
  BY CostIsNat DEF Costs
<1>3. Dearest(u) = Max(V)
  <2>1. V = {0} \cup {Cost(j) : j \in S}
    BY DEF Costs
  <2> QED
    BY <2>1 DEF Dearest
<1>4. \A j \in S : Costs[j] \in V
  OBVIOUS
<1> HIDE DEF S
<1>5. Max(V) \in Nat /\ \A y \in V : Max(V) >= y
  BY <1>1, <1>2, LargestImage
<1>6. \A j \in S : Costs[j] <= Max(V)
  <2> HIDE DEF V
  <2>1. \A j \in S : Max(V) >= Costs[j]
    BY <1>4, <1>5
  <2> QED
    BY <1>2, <1>5, <2>1
<1> HIDE DEF V
<1> QED
  BY <1>3, <1>5, <1>6 DEF S, Costs

\* What finitely many messages owe is a number, at most the dearest for each.
LEMMA OwedBounds ==
  ASSUME TypeOK, NEW u \in Users
  PROVE  /\ \A j \in Joins : Costs[j] = Cost(j) /\ Costs[j] \in Nat
         /\ IsFiniteSet(Compared(u)) /\ Compared(u) \in SUBSET Joins
         /\ Cardinality(Compared(u)) \in Nat
         /\ Owed(u) \in Nat
         /\ Owed(u) <= Cardinality(Compared(u)) * Dearest(u)
<1> DEFINE C == Compared(u)
           d == Dearest(u)
<1>1. \A j \in Joins : Costs[j] = Cost(j) /\ Costs[j] \in Nat
  BY CostIsNat DEF Costs
<1>2. /\ C \in SUBSET Joins /\ {} \in SUBSET C
      /\ \A j \in C : request[j].user = u
  BY DEF Compared
<1>3. IsFiniteSet(C) /\ Cardinality(C) \in Nat
  BY <1>2, SetsAssumption, FS_Subset, FS_CardinalityType
<1>4. d \in Int /\ \A j \in C : Costs[j] \in Int /\ Costs[j] <= d
  BY <1>1, <1>2, DearestBounds
<1> HIDE DEF C, d
<1>5. SumFunctionOnSet(Costs, C) <= Cardinality(C) * d
  BY <1>3, <1>4, SumAtBound
<1>6. SumFunctionOnSet(Costs, {}) <= SumFunctionOnSet(Costs, C)
  BY <1>1, <1>2, <1>3, SumOfPart
<1>7. SumFunctionOnSet(Costs, C) \in Int
  BY <1>3, <1>4, SumIsInt
<1>8. SumFunctionOnSet(Costs, {}) = 0
  BY SumOfNone
<1>9. SumFunctionOnSet(Costs, C) \in Nat
  BY <1>6, <1>7, <1>8
<1> QED
  BY <1>1, <1>2, <1>3, <1>5, <1>9 DEF C, d, Owed

LEMMA FlightFinite ==
  \A u : InFlight(u) \in SUBSET Joins /\ IsFiniteSet(InFlight(u))
           /\ Cardinality(InFlight(u)) \in Nat
BY SetsAssumption, FS_Subset, FS_CardinalityType DEF InFlight

LEMMA InitDebtInv == Init => DebtInv
<1> SUFFICES ASSUME Init PROVE PendingBounded /\ Solvent
  BY InitTypeOK DEF DebtInv, PendingInv
<1>1. \A u \in Users : InFlight(u) = {} /\ Compared(u) = {}
  BY DEF Init, InFlight, InFlightPC, Compared
<1>2. PendingBounded
  BY <1>1, Limits, FS_EmptySet DEF PendingBounded
<1>3. ASSUME NEW u \in Users
      PROVE  credit[u] + (MaxPending - 1) * Dearest(u) >= Owed(u)
  <2>1. Owed(u) = 0
    BY <1>1, SumOfNone DEF Owed
  <2>2. credit[u] \in Nat /\ Dearest(u) \in Nat
    BY TablesAssumption, InitTypeOK, DearestBounds DEF Init
  <2>3. (MaxPending - 1) * Dearest(u) \in Nat
    <3>1. MaxPending - 1 \in Nat
      BY Limits
    <3> QED
      BY <2>2, <3>1
  <2> QED
    BY <2>1, <2>2, <2>3
<1> QED
  BY <1>2, <1>3 DEF Solvent

\* What a step of one join does to the balance and to what is owed.
JoinMoves(u, j) ==
  \/ Compared(u)' \subseteq Compared(u) /\ credit'[u] = credit[u]
  \/ /\ request[j].user = u /\ pc[j] = "user" /\ credit[u] >= Cost(j)
     /\ Compared(u)' = Compared(u) \cup {j} /\ credit'[u] = credit[u]
  \/ /\ j \in Compared(u) /\ Compared(u)' = Compared(u) \ {j}
     /\ credit'[u] = credit[u] - Cost(j)

LEMMA JoinPays ==
  ASSUME TypeOK, NEW j \in Joins, JoinStep(j) \/ Call(j), NEW u \in Users
  PROVE  JoinMoves(u, j)
<1>1. /\ pc \in [Joins -> JoinPC] /\ credit \in [Users -> Int]
      /\ request[j].user \in Users
  BY LobbyParts DEF TypeOK
<1>2. request' = request
  BY DEF JoinStep, Call, Admit, ReadUser, CheckReferral, Charge, ChargeFails, TakeSeat
<1>3. CASE Admit(j) \/ CheckReferral(j) \/ ChargeFails(j) \/ TakeSeat(j) \/ Call(j)
  <2>1. credit' = credit
    BY <1>3 DEF Admit, CheckReferral, ChargeFails, TakeSeat, Call
  <2>2. \A k \in Joins : pc'[k] \in {"referral", "charge"}
                           => pc[k] \in {"referral", "charge"}
    BY <1>1, <1>3 DEF Admit, CheckReferral, ChargeFails, TakeSeat, Call, Goto
  <2> QED
    BY <1>2, <2>1, <2>2 DEF JoinMoves, Compared
<1>4. CASE ReadUser(j)
  <2>1. credit' = credit /\ pc[j] = "user"
    BY <1>4 DEF ReadUser
  <2>2. CASE credit[request[j].user] >= Cost(j)
    <3>1. pc' = [pc EXCEPT ![j] = "referral"]
      BY <1>4, <2>2 DEF ReadUser, Goto
    <3>2. CASE request[j].user = u
      BY <1>1, <1>2, <2>1, <2>2, <3>1, <3>2 DEF JoinMoves, Compared
    <3>3. CASE request[j].user # u
      BY <1>1, <1>2, <2>1, <3>1, <3>3 DEF JoinMoves, Compared
    <3> QED
      BY <3>2, <3>3
  <2>3. CASE ~ (credit[request[j].user] >= Cost(j))
    <3>1. pc' = [pc EXCEPT ![j] = "rejected"]
      BY <1>4, <2>3 DEF ReadUser, Goto
    <3> QED
      BY <1>1, <1>2, <2>1, <3>1 DEF JoinMoves, Compared
  <2> QED
    BY <2>2, <2>3
<1>5. CASE Charge(j)
  <2>1. /\ pc[j] = "charge" /\ pc' = [pc EXCEPT ![j] = "seat"]
        /\ credit' = [credit EXCEPT ![request[j].user] = @ - Cost(j)]
    BY <1>5 DEF Charge, Goto
  <2> QED
    BY <1>1, <1>2, <2>1 DEF JoinMoves, Compared
<1> QED
  BY <1>3, <1>4, <1>5 DEF JoinStep

LEMMA PendingStep == PendingInv /\ [Next]_vars => PendingInv'
<1> SUFFICES ASSUME PendingInv, [Next]_vars, NEW u \in Users
             PROVE  Cardinality(InFlight(u)') <= MaxPending
  BY NextTypeOK DEF PendingInv, PendingBounded
<1>1. /\ request' = request /\ pc \in [Joins -> JoinPC]
      /\ \A k \in Joins : pc'[k] # pc[k] => JoinStep(k) \/ Call(k)
  BY PcSteps DEF PendingInv, TypeOK
<1>2. /\ IsFiniteSet(InFlight(u)) /\ Cardinality(InFlight(u)) \in Nat
      /\ Cardinality(InFlight(u)) <= MaxPending /\ MaxPending \in Nat
  BY FlightFinite, Limits DEF PendingInv, PendingBounded
<1>3. PICK K : K = InFlight(u)'
  OBVIOUS
<1>4. CASE \E j \in Joins : Call(j) /\ request[j].user = u
  <2>1. PICK j \in Joins : Call(j) /\ request[j].user = u
    BY <1>4
  <2>2. K \subseteq InFlight(u) \cup {j}
    BY <1>1, <1>3, <2>1 DEF Call, Goto, InFlight
  <2>3. Cardinality(InFlight(u)) < MaxPending
    BY <2>1 DEF Call
  <2>4. /\ IsFiniteSet(InFlight(u) \cup {j})
        /\ Cardinality(InFlight(u) \cup {j}) <= Cardinality(InFlight(u)) + 1
        /\ Cardinality(InFlight(u) \cup {j}) \in Nat
    <3> DEFINE I == InFlight(u)
    <3>1. IsFiniteSet(I) /\ Cardinality(I) \in Nat
      BY <1>2
    <3> HIDE DEF I
    <3>2. /\ IsFiniteSet(I \cup {j})
          /\ Cardinality(I \cup {j}) = IF j \in I THEN Cardinality(I) ELSE Cardinality(I) + 1
      BY <3>1, FS_AddElement
    <3>3. /\ Cardinality(I \cup {j}) <= Cardinality(I) + 1
          /\ Cardinality(I \cup {j}) \in Nat
      BY <3>1, <3>2
    <3>. QED
      BY <3>2, <3>3 DEF I
  <2>5. Cardinality(K) <= Cardinality(InFlight(u) \cup {j}) /\ Cardinality(K) \in Nat
    BY <2>2, <2>4, FS_Subset, FS_CardinalityType
  <2> QED
    BY <1>2, <1>3, <2>3, <2>4, <2>5
<1>5. CASE ~ \E j \in Joins : Call(j) /\ request[j].user = u
  <2>1. ASSUME NEW k \in Joins, JoinStep(k) PROVE pc[k] \in InFlightPC
    BY <2>1 DEF JoinStep, Admit, ReadUser, CheckReferral, Charge, ChargeFails,
       TakeSeat, InFlightPC
  <2>2. K \subseteq InFlight(u)
    BY <1>1, <1>3, <1>5, <2>1 DEF InFlight
  <2>3. Cardinality(K) <= Cardinality(InFlight(u)) /\ Cardinality(K) \in Nat
    BY <1>2, <2>2, FS_Subset, FS_CardinalityType
  <2> QED
    BY <1>2, <1>3, <2>3
<1> QED
  BY <1>4, <1>5

\* Only joins compare and charge; a prize adds to the balance.
LEMMA OthersPayNothing ==
  ASSUME TypeOK, [Next]_vars, ~ \E j \in Joins : JoinStep(j) \/ Call(j)
  PROVE  UNCHANGED <<request, pc>> /\ \A u \in Users : credit'[u] >= credit[u]
<1>0. credit \in [Users -> Int]
  BY DEF TypeOK
<1>1. ASSUME NEW u \in Users, NEW a \in Prizes, Settle(u, a)
      PROVE  UNCHANGED <<request, pc>> /\ \A v \in Users : credit'[v] >= credit[v]
  <2>1. a \in Nat
    BY CountsAssumption
  <2> QED
    BY <1>0, <1>1, <2>1 DEF Settle
<1>2. ASSUME NEW r \in Rooms, TimerStep(r) PROVE UNCHANGED <<request, pc, credit>>
  BY <1>2 DEF TimerStep, FirstPeriod, SecondPeriod, BotEntryIdle, BotEntryFills
<1>3. ASSUME NEW f \in DOMAIN fills, FillStep(f) PROVE UNCHANGED <<request, pc, credit>>
  BY <1>3 DEF FillStep, BotJoins, FillFails, FillExits, EndFill, FillAbandons,
     FillContinues
<1>4. ASSUME NEW s \in DOMAIN starts, StartStep(s) PROVE UNCHANGED <<request, pc, credit>>
  BY <1>4 DEF StartStep, ReadRoom, CreateMatch, Assign, Commit, StartFails,
     BeginCalling, Announce, StartAborts
<1>5. UNCHANGED <<request, pc, credit>> =>
        UNCHANGED <<request, pc>> /\ \A v \in Users : credit'[v] >= credit[v]
  BY <1>0
<1> QED
  BY <1>1, <1>2, <1>3, <1>4, <1>5 DEF Next, ServerStep, vars

\* A product grows with its factor.
LEMMA FewerTimes ==
  ASSUME NEW a \in Nat, NEW b \in Nat, a <= b, NEW c \in Nat
  PROVE  a * c <= b * c /\ a * c \in Nat /\ b * c \in Nat
<1>1. PICK d \in Nat : b = a + d
  <2>1. b - a \in Nat /\ b = a + (b - a)
    OBVIOUS
  <2> QED
    BY <2>1
<1>2. a * c \in Nat /\ d * c \in Nat
  OBVIOUS
<1>3. b * c = a * c + d * c
  BY <1>1
<1> QED
  BY <1>2, <1>3

LEMMA SolventStep ==
  ASSUME DebtInv, [Next]_vars, NEW u \in Users
  PROVE  credit'[u] + (MaxPending - 1) * Dearest(u) >= Owed(u)'
<1> DEFINE d == Dearest(u)
           C == Compared(u)
           least == (MaxPending - 1) * d
<1>1. TypeOK /\ request' = request /\ credit[u] \in Int /\ credit'[u] \in Int
  BY PcSteps, NextTypeOK DEF DebtInv, PendingInv, TypeOK
<1>2. /\ \A j \in Joins : Costs[j] = Cost(j) /\ Costs[j] \in Nat
      /\ IsFiniteSet(C) /\ C \in SUBSET Joins
      /\ Cardinality(C) \in Nat
      /\ Owed(u) = SumFunctionOnSet(Costs, C)
      /\ SumFunctionOnSet(Costs, C) \in Nat
      /\ SumFunctionOnSet(Costs, C) <= Cardinality(C) * d
      /\ d \in Nat /\ MaxPending - 1 \in Nat
  BY <1>1, OwedBounds, DearestBounds, Limits DEF Owed
<1>3. PICK K : K = Compared(u)'
  OBVIOUS
<1>4. Owed(u)' = SumFunctionOnSet(Costs, K)
  <2>1. Costs' = Costs
    BY <1>1 DEF Costs, Cost
  <2> QED
    BY <1>3, <2>1 DEF Owed
<1>5. credit[u] + least >= SumFunctionOnSet(Costs, C) /\ least \in Nat
  <2>1. least \in Nat
    BY <1>2
  <2> QED
    BY <1>2, <2>1 DEF DebtInv, Solvent
<1> HIDE DEF C, d, least
<1>6. CASE K \subseteq C /\ credit'[u] >= credit[u]
  <2>1. SumFunctionOnSet(Costs, K) <= SumFunctionOnSet(Costs, C)
    BY <1>2, <1>6, SumOfPart
  <2>2. SumFunctionOnSet(Costs, K) \in Int
    <3>1. IsFiniteSet(K) /\ \A j \in K : Costs[j] \in Int
      BY <1>2, <1>6, FS_Subset
    <3> QED
      BY <3>1, SumIsInt
  <2> QED
    BY <1>1, <1>2, <1>4, <1>5, <1>6, <2>1, <2>2 DEF d, least
<1>7. ASSUME NEW j \in Joins, JoinStep(j) \/ Call(j)
      PROVE  credit'[u] + least >= Owed(u)'
  <2>1. JoinMoves(u, j)
    BY <1>1, <1>7, JoinPays
  <2>2. CASE K \subseteq C /\ credit'[u] = credit[u]
    BY <1>1, <1>6, <2>2 DEF least, d
  <2>3. CASE /\ request[j].user = u /\ pc[j] = "user" /\ credit[u] >= Cost(j)
             /\ K = C \cup {j} /\ credit'[u] = credit[u]
    <3>1. /\ j \notin C /\ C \cup {j} \subseteq InFlight(u)
      BY <2>3 DEF C, Compared, InFlight, InFlightPC
    <3>2. /\ Cardinality(C \cup {j}) = Cardinality(C) + 1
          /\ Cardinality(C \cup {j}) <= Cardinality(InFlight(u))
          /\ Cardinality(InFlight(u)) \in Nat
          /\ Cardinality(InFlight(u)) <= MaxPending
      BY <1>2, <3>1, FlightFinite, FS_AddElement, FS_Subset
         DEF DebtInv, PendingInv, PendingBounded
    <3>3. Cardinality(C) <= MaxPending - 1
      BY <1>2, <3>2, Limits
    <3>4. Cardinality(C) * d <= least /\ Cardinality(C) * d \in Nat
      BY <1>2, <3>3, FewerTimes DEF least
    <3>5. SumFunctionOnSet(Costs, K) = Costs[j] + SumFunctionOnSet(Costs, C)
      <4>1. \A k \in C \cup {j} : Costs[k] \in Int
        BY <1>2
      <4> QED
        BY <1>2, <2>3, <3>1, <4>1, SumOneMore
    <3> QED
      BY <1>1, <1>2, <1>4, <1>5, <2>3, <3>4, <3>5
  <2>4. CASE j \in C /\ K = C \ {j} /\ credit'[u] = credit[u] - Cost(j)
    <3>1. SumFunctionOnSet(Costs, C) = Costs[j] + SumFunctionOnSet(Costs, K)
      <4>1. \A k \in C : Costs[k] \in Int
        BY <1>2
      <4> QED
        BY <1>2, <2>4, <4>1, SumOneLess
    <3>2. SumFunctionOnSet(Costs, K) \in Int
      <4>1. IsFiniteSet(K) /\ \A k \in K : Costs[k] \in Int
        BY <1>2, <2>4, FS_Subset
      <4> QED
        BY <4>1, SumIsInt
    <3> QED
      BY <1>1, <1>2, <1>4, <1>5, <2>4, <3>1, <3>2
  <2> QED
    BY <1>3, <2>1, <2>2, <2>3, <2>4 DEF JoinMoves, C
<1>8. CASE ~ \E j \in Joins : JoinStep(j) \/ Call(j)
  <2>1. UNCHANGED <<request, pc>> /\ credit'[u] >= credit[u]
    BY <1>1, <1>8, OthersPayNothing
  <2>2. K \subseteq C
    BY <1>3, <2>1 DEF C, Compared
  <2> QED
    BY <1>6, <2>1, <2>2 DEF least, d
<1> QED
  BY <1>7, <1>8 DEF least, d

LEMMA NextDebtInv == DebtInv /\ [Next]_vars => DebtInv'
<1> SUFFICES ASSUME DebtInv, [Next]_vars PROVE DebtInv'
  OBVIOUS
<1>1. PendingInv' /\ request' = request
  BY PendingStep, PcSteps DEF DebtInv, PendingInv
<1>2. \A u \in Users : Dearest(u)' = Dearest(u)
  BY <1>1 DEF Dearest, Cost
<1> QED
  BY <1>1, <1>2, SolventStep DEF DebtInv, Solvent

\* However many messages of a user follow each other, those in flight together
\* overdraw the balance by MaxPending - 1 entries at most: DebtBounded for
\* every bound on the messages in flight.
THEOREM DebtBoundedCorrect == Spec => []DebtBounded
<1>1. DebtInv => DebtBounded
  <2> SUFFICES ASSUME DebtInv, NEW u \in Users
               PROVE  credit[u] >= - ((MaxPending - 1) * Dearest(u))
    BY DEF DebtBounded
  <2>1. /\ Owed(u) \in Nat /\ credit[u] \in Int
        /\ Dearest(u) \in Nat /\ MaxPending - 1 \in Nat
    BY OwedBounds, DearestBounds, Limits DEF DebtInv, PendingInv, TypeOK
  <2>2. (MaxPending - 1) * Dearest(u) \in Nat
    BY <2>1
  <2>3. credit[u] + (MaxPending - 1) * Dearest(u) >= Owed(u)
    BY DEF DebtInv, Solvent
  <2> QED
    BY <2>1, <2>2, <2>3
<1>. QED
  BY <1>1, InitDebtInv, NextDebtInv, PTL DEF Spec

(***************************************************************************)
(* PaidSeatKept. A seat taken while the lobby waits is among the players   *)
(* when a start commits, because the rows are dealt to a prefix of the     *)
(* players and the commit waits until all are dealt. From the commit to    *)
(* the reset the lobby is STARTING, so no seat taken then counts.          *)
(***************************************************************************)
Plays(j) == \E u \in DOMAIN starts : InMatch(j, u)

SeatedDealt ==
  \A s \in DOMAIN starts, j \in Joins :
    /\ starts[s].pc \in {"calling", "announce"}
    /\ pc[j] = "seated" /\ RoomOf(j) = starts[s].room
    => Plays(j)

SeatInv == ControlInv /\ PaidSeatKept /\ SeatedDealt

LEMMA InitSeatInv == Init => SeatInv
<1> SUFFICES ASSUME Init
             PROVE  SeatInv
  OBVIOUS
<1>1. \A j \in Joins : pc[j] # "seated"
  BY DEF Init
<1>. QED
  BY <1>1, InitControlInv DEF SeatInv, PaidSeatKept, SeatedDealt

\* No step takes a join out of a committed match.
LEMMA TamePlays ==
  ASSUME ControlInv, Tame
  PROVE  /\ \A j \in Joins : Plays(j) => Plays(j)'
         /\ \A u \in DOMAIN starts' :
              \/ u \in DOMAIN starts /\ starts'[u] = starts[u]
              \/ starts'[u].pc = "room"
<1>1. \/ starts' = starts
      \/ \E r \in Rooms : starts' = Append(starts, NewStart(r))
  BY DEF Tame, RoomGrows, Grows
<1>2. ASSUME NEW r \in Rooms, starts' = Append(starts, NewStart(r))
      PROVE  /\ DOMAIN starts \subseteq DOMAIN starts'
             /\ \A u \in DOMAIN starts : starts'[u] = starts[u]
             /\ \A u \in DOMAIN starts' \ DOMAIN starts : starts'[u].pc = "room"
  <2>1. starts \in Seq(Start)
    BY DEF ControlInv, TypeOK
  <2>2. /\ DOMAIN starts \subseteq DOMAIN starts'
        /\ \A u \in DOMAIN starts : starts'[u] = starts[u]
        /\ \A u \in DOMAIN starts' \ DOMAIN starts : starts'[u] = NewStart(r)
    BY <1>2, <2>1
  <2>. QED
    BY <2>2 DEF NewStart
<1>3. /\ DOMAIN starts \subseteq DOMAIN starts'
      /\ \A u \in DOMAIN starts : starts'[u] = starts[u]
      /\ \A u \in DOMAIN starts' \ DOMAIN starts : starts'[u].pc = "room"
  BY <1>1, <1>2
<1>4. \A j \in Joins : Plays(j) => Plays(j)'
  BY <1>3 DEF Plays, InMatch, Committed
<1>. QED
  BY <1>3, <1>4

LEMMA TameLobby ==
  ASSUME ControlInv, TypeOK', Tame, request' = request, NEW j \in Joins, InLobby(j)
  PROVE  InLobby(j)'
<1>1. RoomOf(j) \in Rooms /\ RoomOf(j)' = RoomOf(j)
  BY LobbyParts DEF RoomOf, ControlInv
<1>2. CASE UNCHANGED <<lobby, timers, starts>>
  BY <1>1, <1>2 DEF InLobby
<1>3. ASSUME NEW r \in Rooms, RoomGrows(r)
      PROVE  InLobby(j)'
  <2>1. PICK m \in LobbyState, t \in Timers : Grows(r, m, t)
    BY <1>3 DEF RoomGrows
  <2>2. \A q \in Rooms : lobby'[q] = IF q = r THEN m ELSE lobby[q]
    BY <2>1 DEF Grows, ControlInv, TypeOK
  <2>3. /\ Len(lobby[r].players) <= Len(m.players)
        /\ \A i \in DOMAIN lobby[r].players : m.players[i] = lobby[r].players[i]
    BY <2>1 DEF Grows, Extends
  <2>4. lobby[r].players \in Seq(Seat) /\ m.players \in Seq(Seat)
    BY LobbyParts DEF ControlInv, LobbyState
  <2>5. \A i \in DOMAIN lobby[r].players : i \in DOMAIN m.players
    BY <2>3, <2>4
  <2>. QED
    BY <1>1, <2>2, <2>3, <2>5 DEF InLobby
<1>. QED
  BY <1>2, <1>3 DEF Tame

\* A tame step keeps the invariant when no join becomes "seated".
LEMMA TameSeatInv ==
  ASSUME SeatInv, ControlInv', Tame, request' = request,
         \A j \in Joins : pc'[j] = "seated" => pc[j] = "seated"
  PROVE  SeatInv'
<1>1. TypeOK' /\ ControlInv
  BY DEF SeatInv, ControlInv
<1>2. PaidSeatKept'
  BY <1>1, TamePlays, TameLobby DEF SeatInv, PaidSeatKept, Plays
<1>3. SeatedDealt'
  BY <1>1, TamePlays DEF SeatInv, SeatedDealt, RoomOf
<1>. QED
  BY <1>2, <1>3 DEF SeatInv

LEMMA TakeSeatInv ==
  ASSUME SeatInv, ControlInv', NEW j \in Joins, TakeSeat(j)
  PROVE  SeatInv'
<1> DEFINE r == RoomOf(j)
           p == [join |-> j, cards |-> request[j].cards]
           l == Seated(lobby[r], p)
<1>1. ControlInv /\ TypeOK /\ TypeOK' /\ request' = request /\ r \in Rooms
  BY LobbyParts DEF SeatInv, ControlInv, TakeSeat
<1>2. Tame
  BY <1>1, JoinTame DEF JoinStep
<1>3. lobby'[r].players = Append(lobby[r].players, p)
  <2>1. lobby[r] \in LobbyState /\ p \in Seat
    BY <1>1, LobbyParts DEF Seat
  <2>2. l \in LobbyState /\ l.players = Append(lobby[r].players, p)
    BY <2>1, SeatedType
  <2>3. \/ lobby' = [lobby EXCEPT ![r] = l]
        \/ lobby' = [lobby EXCEPT ![r] = [l EXCEPT !.status = "STARTING"]]
    BY DEF TakeSeat, CancelAndFinalize, FinalizeLobby
  <2>4. [l EXCEPT !.status = "STARTING"].players = l.players
    BY <2>2 DEF LobbyState
  <2>. QED
    BY <1>1, <2>2, <2>3, <2>4 DEF TypeOK
<1>4. InLobby(j)'
  <2>1. lobby[r].players \in Seq(Seat)
    BY <1>1, LobbyParts
  <2>2. Len(lobby[r].players) + 1 \in DOMAIN lobby'[r].players
        /\ lobby'[r].players[Len(lobby[r].players) + 1] = p
    BY <1>3, <2>1
  <2>. QED
    BY <1>1, <2>2 DEF InLobby, RoomOf
<1>5. \A k \in Joins \ {j} : pc'[k] = pc[k]
  BY <1>1 DEF TakeSeat, Goto, TypeOK
<1>6. PaidSeatKept'
  BY <1>1, <1>2, <1>4, <1>5, TamePlays, TameLobby DEF SeatInv, PaidSeatKept, Plays
<1>7. pc'[j] = "seated" => lobby[r].status = "WAITING"
  BY <1>1 DEF TakeSeat, Goto, TypeOK
<1>8. lobby[r].status = "WAITING" =>
        \A s \in DOMAIN starts : Active(s) => starts[s].room # r
  BY <1>1 DEF ControlInv, OneStartPerRoom
<1>9. SeatedDealt'
  BY <1>1, <1>2, <1>5, <1>7, <1>8, TamePlays
     DEF SeatInv, SeatedDealt, RoomOf, Active
<1>. QED
  BY <1>6, <1>9 DEF SeatInv

LEMMA StartSeatInv ==
  ASSUME SeatInv, ControlInv', NEW s \in DOMAIN starts, StartStep(s)
  PROVE  SeatInv'
<1> DEFINE r == starts[s].room
<1>1. ControlInv /\ TypeOK /\ UNCHANGED <<request, pc>> /\ r \in Rooms
  BY LobbyParts
     DEF SeatInv, ControlInv, StartStep, ReadRoom, CreateMatch, Assign, Commit,
         StartFails, BeginCalling, Announce, StartAborts
<1>2. /\ DOMAIN starts' = DOMAIN starts
      /\ \A u \in DOMAIN starts \ {s} : starts'[u] = starts[u]
  BY <1>1 DEF TypeOK, StartStep, ReadRoom, CreateMatch, Assign, Commit,
         StartFails, BeginCalling, Announce, StartAborts
<1>3. Committed(s) => Committed(s)' /\ starts'[s].seats = starts[s].seats
  <2>1. starts[s] \in Start
    BY <1>1, LobbyParts
  <2>2. CASE Committed(s)
    <3>1. BeginCalling(s) \/ Announce(s) \/ StartAborts(s)
      BY <2>2 DEF Committed, StartStep, ReadRoom, CreateMatch, Assign, Commit,
         StartFails
    <3>2. PICK label \in {"announce", "done", "aborted"} :
            starts' = [starts EXCEPT ![s] = [starts[s] EXCEPT !.pc = label]]
      BY <3>1 DEF BeginCalling, Announce, StartAborts
    <3>. QED
      BY <1>1, <2>1, <3>2 DEF Committed, Start, TypeOK
  <2>. QED
    BY <2>2
<1>4. \A j \in Joins : Plays(j) => Plays(j)'
  BY <1>2, <1>3 DEF Plays, InMatch, Committed
<1>5. CASE Announce(s)
  <2>1. \A q \in Rooms \ {r} : lobby'[q] = lobby[q]
    BY <1>1, <1>5 DEF Announce, TypeOK
  <2>2. \A j \in Joins : InLobby(j) /\ RoomOf(j) # r => InLobby(j)'
    BY <1>1, <2>1, LobbyParts DEF InLobby, RoomOf
  <2>3. \A j \in Joins : pc[j] = "seated" /\ RoomOf(j) = r => Plays(j)
    BY <1>5 DEF Announce, SeatInv, SeatedDealt
  <2>4. PaidSeatKept'
    BY <1>1, <1>4, <2>2, <2>3 DEF SeatInv, PaidSeatKept, Plays
  <2>5. starts'[s].pc = "done"
    <3>1. starts[s] \in Start
      BY <1>1, LobbyParts
    <3>. QED
      BY <1>1, <1>5, <3>1 DEF Announce, TypeOK, Start
  <2>6. SeatedDealt'
    BY <1>1, <1>2, <1>4, <2>5 DEF SeatInv, SeatedDealt, RoomOf
  <2>. QED
    BY <2>4, <2>6 DEF SeatInv
<1>6. CASE ~ Announce(s)
  <2>1. \A q \in Rooms : lobby'[q].players = lobby[q].players
    <3>1. \A q \in Rooms : lobby[q] \in LobbyState
      BY <1>1 DEF TypeOK
    <3>2. UNCHANGED lobby \/ Reopened(r)
      BY <1>6 DEF StartStep, ReadRoom, CreateMatch, Assign, Commit, StartFails,
         BeginCalling, StartAborts
    <3>3. [lobby[r] EXCEPT !.status = "WAITING"].players = lobby[r].players
      BY <1>1, <3>1 DEF LobbyState
    <3>4. \/ lobby' = lobby
          \/ lobby' = [lobby EXCEPT ![r] = [lobby[r] EXCEPT !.status = "WAITING"]]
      BY <3>2 DEF Reopened
    <3>. QED
      BY <1>1, <3>3, <3>4 DEF TypeOK
  <2>2. \A j \in Joins : InLobby(j) => InLobby(j)'
    BY <1>1, <2>1, LobbyParts DEF InLobby, RoomOf
  <2>3. PaidSeatKept'
    BY <1>1, <1>4, <2>2 DEF SeatInv, PaidSeatKept, Plays
  <2>4. CASE Commit(s)
    <3>1. starts[s] \in Start /\ Players(s) \in Seq(Seat)
      BY <1>1, LobbyParts DEF Players
    <3>2. starts'[s].pc = "calling" /\ starts'[s].seats = starts[s].seats
          /\ starts'[s].room = r
      BY <1>1, <2>4, <3>1 DEF Commit, TypeOK, Start
    <3>3. /\ Len(starts[s].seats) >= Len(Players(s))
          /\ \A i \in DOMAIN starts[s].seats : starts[s].seats[i] = Players(s)[i]
      BY <1>1, <2>4 DEF Commit, AllDealt, ControlInv, SeatsArePrefix, Active
    <3>4. \A i \in DOMAIN Players(s) :
            i \in DOMAIN starts[s].seats /\ starts[s].seats[i] = Players(s)[i]
      <4>1. starts[s].seats \in Seq(Seat)
        BY <3>1 DEF Start
      <4>. QED
        BY <3>1, <3>3, <4>1
    <3>5. \A j \in Joins : InLobby(j) /\ RoomOf(j) = r => Plays(j)'
      BY <1>2, <3>2, <3>4 DEF InLobby, Players, Plays, InMatch, Committed
    <3>6. \A j \in Joins : pc[j] = "seated" /\ RoomOf(j) = r => Plays(j)'
      BY <1>4, <3>5 DEF SeatInv, PaidSeatKept, Plays
    <3>7. SeatedDealt'
      BY <1>1, <1>2, <1>4, <3>2, <3>6 DEF SeatInv, SeatedDealt, RoomOf
    <3>. QED
      BY <2>3, <3>7 DEF SeatInv
  <2>5. CASE ~ Commit(s)
    <3>1. starts'[s].pc \in {"calling", "announce"} =>
            starts[s].pc \in {"calling", "announce"} /\ starts'[s].room = r
      <4>1. starts[s] \in Start
        BY <1>1, LobbyParts
      <4>. QED
        BY <1>1, <1>6, <2>5, <4>1
           DEF StartStep, ReadRoom, CreateMatch, Assign, StartFails, BeginCalling,
               StartAborts, NewStart, TypeOK, Start
    <3>2. SeatedDealt'
      BY <1>1, <1>2, <1>4, <3>1 DEF SeatInv, SeatedDealt, RoomOf
    <3>. QED
      BY <2>3, <3>2 DEF SeatInv
  <2>. QED
    BY <2>4, <2>5
<1>. QED
  BY <1>5, <1>6

LEMMA NextSeatInv == SeatInv /\ [Next]_vars => SeatInv'
<1> SUFFICES ASSUME SeatInv, [Next]_vars
             PROVE  SeatInv'
  OBVIOUS
<1>1. ControlInv /\ ControlInv' /\ TypeOK
  BY NextControlInv DEF SeatInv, ControlInv
<1>2. ASSUME UNCHANGED <<request, pc>>, Tame
      PROVE  SeatInv'
  BY <1>1, <1>2, TameSeatInv
<1>3. ASSUME NEW j \in Joins, JoinStep(j) \/ Call(j)
      PROVE  SeatInv'
  <2>1. CASE TakeSeat(j)
    BY <1>1, <2>1, TakeSeatInv
  <2>2. CASE ~ TakeSeat(j)
    <3>1. request' = request /\ \A k \in Joins : pc'[k] = "seated" => pc[k] = "seated"
      BY <1>1, <1>3, <2>2 DEF JoinStep, Call, Admit, ReadUser, CheckReferral, Charge,
         ChargeFails, Goto, TypeOK
    <3>. QED
      BY <1>1, <1>3, <3>1, JoinTame, TameSeatInv
  <2>. QED
    BY <2>1, <2>2
<1>4. ASSUME NEW r \in Rooms, TimerStep(r)
      PROVE  SeatInv'
  <2>1. UNCHANGED <<request, pc>>
    BY <1>4 DEF TimerStep, FirstPeriod, SecondPeriod, BotEntryIdle, BotEntryFills
  <2>. QED
    BY <1>1, <1>2, <1>4, <2>1, TimerTame
<1>5. ASSUME NEW f \in DOMAIN fills, FillStep(f)
      PROVE  SeatInv'
  <2>1. UNCHANGED <<request, pc>>
    BY <1>5 DEF FillStep, BotJoins, FillFails, FillExits, EndFill, FillAbandons,
       FillContinues
  <2>. QED
    BY <1>1, <1>2, <1>5, <2>1, FillTame
<1>6. ASSUME NEW s \in DOMAIN starts, StartStep(s)
      PROVE  SeatInv'
  BY <1>1, <1>6, StartSeatInv
<1>7. ASSUME NEW u \in Users, NEW a \in Prizes, Settle(u, a)
      PROVE  SeatInv'
  BY <1>2, <1>7 DEF Settle, Tame
<1>8. CASE UNCHANGED vars
  BY <1>2, <1>8 DEF vars, Tame
<1>. QED
  BY <1>3, <1>4, <1>5, <1>6, <1>7, <1>8 DEF Next, ServerStep

\* A seat paid for and taken while the lobby waited is never lost, whatever
\* fails and whoever else joins: it is in the lobby or in a committed match.
THEOREM PaidSeatKeptCorrect == Spec => []PaidSeatKept
<1>1. SeatInv => PaidSeatKept
  BY DEF SeatInv
<1>. QED
  BY <1>1, InitSeatInv, NextSeatInv, PTL DEF Spec

(***************************************************************************)
(* What a step does to the players of a lobby: nothing, or they are gone,  *)
(* or one more sits down behind them, a bot or the join that takes a seat. *)
(* totalCards is written together with the players.                        *)
(***************************************************************************)
JoinSeat(j) == [join |-> j, cards |-> request[j].cards]

OneMore(q, p) ==
  /\ lobby'[q].players = Append(lobby[q].players, p)
  /\ lobby'[q].totalCards = lobby[q].totalCards + p.cards

\* A fill of the room seats the bot and clamps its cards to the capacity.
BotFits(q, p) ==
  /\ \E f \in DOMAIN fills : fills[f].pc = "bot" /\ fills[f].room = q
  /\ lobby[q].totalCards + p.cards <= MaxCardsPerMatch

SitsDown(q) ==
  \/ \E p \in Seat : ~ IsReal(p) /\ OneMore(q, p) /\ BotFits(q, p)
  \/ \E j \in Joins : TakeSeat(j) /\ RoomOf(j) = q /\ OneMore(q, JoinSeat(j))

PlayersStep(q) ==
  \/ /\ lobby'[q].players = lobby[q].players
     /\ lobby'[q].totalCards = lobby[q].totalCards
  \/ /\ lobby'[q].players = <<>>
     /\ lobby'[q].totalCards = 0
  \/ SitsDown(q)

\* Whoever writes one lobby leaves the others alone.
LEMMA OneRoomWritten ==
  ASSUME TypeOK, NEW r \in Rooms, NEW m, lobby' = [lobby EXCEPT ![r] = m],
         m.players = lobby[r].players, m.totalCards = lobby[r].totalCards
  PROVE  \A q \in Rooms : PlayersStep(q)
BY DEF TypeOK, PlayersStep

\* finalizeLobby changes the status of the lobby it is given, and no player.
LEMMA FinalizedPlayers ==
  ASSUME NEW r \in Rooms, NEW l \in LobbyState, NEW t, CancelAndFinalize(r, l, t)
  PROVE  \E m : /\ lobby' = [lobby EXCEPT ![r] = m]
                /\ m.players = l.players /\ m.totalCards = l.totalCards
<1> DEFINE m == IF l.status = "WAITING" THEN [l EXCEPT !.status = "STARTING"] ELSE l
<1>1. lobby' = [lobby EXCEPT ![r] = m]
  BY DEF CancelAndFinalize, FinalizeLobby
<1>2. m.players = l.players /\ m.totalCards = l.totalCards
  BY DEF LobbyState
<1> HIDE DEF m
<1>. QED
  BY <1>1, <1>2

LEMMA TakeSeatPlayers ==
  ASSUME TypeOK, NEW j \in Joins, TakeSeat(j)
  PROVE  \A q \in Rooms : PlayersStep(q)
<1> DEFINE r == RoomOf(j)
           p == JoinSeat(j)
           l == Seated(lobby[r], p)
<1>1. r \in Rooms /\ lobby[r] \in LobbyState /\ p \in Seat
  BY LobbyParts DEF Seat, JoinSeat
<1>2. /\ l \in LobbyState /\ l.players = Append(lobby[r].players, p)
      /\ l.totalCards = lobby[r].totalCards + p.cards
  BY <1>1, SeatedType
<1>3. PICK m : /\ lobby' = [lobby EXCEPT ![r] = m]
               /\ m.players = l.players /\ m.totalCards = l.totalCards
  <2>1. \/ \E t : CancelAndFinalize(r, l, t)
        \/ lobby' = [lobby EXCEPT ![r] = l]
    BY DEF TakeSeat, JoinSeat
  <2>. QED
    BY <1>1, <1>2, <2>1, FinalizedPlayers
<1>4. OneMore(r, p) /\ \A q \in Rooms \ {r} : lobby'[q] = lobby[q]
  BY <1>1, <1>2, <1>3 DEF TypeOK, OneMore
<1>. QED
  BY <1>4 DEF PlayersStep, SitsDown

LEMMA TimerPlayers ==
  ASSUME TypeOK, NEW r \in Rooms, TimerStep(r)
  PROVE  \A q \in Rooms : PlayersStep(q)
<1>1. lobby[r] \in LobbyState
  BY LobbyParts
<1>2. ASSUME NEW w, NEW l \in LobbyState, WindowFired(r, w, l),
             l.players = lobby[r].players, l.totalCards = lobby[r].totalCards
      PROVE  \A q \in Rooms : PlayersStep(q)
  <2>1. PICK m : /\ lobby' = [lobby EXCEPT ![r] = m]
                 /\ m.players = l.players /\ m.totalCards = l.totalCards
    <3>1. \/ \E t : CancelAndFinalize(r, l, t)
          \/ lobby' = [lobby EXCEPT ![r] = l]
      BY <1>2 DEF WindowFired
    <3>. QED
      BY <3>1, FinalizedPlayers
  <2>. QED
    BY <1>2, <2>1, OneRoomWritten
<1>3. \A l \in {[lobby[r] EXCEPT !.first = TRUE], [lobby[r] EXCEPT !.second = TRUE],
                [lobby[r] EXCEPT !.filling = TRUE]} :
        /\ l \in LobbyState
        /\ l.players = lobby[r].players /\ l.totalCards = lobby[r].totalCards
  BY <1>1 DEF LobbyState
<1>4. CASE lobby' = lobby
  BY <1>4 DEF PlayersStep
<1>5. CASE FirstPeriod(r)
  BY <1>2, <1>3, <1>4, <1>5 DEF FirstPeriod
<1>6. CASE SecondPeriod(r)
  BY <1>2, <1>3, <1>4, <1>6 DEF SecondPeriod
<1>7. CASE BotEntryIdle(r)
  BY <1>4, <1>7 DEF BotEntryIdle
<1>8. CASE BotEntryFills(r)
  <2>1. lobby' = [lobby EXCEPT ![r] = [lobby[r] EXCEPT !.filling = TRUE]]
    BY <1>8 DEF BotEntryFills
  <2>. QED
    BY <1>3, <2>1, OneRoomWritten
<1>. QED
  BY <1>5, <1>6, <1>7, <1>8 DEF TimerStep

LEMMA FillPlayers ==
  ASSUME TypeOK, NEW f \in DOMAIN fills, FillStep(f)
  PROVE  \A q \in Rooms : PlayersStep(q)
<1> DEFINE r == fills[f].room
<1>1. r \in Rooms /\ lobby[r] \in LobbyState /\ lobby[r].totalCards \in Nat
  BY LobbyParts
<1>2. CASE lobby' = lobby
  BY <1>2 DEF PlayersStep
<1>3. CASE BotJoins(f)
  <2> DEFINE n == Min({fills[f].cards, MaxCardsPerMatch - lobby[r].totalCards})
             p == [join |-> BOT, cards |-> n]
  <2>1. n \in Int
    <3>1. fills[f].cards \in Int
      BY LobbyParts DEF Fill
    <3>2. MaxCardsPerMatch - lobby[r].totalCards \in Int
      BY <1>1, Limits
    <3>. QED
      BY <3>1, <3>2, MinPair
  <2>2. CASE n > 0
    <3>1. p \in Seat /\ ~ IsReal(p)
      BY <2>1, <2>2 DEF Seat, IsReal
    <3>2. /\ Seated(lobby[r], p).players = Append(lobby[r].players, p)
          /\ Seated(lobby[r], p).totalCards = lobby[r].totalCards + p.cards
      BY <1>1, <3>1, SeatedType
    <3>3. lobby' = [lobby EXCEPT ![r] = Seated(lobby[r], p)]
      BY <1>3, <2>2 DEF BotJoins
    <3>4. BotFits(r, p)
      <4>1. /\ fills[f].cards \in Int
            /\ MaxCardsPerMatch - lobby[r].totalCards \in Int
        BY <1>1, LobbyParts, Limits DEF Fill
      <4>2. n <= MaxCardsPerMatch - lobby[r].totalCards
        BY <4>1, MinPair
      <4> HIDE DEF n
      <4>3. lobby[r].totalCards + n <= MaxCardsPerMatch
        BY <1>1, <2>1, <4>2, Limits
      <4>. QED
        BY <1>3, <4>3 DEF BotFits, BotJoins
    <3> HIDE DEF p
    <3>. QED
      BY <1>1, <3>1, <3>2, <3>3, <3>4 DEF TypeOK, PlayersStep, SitsDown, OneMore
  <2>3. CASE ~ (n > 0)
    BY <1>2, <1>3, <2>3 DEF BotJoins
  <2>. QED
    BY <2>2, <2>3
<1>4. CASE FillExits(f)
  <2> DEFINE l == [lobby[r] EXCEPT !.filling = FALSE]
  <2>1. /\ l \in LobbyState /\ l.players = lobby[r].players
        /\ l.totalCards = lobby[r].totalCards
    BY <1>1 DEF LobbyState
  <2>2. \/ CancelAndFinalize(r, l, timers[r])
        \/ lobby' = [lobby EXCEPT ![r] = l]
    BY <1>4 DEF FillExits, EndFill
  <2>3. PICK m : /\ lobby' = [lobby EXCEPT ![r] = m]
                 /\ m.players = l.players /\ m.totalCards = l.totalCards
    BY <1>1, <2>1, <2>2, FinalizedPlayers
  <2>. QED
    BY <1>1, <2>1, <2>3, OneRoomWritten
<1>5. CASE FillFails(f) \/ FillAbandons(f) \/ FillContinues(f)
  BY <1>2, <1>5 DEF FillFails, FillAbandons, FillContinues
<1>. QED
  BY <1>3, <1>4, <1>5 DEF FillStep

LEMMA StartPlayers ==
  ASSUME TypeOK, NEW s \in DOMAIN starts, StartStep(s)
  PROVE  \A q \in Rooms : PlayersStep(q)
<1> DEFINE r == starts[s].room
<1>1. r \in Rooms /\ lobby[r] \in LobbyState
  BY LobbyParts
<1>2. CASE lobby' = lobby
  BY <1>2 DEF PlayersStep
<1>3. CASE StartFails(s) \/ StartAborts(s)
  <2> DEFINE m == [lobby[r] EXCEPT !.status = "WAITING"]
  <2>1. m.players = lobby[r].players /\ m.totalCards = lobby[r].totalCards
    BY <1>1 DEF LobbyState
  <2>2. lobby' = [lobby EXCEPT ![r] = m]
    BY <1>3 DEF StartFails, StartAborts, Reopened
  <2>. QED
    BY <1>1, <2>1, <2>2, OneRoomWritten
<1>4. CASE Announce(s)
  <2>1. EmptyLobby.players = <<>> /\ EmptyLobby.totalCards = 0
    BY DEF EmptyLobby
  <2>2. lobby' = [lobby EXCEPT ![r] = EmptyLobby]
    BY <1>4 DEF Announce
  <2>. QED
    BY <1>1, <2>1, <2>2 DEF TypeOK, PlayersStep
<1>. QED
  BY <1>2, <1>3, <1>4
     DEF StartStep, ReadRoom, CreateMatch, Assign, Commit, BeginCalling

LEMMA NextPlayers ==
  ASSUME TypeOK, [Next]_vars
  PROVE  \A q \in Rooms : PlayersStep(q)
<1>1. CASE lobby' = lobby
  BY <1>1 DEF PlayersStep
<1>2. ASSUME NEW j \in Joins, JoinStep(j) \/ Call(j)
      PROVE  lobby' = lobby \/ TakeSeat(j)
  BY <1>2 DEF JoinStep, Call, Admit, ReadUser, CheckReferral, Charge, ChargeFails
<1>3. ASSUME NEW u \in Users, NEW a \in Prizes, Settle(u, a)
      PROVE  lobby' = lobby
  BY <1>3 DEF Settle
<1>. QED
  BY <1>1, <1>2, <1>3, TakeSeatPlayers, TimerPlayers, FillPlayers, StartPlayers
     DEF Next, ServerStep, vars

(***************************************************************************)
(* SeatsBounded. The double join is refused four awaits before the seat is *)
(* taken. Whoever is admitted has no seat of the lobby at that moment, so  *)
(* the seats of a user, those still to be taken included, are never more   *)
(* than the messages of the user that were in flight together.             *)
(***************************************************************************)
AdmittedPC == {"user", "referral", "charge", "seat"}

\* The messages of u that were admitted to q and have no answer yet.
Admitted(q, u) ==
  {j \in Joins : RoomOf(j) = q /\ request[j].user = u /\ pc[j] \in AdmittedPC}

SeatsToCome ==
  \A q \in Rooms, u \in Users :
    Cardinality(SeatsOf(lobby[q].players, u)) + Cardinality(Admitted(q, u)) <= MaxPending

DoubleInv == PendingInv /\ SeatsToCome

LEMMA SeatsFinite ==
  ASSUME NEW ps \in Seq(Seat), NEW u
  PROVE  IsFiniteSet(SeatsOf(ps, u)) /\ Cardinality(SeatsOf(ps, u)) \in Nat
<1>1. IsFiniteSet(DOMAIN ps)
  BY FS_Interval
<1>. QED
  BY <1>1, FS_Subset, FS_CardinalityType DEF SeatsOf

LEMMA AdmittedFinite ==
  ASSUME NEW q, NEW u
  PROVE  /\ IsFiniteSet(Admitted(q, u)) /\ Cardinality(Admitted(q, u)) \in Nat
         /\ Cardinality(Admitted(q, u)) <= Cardinality(InFlight(u))
<1>1. Admitted(q, u) \in SUBSET InFlight(u)
  BY DEF Admitted, InFlight, AdmittedPC, InFlightPC
<1>. QED
  BY <1>1, FlightFinite, FS_Subset, FS_CardinalityType

LEMMA InitDoubleInv == Init => DoubleInv
<1> SUFFICES ASSUME Init, NEW q \in Rooms, NEW u \in Users
             PROVE  /\ Cardinality(SeatsOf(lobby[q].players, u)) = 0
                    /\ Cardinality(Admitted(q, u)) = 0
  BY InitDebtInv, Limits DEF DoubleInv, DebtInv, SeatsToCome
<1>1. SeatsOf(lobby[q].players, u) = {} /\ Admitted(q, u) = {}
  BY DEF Init, EmptyLobby, SeatsOf, Admitted, AdmittedPC
<1>. QED
  BY <1>1, FS_EmptySet

\* One more seat is one more of its user, if it has one.
LEMMA AppendSeatsOf ==
  ASSUME NEW ps \in Seq(Seat), NEW p \in Seat, NEW u
  PROVE  /\ IsReal(p) /\ UserOf(p) = u =>
              /\ SeatsOf(Append(ps, p), u) = SeatsOf(ps, u) \cup {Len(ps) + 1}
              /\ Len(ps) + 1 \notin SeatsOf(ps, u)
         /\ ~ (IsReal(p) /\ UserOf(p) = u) => SeatsOf(Append(ps, p), u) = SeatsOf(ps, u)
<1>1. /\ DOMAIN Append(ps, p) = DOMAIN ps \cup {Len(ps) + 1}
      /\ Len(ps) + 1 \notin DOMAIN ps
      /\ \A i \in DOMAIN ps : Append(ps, p)[i] = ps[i]
      /\ Append(ps, p)[Len(ps) + 1] = p
  OBVIOUS
<1>. QED
  BY <1>1 DEF SeatsOf

LEMMA AppendHasUser ==
  ASSUME NEW ps \in Seq(Seat), NEW p \in Seat, NEW u,
         HasUser(Append(ps, p), u)
  PROVE  HasUser(ps, u) \/ (IsReal(p) /\ UserOf(p) = u)
<1>1. \A i \in DOMAIN Append(ps, p) :
        \/ i \in DOMAIN ps /\ Append(ps, p)[i] = ps[i]
        \/ Append(ps, p)[i] = p
  OBVIOUS
<1>. QED
  BY <1>1 DEF HasUser

\* A join is admitted by the checks of Admit, and leaves by its seat.
LEMMA AdmittedSteps ==
  ASSUME TypeOK, [Next]_vars
  PROVE  /\ \A k \in Joins : pc'[k] \in AdmittedPC =>
              \/ pc[k] \in AdmittedPC
              \/ /\ Admissible(k, lobby[RoomOf(k)]) /\ lobby' = lobby
                 /\ pc'[k] = "user"
         /\ \A j \in Joins : TakeSeat(j) =>
              pc[j] = "seat" /\ pc'[j] \in {"seated", "late"}
<1>1. \A k \in Joins : pc'[k] # pc[k] => JoinStep(k) \/ Call(k)
  BY PcSteps
<1>2. ASSUME NEW k \in Joins, pc'[k] \in AdmittedPC, pc[k] \notin AdmittedPC
      PROVE  Admissible(k, lobby[RoomOf(k)]) /\ lobby' = lobby /\ pc'[k] = "user"
  <2>1. JoinStep(k) \/ Call(k)
    BY <1>1, <1>2
  <2>2. Admit(k) /\ pc'[k] = "user" /\ Admissible(k, lobby[RoomOf(k)])
    BY <1>2, <2>1
       DEF JoinStep, Call, Admit, ReadUser, CheckReferral, Charge, ChargeFails,
           TakeSeat, Goto, TypeOK, AdmittedPC
  <2>. QED
    BY <2>2 DEF Admit
<1>3. \A j \in Joins : TakeSeat(j) => pc[j] = "seat" /\ pc'[j] \in {"seated", "late"}
  BY DEF TakeSeat, Goto, TypeOK
<1>. QED
  BY <1>2, <1>3

\* The seats of a user and those to come, after any step.
LEMMA SeatsStep ==
  ASSUME DoubleInv, [Next]_vars, NEW q \in Rooms, NEW u \in Users,
         NEW S, S = SeatsOf(lobby'[q].players, u),
         NEW K, K = Admitted(q, u)'
  PROVE  Cardinality(S) + Cardinality(K) <= MaxPending
<1> DEFINE ps == lobby[q].players
           T == SeatsOf(ps, u)
           A == Admitted(q, u)
<1>1. TypeOK /\ request' = request /\ ps \in Seq(Seat) /\ PlayersStep(q)
  BY PcSteps, NextPlayers, LobbyParts DEF DoubleInv, PendingInv
<1>2. /\ IsFiniteSet(T) /\ Cardinality(T) \in Nat
      /\ IsFiniteSet(A) /\ Cardinality(A) \in Nat /\ A \in SUBSET Joins
      /\ Cardinality(T) + Cardinality(A) <= MaxPending /\ MaxPending \in Nat
  BY <1>1, SeatsFinite, AdmittedFinite, Limits DEF DoubleInv, SeatsToCome, Admitted
<1>3. /\ \A k \in K \ A : /\ k \in Joins /\ RoomOf(k) = q /\ request[k].user = u
                          /\ Admissible(k, lobby[q]) /\ lobby' = lobby
  BY <1>1, AdmittedSteps DEF Admitted, RoomOf
<1>4. K \in SUBSET Joins /\ IsFiniteSet(K) /\ Cardinality(K) \in Nat
  <2>1. K \in SUBSET Joins
    BY DEF Admitted
  <2>. QED
    BY <2>1, SetsAssumption, FS_Subset, FS_CardinalityType
\* Someone was admitted: the user has no seat, and no more messages in flight
\* than there may be.
<1>5. CASE \E k \in K : k \notin A
  <2>1. S = {}
    BY <1>1, <1>3, <1>5 DEF Admissible, HasUser, SeatsOf
  <2>2. PICK F : F = InFlight(u)'
    OBVIOUS
  <2>3. F \in SUBSET Joins /\ Cardinality(F) <= MaxPending
    BY <2>2, PendingStep DEF DoubleInv, PendingInv, PendingBounded, InFlight
  <2>4. K \in SUBSET F
    BY <2>2 DEF Admitted, InFlight, AdmittedPC, InFlightPC
  <2>5. Cardinality(K) <= Cardinality(F) /\ Cardinality(F) \in Nat
    BY <2>3, <2>4, SetsAssumption, FS_Subset, FS_CardinalityType
  <2>. QED
    BY <1>2, <1>4, <2>1, <2>3, <2>5, FS_EmptySet
<1>6. CASE K \in SUBSET A
  <2>1. Cardinality(K) <= Cardinality(A)
    BY <1>2, <1>6, FS_Subset
  <2>2. CASE S = T \/ S = {}
    BY <1>2, <1>4, <2>1, <2>2, FS_EmptySet
  <2>3. ASSUME NEW j \in Joins, TakeSeat(j), RoomOf(j) = q,
               lobby'[q].players = Append(ps, JoinSeat(j))
        PROVE  Cardinality(S) + Cardinality(K) <= MaxPending
    <3>1. /\ JoinSeat(j) \in Seat /\ IsReal(JoinSeat(j))
          /\ UserOf(JoinSeat(j)) = request[j].user
      BY <1>1, LobbyParts, SetsAssumption DEF JoinSeat, Seat, IsReal, UserOf
    <3>2. CASE request[j].user # u
      <4>1. S = T
        BY <1>1, <2>3, <3>1, <3>2, AppendSeatsOf
      <4>. QED
        BY <2>2, <4>1
    <3>3. CASE request[j].user = u
      <4>1. j \in A /\ j \notin K
        BY <1>1, <2>3, <3>3, AdmittedSteps DEF Admitted, AdmittedPC
      <4>2. K \in SUBSET (A \ {j})
        BY <1>6, <4>1
      <4>3. IsFiniteSet(A \ {j}) /\ Cardinality(A \ {j}) = Cardinality(A) - 1
        BY <1>2, <4>1, FS_RemoveElement
      <4>4. Cardinality(K) <= Cardinality(A) - 1
        BY <4>2, <4>3, FS_Subset
      <4>5. S = T \cup {Len(ps) + 1} /\ Len(ps) + 1 \notin T
        BY <1>1, <2>3, <3>1, <3>3, AppendSeatsOf
      <4>6. Cardinality(S) = Cardinality(T) + 1
        BY <1>2, <4>5, FS_AddElement
      <4>. QED
        BY <1>2, <1>4, <4>4, <4>6
    <3>. QED
      BY <3>2, <3>3
  <2>4. ASSUME NEW p \in Seat, ~ IsReal(p), lobby'[q].players = Append(ps, p)
        PROVE  S = T
    BY <1>1, <2>4, AppendSeatsOf
  <2>5. SeatsOf(<<>>, u) = {}
    BY DEF SeatsOf
  <2>. QED
    BY <1>1, <2>2, <2>3, <2>4, <2>5 DEF PlayersStep, SitsDown, OneMore
<1>. QED
  BY <1>5, <1>6

LEMMA NextDoubleInv == DoubleInv /\ [Next]_vars => DoubleInv'
<1> SUFFICES ASSUME DoubleInv, [Next]_vars PROVE DoubleInv'
  OBVIOUS
<1>1. PendingInv' /\ request' = request
  BY PendingStep, PcSteps DEF DoubleInv, PendingInv
<1>2. ASSUME NEW q \in Rooms, NEW u \in Users
      PROVE  /\ SeatsOf(lobby[q].players, u)' = SeatsOf(lobby'[q].players, u)
             /\ Cardinality(SeatsOf(lobby'[q].players, u)) + Cardinality(Admitted(q, u)')
                  <= MaxPending
  <2>1. SeatsOf(lobby[q].players, u)' = SeatsOf(lobby'[q].players, u)
    BY <1>1 DEF SeatsOf, UserOf, IsReal
  <2>. QED
    BY <2>1, SeatsStep
<1>. QED
  BY <1>1, <1>2 DEF DoubleInv, SeatsToCome

\* However many messages of a user follow each other, those in flight together
\* are all that can be seated: SeatsBounded for every bound on them.
THEOREM SeatsBoundedCorrect == Spec => []SeatsBounded
<1>1. DoubleInv => SeatsBounded
  <2> SUFFICES ASSUME DoubleInv, NEW q \in Rooms, NEW u \in Users
               PROVE  Cardinality(SeatsOf(lobby[q].players, u)) <= MaxPending
    BY DEF SeatsBounded
  <2>1. /\ Cardinality(SeatsOf(lobby[q].players, u)) \in Nat
        /\ Cardinality(Admitted(q, u)) \in Nat /\ MaxPending \in Nat
    BY SeatsFinite, AdmittedFinite, LobbyParts, Limits DEF DoubleInv, PendingInv
  <2>. QED
    BY <2>1 DEF DoubleInv, SeatsToCome
<1>. QED
  BY <1>1, InitDoubleInv, NextDoubleInv, PTL DEF Spec

(***************************************************************************)
(* SeatPlaysOnce. A start commits rows of players who are in the lobby.    *)
(* Whoever plays a match that was announced was reset out of the lobby,    *)
(* and takes no other seat.                                                *)
(***************************************************************************)
TakenPC == {"seated", "late"}

\* Every join on a list of seats sat down in room r.
Taken(ps, r) ==
  \A i \in DOMAIN ps : IsReal(ps[i]) =>
    RoomOf(ps[i].join) = r /\ pc[ps[i].join] \in TakenPC

SeatsTaken == \A r \in Rooms : Taken(lobby[r].players, r)

RowsTaken == \A s \in DOMAIN starts : Taken(starts[s].seats, starts[s].room)

LeftLobby ==
  \A j \in Joins, s \in DOMAIN starts :
    starts[s].pc = "done" /\ InMatch(j, s) => ~ InLobby(j)

OnceInv == ControlInv /\ SeatPlaysOnce /\ SeatsTaken /\ RowsTaken /\ LeftLobby

LEMMA InitOnceInv == Init => OnceInv
<1> SUFFICES ASSUME Init
             PROVE  OnceInv
  OBVIOUS
<1>1. starts = <<>> /\ \A r \in Rooms : lobby[r].players = <<>>
  BY DEF Init, EmptyLobby
<1>2. SeatPlaysOnce /\ SeatsTaken /\ RowsTaken /\ LeftLobby
  BY <1>1 DEF SeatPlaysOnce, SeatsTaken, RowsTaken, LeftLobby, Taken
<1>. QED
  BY <1>2, InitControlInv DEF OnceInv

\* One more seat, after a step.
LEMMA AppendTaken ==
  ASSUME NEW ps \in Seq(Seat), NEW r, Taken(ps, r)', NEW p \in Seat,
         IsReal(p) => RoomOf(p.join)' = r /\ pc'[p.join] \in TakenPC
  PROVE  Taken(Append(ps, p), r)'
<1>1. \A i \in DOMAIN Append(ps, p) :
        \/ i \in DOMAIN ps /\ Append(ps, p)[i] = ps[i]
        \/ Append(ps, p)[i] = p
  OBVIOUS
<1>. QED
  BY <1>1 DEF Taken, IsReal

\* A seated join stays seated, so what was taken stays taken.
LEMMA TakenKept ==
  ASSUME TypeOK, [Next]_vars
  PROVE  /\ \A j \in Joins : pc[j] \in TakenPC => pc'[j] = pc[j] /\ ~ TakeSeat(j)
         /\ \A j \in Joins : RoomOf(j)' = RoomOf(j)
         /\ \A ps \in Seq(Seat) : \A r : Taken(ps, r) => Taken(ps, r)'
<1>1. /\ request' = request
      /\ \A k \in Joins : pc'[k] # pc[k] => JoinStep(k) \/ Call(k)
  BY PcSteps
<1>2. \A j \in Joins : JoinStep(j) \/ Call(j) => pc[j] \notin TakenPC
  BY DEF JoinStep, Call, Admit, ReadUser, CheckReferral, Charge, ChargeFails,
     TakeSeat, TakenPC
<1>3. \A j \in Joins : pc[j] \in TakenPC => pc'[j] = pc[j] /\ ~ TakeSeat(j)
  BY <1>1, <1>2 DEF JoinStep
<1>4. \A j \in Joins : RoomOf(j)' = RoomOf(j)
  BY <1>1 DEF RoomOf
<1>5. ASSUME NEW ps \in Seq(Seat), NEW r, Taken(ps, r)
      PROVE  Taken(ps, r)'
  <2>1. \A i \in DOMAIN ps : IsReal(ps[i]) => ps[i].join \in Joins
    <3>1. \A i \in DOMAIN ps : ps[i] \in Seat
      OBVIOUS
    <3>. QED
      BY <3>1 DEF Seat, IsReal
  <2>. QED
    BY <1>3, <1>4, <1>5, <2>1 DEF Taken, IsReal
<1>. QED
  BY <1>3, <1>4, <1>5

\* Who has a seat already enters no lobby.
LEMMA TakenStaysOut ==
  ASSUME TypeOK, [Next]_vars, NEW j \in Joins, pc[j] \in TakenPC, InLobby(j)'
  PROVE  InLobby(j)
<1> DEFINE q == RoomOf(j)
<1>1. q \in Rooms /\ RoomOf(j)' = q /\ lobby[q].players \in Seq(Seat)
  BY LobbyParts, TakenKept
<1>2. PICK i \in DOMAIN lobby'[q].players : lobby'[q].players[i].join = j
  BY <1>1 DEF InLobby
<1>3. PlayersStep(q)
  BY <1>1, NextPlayers
<1>4. ASSUME NEW p \in Seat, lobby'[q].players = Append(lobby[q].players, p), p.join # j
      PROVE  InLobby(j)
  <2>1. i \in DOMAIN lobby[q].players /\ lobby'[q].players[i] = lobby[q].players[i]
    BY <1>1, <1>2, <1>4
  <2>. QED
    BY <1>2, <2>1 DEF InLobby
<1>5. CASE SitsDown(q)
  <2>1. \A p \in Seat : ~ IsReal(p) => p.join # j
    BY SetsAssumption DEF IsReal
  <2>2. \A k \in Joins : TakeSeat(k) => k # j
    BY TakenKept
  <2>3. \A k \in Joins : JoinSeat(k) \in Seat /\ JoinSeat(k).join = k
    BY LobbyParts DEF JoinSeat, Seat
  <2>. QED
    BY <1>4, <1>5, <2>1, <2>2, <2>3 DEF SitsDown, OneMore
<1>6. CASE lobby'[q].players = lobby[q].players
  BY <1>2, <1>6 DEF InLobby
<1>. QED
  BY <1>2, <1>3, <1>5, <1>6 DEF PlayersStep

\* What a step of a start does to its rows.
LEMMA StartRows ==
  ASSUME TypeOK, NEW s \in DOMAIN starts, StartStep(s)
  PROVE  /\ DOMAIN starts' = DOMAIN starts
         /\ \A u \in DOMAIN starts \ {s} : starts'[u] = starts[u]
         /\ Active(s) /\ starts'[s].room = starts[s].room
         /\ \/ starts'[s].seats = starts[s].seats
            \/ starts'[s].seats = <<>>
            \/ /\ ~ AllDealt(s)
               /\ starts'[s].seats = Append(starts[s].seats, NextSeat(s))
         /\ Committed(s)' => /\ Committed(s) \/ Commit(s)
                             /\ starts'[s].seats = starts[s].seats
         /\ starts'[s].pc = "done" => Announce(s)
<1> DEFINE g == starts[s]
           h == starts'[s]
<1>1. g \in Start /\ starts \in Seq(Start)
  BY LobbyParts DEF TypeOK
<1>2. /\ DOMAIN starts' = DOMAIN starts
      /\ \A u \in DOMAIN starts \ {s} : starts'[u] = starts[u]
  BY <1>1 DEF StartStep, ReadRoom, CreateMatch, Assign, Commit, StartFails,
     BeginCalling, Announce, StartAborts
<1>3. Active(s)
  BY DEF Active, StartStep, ReadRoom, CreateMatch, Assign, Commit, StartFails,
     BeginCalling, Announce, StartAborts
<1>4. CASE ReadRoom(s) \/ CreateMatch(s)
  <2>1. h.room = g.room /\ h.seats = g.seats /\ h.pc \in {"create", "assign"}
    BY <1>1, <1>4 DEF ReadRoom, CreateMatch, Start
  <2>. QED
    BY <1>2, <1>3, <2>1 DEF Committed
<1>5. CASE Assign(s)
  <2> DEFINE p == NextSeat(s)
  <2>1. h = [g EXCEPT !.seats = Append(@, p), !.dealt = @ + p.cards]
    BY <1>1, <1>5 DEF Assign
  <2>2. h.room = g.room /\ h.seats = Append(g.seats, p) /\ h.pc = "assign"
    BY <1>1, <1>5, <2>1 DEF Assign, Start
  <2>. QED
    BY <1>2, <1>3, <1>5, <2>2 DEF Committed, Assign
<1>6. CASE Commit(s)
  <2>1. h.room = g.room /\ h.seats = g.seats /\ h.pc = "calling"
    BY <1>1, <1>6 DEF Commit, Start
  <2>. QED
    BY <1>2, <1>3, <1>6, <2>1
<1>7. CASE StartFails(s)
  <2>1. h = [NewStart(g.room) EXCEPT !.pc = "failed"]
    BY <1>1, <1>7 DEF StartFails
  <2>2. h.room = g.room /\ h.seats = <<>> /\ h.pc = "failed"
    BY <2>1 DEF NewStart
  <2>. QED
    BY <1>2, <1>3, <2>2 DEF Committed
<1>8. CASE BeginCalling(s) \/ Announce(s) \/ StartAborts(s)
  <2>1. /\ h.room = g.room /\ h.seats = g.seats /\ Committed(s)
        /\ h.pc = "done" => Announce(s)
    BY <1>1, <1>8 DEF BeginCalling, Announce, StartAborts, Committed, Start
  <2>. QED
    BY <1>2, <1>3, <2>1
<1>. QED
  BY <1>4, <1>5, <1>6, <1>7, <1>8 DEF StartStep

LEMMA SeatsTakenStep ==
  ASSUME TypeOK, SeatsTaken, [Next]_vars
  PROVE  SeatsTaken'
<1>1. SUFFICES ASSUME NEW q \in Rooms
               PROVE  Taken(lobby[q].players, q)'
  BY DEF SeatsTaken
<1>2. lobby[q].players \in Seq(Seat) /\ Taken(lobby[q].players, q)
  BY LobbyParts DEF SeatsTaken
<1> DEFINE ps == lobby[q].players
<1>3. ASSUME NEW qs \in Seq(Seat), lobby'[q].players = qs, Taken(qs, q)'
      PROVE  Taken(lobby[q].players, q)'
  BY <1>3 DEF Taken
<1>4. \A qs \in Seq(Seat) : Taken(qs, q) => Taken(qs, q)'
  BY TakenKept
<1>5. CASE lobby'[q].players = lobby[q].players
  BY <1>2, <1>3, <1>4, <1>5
<1>6. CASE lobby'[q].players = <<>>
  BY <1>6 DEF Taken
<1>7. CASE SitsDown(q)
  <2>1. ASSUME NEW p \in Seat, lobby'[q].players = Append(lobby[q].players, p),
               IsReal(p) => RoomOf(p.join)' = q /\ pc'[p.join] \in TakenPC
        PROVE  Taken(lobby[q].players, q)'
    <3>1. PICK qs \in Seq(Seat) : qs = lobby[q].players
      BY <1>2
    <3>2. Taken(qs, q)'
      BY <1>2, <1>4, <3>1
    <3>3. Taken(Append(qs, p), q)'
      BY <2>1, <3>2, AppendTaken
    <3>4. Append(qs, p) \in Seq(Seat)
      OBVIOUS
    <3>. QED
      BY <1>3, <2>1, <3>1, <3>3, <3>4
  <2>2. ASSUME NEW j \in Joins, TakeSeat(j), RoomOf(j) = q,
               lobby'[q].players = Append(lobby[q].players, JoinSeat(j))
        PROVE  Taken(lobby[q].players, q)'
    <3>1. JoinSeat(j) \in Seat /\ JoinSeat(j).join = j
      BY LobbyParts DEF JoinSeat, Seat
    <3>2. PICK p \in Seat : p = JoinSeat(j)
      BY <3>1
    <3>3. pc'[j] \in TakenPC
      BY <2>2 DEF TakeSeat, Goto, TypeOK, TakenPC
    <3>4. RoomOf(p.join)' = q /\ pc'[p.join] \in TakenPC
      BY <2>2, <3>1, <3>2, <3>3, TakenKept
    <3>. QED
      BY <2>1, <2>2, <3>2, <3>4
  <2>. QED
    BY <1>7, <2>1, <2>2 DEF SitsDown, OneMore
<1>. QED
  BY <1>5, <1>6, <1>7, NextPlayers DEF PlayersStep

\* Joins, timers and fills leave the rows alone; a new start has none.
LEMMA TameOnceInv ==
  ASSUME OnceInv, ControlInv', SeatsTaken', [Next]_vars, Tame
  PROVE  OnceInv'
<1>1. TypeOK /\ starts \in Seq(Start)
  BY DEF OnceInv, ControlInv, TypeOK
<1>2. \/ starts' = starts
      \/ \E r \in Rooms : starts' = Append(starts, NewStart(r))
  BY DEF Tame, RoomGrows, Grows
<1>3. /\ DOMAIN starts \subseteq DOMAIN starts'
      /\ \A u \in DOMAIN starts : starts'[u] = starts[u]
      /\ \A u \in DOMAIN starts' \ DOMAIN starts :
           starts'[u].pc = "room" /\ starts'[u].seats = <<>>
  <2>1. ASSUME NEW r \in Rooms, starts' = Append(starts, NewStart(r))
        PROVE  <1>3!1 /\ <1>3!2 /\ <1>3!3
    <3>1. /\ DOMAIN starts \subseteq DOMAIN starts'
          /\ \A u \in DOMAIN starts : starts'[u] = starts[u]
          /\ \A u \in DOMAIN starts' \ DOMAIN starts : starts'[u] = NewStart(r)
      BY <1>1, <2>1
    <3>. QED
      BY <3>1 DEF NewStart
  <2>. QED
    BY <1>2, <2>1
<1>4. \A j \in Joins, u \in DOMAIN starts' :
        InMatch(j, u)' => u \in DOMAIN starts /\ InMatch(j, u)
  BY <1>3 DEF InMatch, Committed
<1>5. SeatPlaysOnce'
  BY <1>3, <1>4 DEF OnceInv, SeatPlaysOnce
<1>6. RowsTaken'
  <2>1. ASSUME NEW u \in DOMAIN starts
        PROVE  Taken(starts[u].seats, starts[u].room)'
    <3>1. starts[u].seats \in Seq(Seat) /\ Taken(starts[u].seats, starts[u].room)
      BY <1>1, LobbyParts DEF OnceInv, RowsTaken, Start
    <3>2. \A ps \in Seq(Seat) : \A r : Taken(ps, r) => Taken(ps, r)'
      BY <1>1, TakenKept
    <3>3. PICK ps \in Seq(Seat) : ps = starts[u].seats
      BY <3>1
    <3>4. PICK r : r = starts[u].room
      OBVIOUS
    <3>5. Taken(ps, r)'
      BY <3>1, <3>2, <3>3, <3>4
    <3>. QED
      BY <1>3, <3>3, <3>4, <3>5 DEF Taken
  <2>. QED
    BY <1>3, <2>1 DEF RowsTaken, Taken
<1>7. LeftLobby'
  <2>1. SUFFICES ASSUME NEW j \in Joins, NEW u \in DOMAIN starts',
                        starts'[u].pc = "done", InMatch(j, u)', InLobby(j)'
                 PROVE  FALSE
    BY DEF LeftLobby
  <2>2. u \in DOMAIN starts /\ InMatch(j, u) /\ starts[u].pc = "done"
    BY <1>3, <1>4, <2>1
  <2>3. pc[j] \in TakenPC
    BY <2>2, SetsAssumption DEF InMatch, OnceInv, RowsTaken, Taken, IsReal
  <2>4. InLobby(j)
    BY <1>1, <2>1, <2>3, TakenStaysOut
  <2>. QED
    BY <2>2, <2>4 DEF OnceInv, LeftLobby
<1>. QED
  BY <1>5, <1>6, <1>7 DEF OnceInv

LEMMA StartOnceInv ==
  ASSUME OnceInv, ControlInv', SeatsTaken', [Next]_vars,
         NEW s \in DOMAIN starts, StartStep(s)
  PROVE  OnceInv'
<1> DEFINE r == starts[s].room
<1>1. TypeOK /\ ControlInv /\ starts[s] \in Start /\ r \in Rooms
  BY LobbyParts DEF OnceInv, ControlInv
<1>2. /\ DOMAIN starts' = DOMAIN starts
      /\ \A u \in DOMAIN starts \ {s} : starts'[u] = starts[u]
      /\ Active(s) /\ starts'[s].room = starts[s].room
      /\ Committed(s)' => /\ Committed(s) \/ Commit(s)
                          /\ starts'[s].seats = starts[s].seats
      /\ starts'[s].pc = "done" => Announce(s)
  BY <1>1, StartRows
<1>3. \A j \in Joins, u \in DOMAIN starts :
        InMatch(j, u) => pc[j] \in TakenPC /\ RoomOf(j) = starts[u].room
  BY SetsAssumption DEF InMatch, OnceInv, RowsTaken, Taken, IsReal
<1>4. \A j \in Joins, u \in DOMAIN starts :
        InMatch(j, u)' => \/ InMatch(j, u)
                          \/ /\ u = s /\ Commit(s)
                             /\ \E i \in DOMAIN starts[s].seats : starts[s].seats[i].join = j
  BY <1>2 DEF InMatch, Committed
<1>5. SeatPlaysOnce'
  <2>1. SUFFICES ASSUME NEW j \in Joins, NEW t \in DOMAIN starts, NEW u \in DOMAIN starts,
                        InMatch(j, t)', InMatch(j, u)', t # u
                 PROVE  "aborted" \in {starts'[t].pc, starts'[u].pc}
    BY <1>2 DEF SeatPlaysOnce
  <2>2. CASE InMatch(j, t) /\ InMatch(j, u)
    <3>1. "aborted" \in {starts[t].pc, starts[u].pc}
      BY <2>1, <2>2 DEF OnceInv, SeatPlaysOnce
    <3>2. starts[s].pc # "aborted"
      BY <1>2 DEF Active
    <3>. QED
      BY <1>2, <3>1, <3>2
  <2>3. ASSUME NEW v \in DOMAIN starts, v # s, InMatch(j, v), Commit(s),
               \E i \in DOMAIN starts[s].seats : starts[s].seats[i].join = j
        PROVE  starts'[v].pc = "aborted"
    <3>1. RoomOf(j) = r
      BY <2>3, SetsAssumption DEF OnceInv, RowsTaken, Taken, IsReal
    <3>2. InLobby(j)
      <4>1. /\ Len(starts[s].seats) <= Len(Players(s))
            /\ \A i \in DOMAIN starts[s].seats : starts[s].seats[i] = Players(s)[i]
        BY <1>1, <1>2 DEF ControlInv, SeatsArePrefix
      <4>2. starts[s].seats \in Seq(Seat) /\ Players(s) \in Seq(Seat)
        BY <1>1, LobbyParts DEF Start, Players
      <4>3. \A i \in DOMAIN starts[s].seats : i \in DOMAIN Players(s)
        BY <4>1, <4>2
      <4>. QED
        BY <2>3, <3>1, <4>1, <4>3 DEF InLobby, Players
    <3>3. ~ Active(v)
      BY <1>1, <1>2, <1>3, <2>3, <3>1 DEF ControlInv, OneStartPerRoom
    <3>4. starts[v].pc # "done"
      BY <2>3, <3>2 DEF OnceInv, LeftLobby
    <3>. QED
      BY <1>2, <2>3, <3>3, <3>4 DEF InMatch, Committed, Active
  <2>. QED
    BY <1>4, <2>1, <2>2, <2>3
<1>6. RowsTaken'
  <2>1. ASSUME NEW u \in DOMAIN starts
        PROVE  Taken(starts[u].seats, starts[u].room)'
    <3>1. starts[u].seats \in Seq(Seat) /\ Taken(starts[u].seats, starts[u].room)
      BY <1>1, LobbyParts DEF OnceInv, RowsTaken, Start
    <3>2. PICK ps, q : ps = starts[u].seats /\ q = starts[u].room
      OBVIOUS
    <3>3. Taken(ps, q)' /\ starts'[u].room = q
      BY <1>1, <1>2, <3>1, <3>2, TakenKept
    <3>4. CASE starts'[u].seats = ps \/ starts'[u].seats = <<>>
      BY <3>3, <3>4 DEF Taken
    <3>5. CASE /\ u = s /\ ~ AllDealt(s)
               /\ starts'[s].seats = Append(starts[s].seats, NextSeat(s))
      <4>1. NextSeat(s) \in Seat /\ Len(starts[s].seats) + 1 \in DOMAIN Players(s)
        BY <1>1, <3>5, NextSeatType
      <4>2. IsReal(NextSeat(s)) => /\ RoomOf(NextSeat(s).join) = r
                                   /\ pc[NextSeat(s).join] \in TakenPC
        BY <1>1, <4>1 DEF OnceInv, SeatsTaken, Taken, NextSeat, Players
      <4>3. PICK p \in Seat : p = NextSeat(s)
        BY <4>1
      <4>4. IsReal(p) => p.join \in Joins
        BY DEF Seat, IsReal
      <4>5. IsReal(p) => RoomOf(p.join)' = q /\ pc'[p.join] \in TakenPC
        BY <1>1, <3>2, <3>5, <4>2, <4>3, <4>4, TakenKept
      <4>6. Taken(Append(ps, p), q)'
        BY <3>1, <3>2, <3>3, <4>5, AppendTaken
      <4>. QED
        BY <3>2, <3>3, <3>5, <4>3, <4>6 DEF Taken
    <3>. QED
      BY <1>1, <1>2, <3>2, <3>4, <3>5, StartRows
  <2>. QED
    BY <1>2, <2>1 DEF RowsTaken
<1>7. LeftLobby'
  <2>1. SUFFICES ASSUME NEW j \in Joins, NEW u \in DOMAIN starts,
                        starts'[u].pc = "done", InMatch(j, u)', InLobby(j)'
                 PROVE  FALSE
    BY <1>2 DEF LeftLobby
  <2>2. ~ (u = s /\ Commit(s))
    <3>1. Commit(s) => starts'[s].pc = "calling"
      BY <1>1 DEF Commit, TypeOK, Start
    <3>. QED
      BY <2>1, <3>1
  <2>3. InMatch(j, u) /\ pc[j] \in TakenPC /\ RoomOf(j) = starts[u].room
    BY <1>3, <1>4, <2>1, <2>2
  <2>4. InLobby(j)
    BY <1>1, <2>1, <2>3, TakenStaysOut
  <2>5. CASE u # s
    BY <1>2, <2>1, <2>3, <2>4, <2>5 DEF OnceInv, LeftLobby
  <2>6. CASE u = s
    <3>1. Announce(s)
      BY <1>2, <2>1, <2>6
    <3>2. lobby'[r].players = <<>>
      BY <1>1, <3>1 DEF Announce, TypeOK, EmptyLobby
    <3>3. RoomOf(j)' = r
      BY <1>1, <2>3, <2>6, TakenKept
    <3>. QED
      BY <2>1, <3>2, <3>3 DEF InLobby
  <2>. QED
    BY <2>5, <2>6
<1>. QED
  BY <1>5, <1>6, <1>7 DEF OnceInv

LEMMA NextOnceInv == OnceInv /\ [Next]_vars => OnceInv'
<1> SUFFICES ASSUME OnceInv, [Next]_vars
             PROVE  OnceInv'
  OBVIOUS
<1>1. ControlInv /\ ControlInv' /\ SeatsTaken'
  BY NextControlInv, SeatsTakenStep DEF OnceInv, ControlInv
<1>2. ASSUME NEW s \in DOMAIN starts, StartStep(s)
      PROVE  OnceInv'
  BY <1>1, <1>2, StartOnceInv
<1>3. ASSUME NEW u \in Users, NEW a \in Prizes, Settle(u, a)
      PROVE  Tame
  BY <1>3 DEF Settle, Tame
<1>4. CASE UNCHANGED vars
  BY <1>1, <1>4, TameOnceInv DEF vars, Tame
<1>. QED
  BY <1>1, <1>2, <1>3, <1>4, JoinTame, TimerTame, FillTame, TameOnceInv
     DEF Next, ServerStep

\* One payment is played in one match, whatever starts fail and whoever joins
\* while the cards are dealt: only a start aborted after its commit leaves
\* players of a running match in the lobby.
THEOREM SeatPlaysOnceCorrect == Spec => []SeatPlaysOnce
<1>1. OnceInv => SeatPlaysOnce
  BY DEF OnceInv
<1>. QED
  BY <1>1, InitOnceInv, NextOnceInv, PTL DEF Spec

(***************************************************************************)
(* CardsAddUp. totalCards is written together with the players, so it only *)
(* has to be shown that one more seat adds its cards to the sum.           *)
(***************************************************************************)
LEMMA CardsOfNone == SumCards(<<>>) = 0
<1>1. DOMAIN CardsOf(<<>>) = {}
  BY DEF CardsOf
<1>. QED
  BY <1>1, SumOfNone DEF SumCards, SumFunction

LEMMA CardsOfMore ==
  ASSUME NEW ps \in Seq(Seat), NEW p \in Seat
  PROVE  SumCards(Append(ps, p)) = SumCards(ps) + p.cards
<1> DEFINE g == CardsOf(ps)
           h == CardsOf(Append(ps, p))
           S == DOMAIN ps
           n == Len(ps) + 1
<1>1. /\ DOMAIN Append(ps, p) = S \cup {n} /\ n \notin S
      /\ Append(ps, p)[n] = p /\ \A i \in S : Append(ps, p)[i] = ps[i]
      /\ Append(ps, p) \in Seq(Seat)
  OBVIOUS
<1>2. /\ DOMAIN g = S /\ DOMAIN h = S \cup {n}
      /\ h[n] = p.cards /\ \A i \in S : h[i] = g[i]
  BY <1>1 DEF CardsOf
<1>3. /\ IsFiniteSet(S) /\ SumFunctionOnSet(g, S) \in Int
      /\ \A i \in S \cup {n} : h[i] \in Int
  <2>1. PICK qs \in Seq(Seat) : qs = Append(ps, p)
    BY <1>1
  <2>2. S \in SUBSET (DOMAIN ps)
    OBVIOUS
  <2>3. \A i \in DOMAIN qs : CardsOf(qs)[i] \in Nat
    BY CardsOfSeats
  <2>. QED
    BY <1>1, <2>1, <2>2, <2>3, CardsOfSeats
<1> HIDE DEF g, h, S, n
<1>4. SumFunctionOnSet(h, S \cup {n}) = h[n] + SumFunctionOnSet(h, S)
  BY <1>1, <1>3, SumOneMore
<1>5. SumFunctionOnSet(h, S) = SumFunctionOnSet(g, S)
  BY <1>2, <1>3, SumSame
<1>6. p.cards \in Int
  BY DEF Seat
<1>7. SumFunctionOnSet(h, S \cup {n}) = SumFunctionOnSet(g, S) + p.cards
  BY <1>2, <1>3, <1>4, <1>5, <1>6
<1>. QED
  BY <1>2, <1>7 DEF SumCards, SumFunction, g, h

LEMMA InitCardsAddUp == Init => CardsAddUp
BY CardsOfNone DEF Init, EmptyLobby, CardsAddUp

LEMMA NextCardsAddUp ==
  ASSUME TypeOK, CardsAddUp, [Next]_vars
  PROVE  CardsAddUp'
<1> SUFFICES ASSUME NEW q \in Rooms
             PROVE  lobby'[q].totalCards = SumCards(lobby'[q].players)
  BY DEF CardsAddUp, SumCards, CardsOf
<1>1. lobby[q].players \in Seq(Seat) /\ lobby[q].totalCards = SumCards(lobby[q].players)
  BY LobbyParts DEF CardsAddUp
<1>2. ASSUME NEW p \in Seat, OneMore(q, p)
      PROVE  lobby'[q].totalCards = SumCards(lobby'[q].players)
  BY <1>1, <1>2, CardsOfMore DEF OneMore
<1>3. CASE SitsDown(q)
  <2>1. \A j \in Joins : JoinSeat(j) \in Seat
    BY LobbyParts DEF JoinSeat, Seat
  <2>. QED
    BY <1>2, <1>3, <2>1 DEF SitsDown
<1>. QED
  BY <1>1, <1>3, CardsOfNone, NextPlayers DEF PlayersStep

\* The cached number of cards, which every capacity and quorum test reads, is
\* the sum of the cards of the players, after any interleaving.
THEOREM CardsAddUpCorrect == Spec => []CardsAddUp
<1>1. TypeOK /\ CardsAddUp /\ [Next]_vars => (TypeOK /\ CardsAddUp)'
  BY NextTypeOK, NextCardsAddUp
<1>. QED
  BY <1>1, InitTypeOK, InitCardsAddUp, PTL DEF Spec

(***************************************************************************)
(* PoolsCovered. What a start read is at most what its room holds, because *)
(* the room only grows until the start ends. When the start commits, every *)
(* player has a row, so the cards dealt are the cards of the room.         *)
(***************************************************************************)

\* g is a start of a room that holds n cards.
Covers(g, n) ==
  /\ g.dealt = SumCards(g.seats) /\ g.dealt <= CardsPerMatch
  /\ g.pc \in {"create", "assign"} => g.entry <= n
  /\ g.pc = "assign" => g.entry <= g.cards /\ g.cards <= n
  /\ g.pc \in {"calling", "announce", "done", "aborted"}
       => g.entry <= g.cards /\ g.cards <= g.dealt

StartsCovered ==
  \A s \in DOMAIN starts : Covers(starts[s], lobby[starts[s].room].totalCards)

CoverInv == ControlInv /\ CardsAddUp /\ StartsCovered

\* The room may grow, and is of no interest once the start is committed.
LEMMA CoversMore ==
  ASSUME NEW g \in Start, NEW n \in Nat, NEW m \in Nat, Covers(g, n),
         n <= m \/ g.pc \notin {"create", "assign"}
  PROVE  Covers(g, m)
<1>1. g.entry \in Nat /\ g.cards \in Nat
  BY DEF Start
<1>. QED
  BY <1>1 DEF Covers

LEMMA CoversNew ==
  ASSUME NEW r, NEW n
  PROVE  /\ Covers(NewStart(r), n)
         /\ Covers([NewStart(r) EXCEPT !.pc = "failed"], n)
BY CardsOfNone, Limits DEF NewStart, Covers

LEMMA InitCoverInv == Init => CoverInv
BY InitControlInv, InitCardsAddUp DEF Init, CoverInv, StartsCovered

LEMMA TameCoverInv ==
  ASSUME CoverInv, ControlInv', CardsAddUp', Tame
  PROVE  CoverInv'
<1>1. /\ TypeOK /\ TypeOK' /\ starts \in Seq(Start)
      /\ \A q \in Rooms : lobby[q].totalCards \in Nat /\ lobby'[q].totalCards \in Nat
  BY LobbyParts DEF CoverInv, ControlInv, TypeOK, LobbyState
<1>2. \A q \in Rooms : lobby[q].totalCards <= lobby'[q].totalCards
  <2>1. ASSUME NEW r \in Rooms, RoomGrows(r)
        PROVE  <1>2
    <3>1. PICK m \in LobbyState, t \in Timers : Grows(r, m, t)
      BY <2>1 DEF RoomGrows
    <3>. QED
      BY <1>1, <3>1 DEF Grows, Extends, TypeOK
  <2>. QED
    BY <1>1, <2>1 DEF Tame
<1>3. \A u \in DOMAIN starts : Covers(starts[u], lobby'[starts[u].room].totalCards)
  BY <1>1, <1>2, CoversMore, LobbyParts DEF CoverInv, StartsCovered
<1>4. \/ starts' = starts
      \/ \E r \in Rooms : starts' = Append(starts, NewStart(r))
  BY DEF Tame, RoomGrows, Grows
<1>5. \A u \in DOMAIN starts' : \/ u \in DOMAIN starts /\ starts'[u] = starts[u]
                                \/ \E r \in Rooms : starts'[u] = NewStart(r)
  BY <1>1, <1>4
<1>6. StartsCovered'
  BY <1>3, <1>5, CoversNew DEF StartsCovered, Covers, SumCards, CardsOf
<1>. QED
  BY <1>6 DEF CoverInv

\* The record of a start that takes a step is covered by its room, as it was.
LEMMA OwnCovers ==
  ASSUME CoverInv, NEW s \in DOMAIN starts, StartStep(s),
         NEW n \in Nat, n = lobby[starts[s].room].totalCards
  PROVE  \A m : m = n \/ starts'[s].pc \in {"done", "failed", "aborted"}
                  => Covers(starts'[s], m)
<1> DEFINE g == starts[s]
           h == starts'[s]
<1>1. /\ TypeOK /\ g \in Start /\ starts \in Seq(Start) /\ g.seats \in Seq(Seat)
      /\ g.entry \in Nat /\ g.cards \in Nat /\ g.dealt \in Nat
      /\ Players(s) \in Seq(Seat) /\ Covers(g, n)
  BY LobbyParts DEF CoverInv, ControlInv, StartsCovered, TypeOK, Start, Players
<1>2. CASE ReadRoom(s)
  <2>1. h = [g EXCEPT !.pc = "create", !.entry = n]
    BY <1>1, <1>2 DEF ReadRoom
  <2>2. /\ h.pc = "create" /\ h.entry = n
        /\ h.dealt = g.dealt /\ h.seats = g.seats
    BY <1>1, <2>1 DEF Start
  <2>. QED
    BY <1>1, <2>2 DEF Covers
<1>3. CASE CreateMatch(s)
  <2>1. h = [g EXCEPT !.pc = "assign", !.cards = n] /\ g.pc = "create"
    BY <1>1, <1>3 DEF CreateMatch
  <2>2. /\ h.pc = "assign" /\ h.entry = g.entry /\ h.cards = n
        /\ h.dealt = g.dealt /\ h.seats = g.seats
    BY <1>1, <2>1 DEF Start
  <2>. QED
    BY <1>1, <2>1, <2>2 DEF Covers
<1>4. CASE Assign(s)
  <2> DEFINE p == NextSeat(s)
  <2>1. /\ h = [g EXCEPT !.seats = Append(@, p), !.dealt = @ + p.cards]
        /\ g.pc = "assign" /\ g.dealt + p.cards <= CardsPerMatch /\ p \in Seat
    BY <1>1, <1>4, NextSeatType DEF Assign, Dealable
  <2>2. /\ h.pc = "assign" /\ h.entry = g.entry /\ h.cards = g.cards
        /\ h.dealt = g.dealt + p.cards /\ h.seats = Append(g.seats, p)
    BY <1>1, <2>1 DEF Start
  <2>3. h.dealt = SumCards(h.seats)
    BY <1>1, <2>1, <2>2, CardsOfMore DEF Covers
  <2>. QED
    BY <1>1, <2>1, <2>2, <2>3 DEF Covers
<1>5. CASE Commit(s)
  <2>1. h = [g EXCEPT !.pc = "calling"] /\ g.pc = "assign" /\ AllDealt(s)
    BY <1>1, <1>5 DEF Commit
  <2>2. /\ h.pc = "calling" /\ h.entry = g.entry /\ h.cards = g.cards
        /\ h.dealt = g.dealt /\ h.seats = g.seats
    BY <1>1, <2>1 DEF Start
  <2>3. g.seats = Players(s)
    <3>1. /\ Len(g.seats) = Len(Players(s))
          /\ \A i \in 1..Len(g.seats) : g.seats[i] = Players(s)[i]
      BY <1>1, <2>1 DEF AllDealt, CoverInv, ControlInv, SeatsArePrefix, Active
    <3>. QED
      BY <1>1, <3>1
  <2>4. g.dealt = n
    BY <1>1, <2>3, LobbyParts DEF Covers, Players, CoverInv, CardsAddUp
  <2>. QED
    BY <1>1, <2>1, <2>2, <2>4 DEF Covers
<1>6. CASE StartFails(s)
  <2>1. h = [NewStart(g.room) EXCEPT !.pc = "failed"]
    BY <1>1, <1>6 DEF StartFails
  <2>. QED
    BY <2>1, CoversNew
<1>7. CASE BeginCalling(s) \/ Announce(s) \/ StartAborts(s)
  <2>1. PICK label \in {"announce", "done", "aborted"} : h = [g EXCEPT !.pc = label]
    BY <1>1, <1>7 DEF BeginCalling, Announce, StartAborts
  <2>2. g.pc \in {"calling", "announce"}
    BY <1>7 DEF BeginCalling, Announce, StartAborts
  <2>3. /\ h.pc \in {"announce", "done", "aborted"}
        /\ h.entry = g.entry /\ h.cards = g.cards
        /\ h.dealt = g.dealt /\ h.seats = g.seats
    BY <1>1, <2>1 DEF Start
  <2>. QED
    BY <1>1, <2>2, <2>3 DEF Covers
<1>. QED
  BY <1>2, <1>3, <1>4, <1>5, <1>6, <1>7 DEF StartStep

LEMMA StartCoverInv ==
  ASSUME CoverInv, ControlInv', CardsAddUp', NEW s \in DOMAIN starts, StartStep(s)
  PROVE  CoverInv'
<1> DEFINE r == starts[s].room
<1>1. /\ TypeOK /\ TypeOK' /\ r \in Rooms
      /\ \A q \in Rooms : lobby[q].totalCards \in Nat /\ lobby'[q].totalCards \in Nat
  BY LobbyParts DEF CoverInv, ControlInv, TypeOK, LobbyState
<1>2. /\ DOMAIN starts' = DOMAIN starts
      /\ \A u \in DOMAIN starts \ {s} : starts'[u] = starts[u]
      /\ Active(s) /\ starts'[s].room = r
      /\ starts'[s].pc = "done" => Announce(s)
  BY <1>1, StartRows
<1>3. /\ \A q \in Rooms \ {r} : lobby'[q].totalCards = lobby[q].totalCards
      /\ lobby'[r].totalCards = lobby[r].totalCards \/ Announce(s)
  <2>1. \/ lobby' = lobby \/ Announce(s)
        \/ lobby' = [lobby EXCEPT ![r] = [lobby[r] EXCEPT !.status = "WAITING"]]
    BY DEF StartStep, ReadRoom, CreateMatch, Assign, Commit, StartFails, BeginCalling,
       StartAborts, Reopened
  <2>2. [lobby[r] EXCEPT !.status = "WAITING"].totalCards = lobby[r].totalCards
    BY <1>1, LobbyParts DEF LobbyState
  <2>. QED
    BY <1>1, <2>1, <2>2 DEF Announce, TypeOK
<1>4. Announce(s) => starts'[s].pc = "done"
  BY <1>1, LobbyParts DEF Announce, TypeOK, Start
<1>5. Covers(starts'[s], lobby'[r].totalCards)
  BY <1>1, <1>3, <1>4, OwnCovers
<1>6. ASSUME NEW u \in DOMAIN starts, u # s
      PROVE  Covers(starts[u], lobby'[starts[u].room].totalCards)
  <2>1. starts[u] \in Start /\ starts[u].room \in Rooms
    BY <1>1, LobbyParts
  <2>2. Covers(starts[u], lobby[starts[u].room].totalCards)
    BY DEF CoverInv, StartsCovered
  <2>3. starts[u].room = r => starts[u].pc \notin {"create", "assign"}
    BY <1>2, <1>6 DEF CoverInv, ControlInv, OneStartPerRoom, Active
  <2>. QED
    BY <1>1, <1>3, <2>1, <2>2, <2>3, CoversMore
<1>7. StartsCovered'
  BY <1>2, <1>5, <1>6 DEF StartsCovered, Covers, SumCards, CardsOf
<1>. QED
  BY <1>7 DEF CoverInv

LEMMA NextCoverInv == CoverInv /\ [Next]_vars => CoverInv'
<1> SUFFICES ASSUME CoverInv, [Next]_vars
             PROVE  CoverInv'
  OBVIOUS
<1>1. ControlInv /\ ControlInv' /\ CardsAddUp'
  BY NextControlInv, NextCardsAddUp DEF CoverInv, ControlInv
<1>2. ASSUME NEW u \in Users, NEW a \in Prizes, Settle(u, a)
      PROVE  Tame
  BY <1>2 DEF Settle, Tame
<1>3. CASE UNCHANGED vars
  BY <1>1, <1>3, TameCoverInv DEF vars, Tame
<1>. QED
  BY <1>1, <1>2, <1>3, JoinTame, TimerTame, FillTame, TameCoverInv, StartCoverInv
     DEF Next, ServerStep

\* The pools and Match.totalCards, read before the cards are dealt, are covered
\* by the cards dealt, and these by the pool of cards, whoever joins meanwhile.
THEOREM PoolsCoveredCorrect == Spec => []PoolsCovered
<1>1. CoverInv => PoolsCovered
  BY DEF CoverInv, StartsCovered, Covers, PoolsCovered, Committed
<1>. QED
  BY <1>1, InitCoverInv, NextCoverInv, PTL DEF Spec

(***************************************************************************)
(* What the comments promise and overlapping messages break: a lobby never *)
(* holds more cards than a match can deal, and inviter and invitee are     *)
(* never in one room. Both are checked on the players of the moment and    *)
(* used awaits later. They hold as long as the room has one message        *)
(* between its checks and its seat, and no bot joins meanwhile.            *)
(***************************************************************************)
OneJoinAtATime ==
  \A j, k \in Joins :
    pc[j] \in AdmittedPC /\ pc[k] \in AdmittedPC /\ RoomOf(j) = RoomOf(k) => j = k

NoBotMeanwhile ==
  \A j \in Joins, f \in DOMAIN fills :
    pc[j] \in AdmittedPC /\ fills[f].pc = "bot" => fills[f].room # RoomOf(j)

\* Whoever was admitted still finds room for the cards paid for.
RoomLeft ==
  \A j \in Joins :
    pc[j] \in AdmittedPC =>
      lobby[RoomOf(j)].totalCards + request[j].cards <= MaxCardsPerMatch

CapacityInv == TypeOK /\ WithinCapacity /\ RoomLeft

LEMMA NextCapacityInv ==
  CapacityInv /\ OneJoinAtATime /\ NoBotMeanwhile /\ [Next]_vars => CapacityInv'
<1> SUFFICES ASSUME CapacityInv, OneJoinAtATime, NoBotMeanwhile, [Next]_vars
             PROVE  CapacityInv'
  OBVIOUS
<1>1. /\ TypeOK /\ TypeOK' /\ request' = request
      /\ \A q \in Rooms : PlayersStep(q)
  BY NextTypeOK, PcSteps, NextPlayers DEF CapacityInv
<1>2. /\ \A q \in Rooms : lobby[q].totalCards \in Nat /\ lobby'[q].totalCards \in Nat
      /\ \A j \in Joins : RoomOf(j) \in Rooms /\ request[j].cards \in Nat
      /\ MaxCardsPerMatch \in Nat
  <2>1. \A q \in Rooms : lobby'[q].totalCards \in Nat
    BY <1>1 DEF TypeOK, LobbyState
  <2>. QED
    BY <1>1, <2>1, LobbyParts, Limits
<1>3. ASSUME NEW j \in Joins, TakeSeat(j)
      PROVE  /\ pc[j] \in AdmittedPC /\ pc'[j] \notin AdmittedPC
             /\ lobby[RoomOf(j)].totalCards + JoinSeat(j).cards <= MaxCardsPerMatch
  BY <1>1, <1>3, AdmittedSteps DEF CapacityInv, RoomLeft, AdmittedPC, JoinSeat
<1>4. ASSUME NEW q \in Rooms PROVE lobby'[q].totalCards <= MaxCardsPerMatch
  BY <1>1, <1>2, <1>3
     DEF PlayersStep, SitsDown, BotFits, OneMore, CapacityInv, WithinCapacity
<1>5. ASSUME NEW k \in Joins, pc'[k] \in AdmittedPC
      PROVE  lobby'[RoomOf(k)].totalCards + request[k].cards <= MaxCardsPerMatch
  <2> DEFINE q == RoomOf(k)
  <2>1. lobby[q].totalCards + request[k].cards <= MaxCardsPerMatch
    BY <1>1, <1>5, AdmittedSteps DEF CapacityInv, RoomLeft, Admissible
  <2>2. CASE pc[k] \in AdmittedPC
    <3>1. ~ SitsDown(q)
      BY <1>3, <1>5, <2>2 DEF SitsDown, BotFits, OneJoinAtATime, NoBotMeanwhile
    <3>. QED
      BY <1>1, <1>2, <2>1, <3>1 DEF PlayersStep
  <2>3. CASE pc[k] \notin AdmittedPC
    BY <1>1, <1>5, <2>1, <2>3, AdmittedSteps
  <2>. QED
    BY <2>2, <2>3
<1>. QED
  BY <1>1, <1>4, <1>5 DEF CapacityInv, WithinCapacity, RoomLeft, RoomOf

\* "so we never exceed the 30-card match capacity": so it is in every run in
\* which no message of a room overlaps another one's, or the arrival of a bot,
\* between the check of the capacity and the seat.
THEOREM WithinCapacityAlone ==
  Spec /\ [](OneJoinAtATime /\ NoBotMeanwhile) => []WithinCapacity
<1>1. Init => CapacityInv
  <2> SUFFICES ASSUME Init PROVE WithinCapacity /\ RoomLeft
    BY InitTypeOK DEF CapacityInv
  <2>1. \A r \in Rooms : lobby[r].totalCards = 0
    BY DEF Init, EmptyLobby
  <2>2. \A j \in Joins : pc[j] \notin AdmittedPC
    BY DEF Init, AdmittedPC
  <2>. QED
    BY <2>1, <2>2, Limits DEF WithinCapacity, RoomLeft
<1>2. CapacityInv => WithinCapacity
  BY DEF CapacityInv
<1>. QED
  BY <1>1, <1>2, NextCapacityInv, PTL DEF Spec

\* A start that finds no card for its next player, or a row of his already,
\* finds a lobby with more cards than a match can deal, or with a user in two
\* of its seats.
StartsFindCards ==
  \A s \in DOMAIN starts :
    starts[s].pc = "assign" /\ ~ AllDealt(s) =>
      \/ Dealable(s, NextSeat(s))
      \/ lobby[starts[s].room].totalCards > CardsPerMatch
      \/ \E i, k \in DOMAIN Players(s) :
           /\ i # k /\ IsReal(Players(s)[i]) /\ IsReal(Players(s)[k])
           /\ UserOf(Players(s)[i]) = UserOf(Players(s)[k])

\* The next seat of a list still fits into the cards of the whole list.
LEMMA NextSeatFits ==
  ASSUME NEW ps \in Seq(Seat), NEW qs \in Seq(Seat), Len(qs) < Len(ps),
         \A i \in DOMAIN qs : qs[i] = ps[i]
  PROVE  SumCards(qs) + ps[Len(qs) + 1].cards <= SumCards(ps)
<1> DEFINE g == CardsOf(ps)
           h == CardsOf(qs)
           S == DOMAIN ps
           T == DOMAIN qs
           n == Len(qs) + 1
<1>1. /\ T \in SUBSET S /\ n \in S /\ n \notin T /\ T \cup {n} \in SUBSET S
      /\ DOMAIN g = S /\ DOMAIN h = T
      /\ g[n] = ps[n].cards /\ \A i \in T : h[i] = g[i]
  BY DEF CardsOf
<1>2. /\ IsFiniteSet(S) /\ IsFiniteSet(T) /\ \A i \in S : g[i] \in Nat
      /\ SumFunctionOnSet(g, T) \in Int
  <2>1. S \in SUBSET S /\ T \in SUBSET S
    BY <1>1
  <2>. QED
    BY <2>1, CardsOfSeats
<1> HIDE DEF g, h, S, T, n
<1>3. SumFunctionOnSet(g, T \cup {n}) = g[n] + SumFunctionOnSet(g, T)
  BY <1>1, <1>2, SumOneMore
<1>4. SumFunctionOnSet(h, T) = SumFunctionOnSet(g, T)
  BY <1>1, <1>2, SumSame
<1>5. SumFunctionOnSet(g, T \cup {n}) <= SumFunctionOnSet(g, S)
  BY <1>1, <1>2, SumOfPart
<1>6. g[n] \in Nat
  BY <1>1, <1>2
<1>7. SumFunctionOnSet(h, T) + g[n] <= SumFunctionOnSet(g, S)
  BY <1>2, <1>3, <1>4, <1>5, <1>6
<1>. QED
  BY <1>1, <1>7 DEF SumCards, SumFunction, g, h, n

LEMMA CardsFound ==
  CoverInv /\ SeatsArePrefix => StartsFindCards
<1> SUFFICES ASSUME CoverInv, SeatsArePrefix,
                    NEW s \in DOMAIN starts, starts[s].pc = "assign", ~ AllDealt(s),
                    lobby[starts[s].room].totalCards <= CardsPerMatch,
                    \A i, k \in DOMAIN Players(s) :
                      /\ IsReal(Players(s)[i]) /\ IsReal(Players(s)[k])
                      /\ UserOf(Players(s)[i]) = UserOf(Players(s)[k])
                      => i = k
             PROVE  Dealable(s, NextSeat(s))
  <2>1. CoverInv => \A s \in DOMAIN starts :
          lobby[starts[s].room].totalCards \in Nat /\ CardsPerMatch \in Nat
    <3>1. CoverInv => TypeOK
      BY DEF CoverInv, ControlInv
    <3>. QED
      BY <3>1, LobbyParts, Limits
  <2>. QED
    BY <2>1 DEF StartsFindCards
<1> DEFINE r == starts[s].room
           ps == lobby[r].players
           qs == starts[s].seats
           n == Len(qs) + 1
<1>1. /\ r \in Rooms /\ ps \in Seq(Seat) /\ qs \in Seq(Seat)
      /\ lobby[r].totalCards \in Nat /\ starts[s].dealt \in Nat
  BY LobbyParts DEF CoverInv, ControlInv, Start
<1>2. /\ Len(qs) < Len(ps) /\ \A i \in DOMAIN qs : qs[i] = ps[i]
      /\ NextSeat(s) = ps[n] /\ n \in DOMAIN ps /\ \A i \in DOMAIN qs : i \in DOMAIN ps /\ i # n
  BY <1>1 DEF SeatsArePrefix, Active, AllDealt, Players, NextSeat
<1>3. /\ starts[s].dealt = SumCards(qs) /\ lobby[r].totalCards = SumCards(ps)
      /\ lobby[r].totalCards <= CardsPerMatch
  BY <1>1 DEF CoverInv, StartsCovered, Covers, CardsAddUp
<1>4. ps[n].cards \in Nat
  <2>1. ps[n] \in Seat
    BY <1>1, <1>2
  <2>. QED
    BY <2>1 DEF Seat
<1>5. \A i, k \in DOMAIN ps :
        IsReal(ps[i]) /\ IsReal(ps[k]) /\ UserOf(ps[i]) = UserOf(ps[k]) => i = k
  BY DEF Players
<1> HIDE DEF r, ps, qs, n
<1>6. SumCards(qs) + ps[n].cards <= SumCards(ps)
  BY <1>1, <1>2, NextSeatFits DEF n
<1>7. starts[s].dealt + ps[n].cards <= CardsPerMatch
  BY <1>1, <1>3, <1>4, <1>6, Limits
<1>8. IsReal(ps[n]) => ~ HasUser(qs, UserOf(ps[n]))
  BY <1>2, <1>5 DEF HasUser
<1>. QED
  BY <1>2, <1>7, <1>8 DEF Dealable, qs

\* Whatever joins, bots and starts overlap, a start is refused by its own data
\* only in a lobby that overlapping messages filled beyond the cards of a match
\* or in which they seated one user twice. Else only the database can fail it.
THEOREM StartsFindCardsCorrect == Spec => []StartsFindCards
<1>1. Spec => []CoverInv
  BY InitCoverInv, NextCoverInv, PTL DEF Spec
<1>. QED
  BY <1>1, CardsFound, PrefixCorrect, PTL

\* One of the two invited the other.
Related(u, v) == v = Inviter[u] \/ Inviter[v] = u

\* Whoever passed the referral check has no relation in the room.
Unrelated ==
  \A j \in Joins :
    pc[j] \in {"charge", "seat"} =>
      ~ ReferralConflict(request[j].user, lobby[RoomOf(j)].players)

StrangersInv == TypeOK /\ NoReferralPair /\ Unrelated

Strangers(ps) ==
  \A i, k \in DOMAIN ps :
    IsReal(ps[i]) /\ IsReal(ps[k]) => ~ Related(UserOf(ps[i]), UserOf(ps[k]))

LEMMA ConflictIsRelation ==
  ASSUME NEW ps, NEW u
  PROVE  ReferralConflict(u, ps)
           <=> \E i \in DOMAIN ps : IsReal(ps[i]) /\ Related(u, UserOf(ps[i]))
BY DEF ReferralConflict, Related

LEMMA AppendStrangers ==
  ASSUME NEW ps \in Seq(Seat), Strangers(ps), NEW p \in Seat,
         IsReal(p) => /\ ~ ReferralConflict(UserOf(p), ps)
                      /\ ~ Related(UserOf(p), UserOf(p))
  PROVE  Strangers(Append(ps, p))
<1>1. \A i \in DOMAIN Append(ps, p) :
        \/ i \in DOMAIN ps /\ Append(ps, p)[i] = ps[i]
        \/ Append(ps, p)[i] = p
  OBVIOUS
<1>2. \A u, v : Related(u, v) <=> Related(v, u)
  BY DEF Related
<1>3. IsReal(p) => \A i \in DOMAIN ps : IsReal(ps[i]) => ~ Related(UserOf(p), UserOf(ps[i]))
  BY ConflictIsRelation
<1>. QED
  BY <1>1, <1>2, <1>3 DEF Strangers

LEMMA NextStrangersInv ==
  ASSUME \A u \in Users : Inviter[u] # u
  PROVE  StrangersInv /\ OneJoinAtATime /\ [Next]_vars => StrangersInv'
<1> SUFFICES ASSUME StrangersInv, OneJoinAtATime, [Next]_vars
             PROVE  StrangersInv'
  OBVIOUS
<1>1. /\ TypeOK /\ TypeOK' /\ request' = request
      /\ \A q \in Rooms : PlayersStep(q)
      /\ \A k \in Joins : pc'[k] # pc[k] => JoinStep(k) \/ Call(k)
  BY NextTypeOK, PcSteps, NextPlayers DEF StrangersInv
<1>2. ASSUME NEW j \in Joins, TakeSeat(j)
      PROVE  /\ JoinSeat(j) \in Seat /\ UserOf(JoinSeat(j)) = request[j].user
             /\ ~ ReferralConflict(request[j].user, lobby[RoomOf(j)].players)
             /\ ~ Related(request[j].user, request[j].user)
             /\ pc[j] \in AdmittedPC /\ pc'[j] \notin AdmittedPC
  <2>1. pc[j] = "seat" /\ pc'[j] \notin AdmittedPC
    BY <1>1, <1>2, AdmittedSteps DEF AdmittedPC
  <2>2. JoinSeat(j) \in Seat /\ request[j].user \in Users
    BY <1>1, LobbyParts DEF JoinSeat, Seat
  <2>. QED
    BY <2>1, <2>2 DEF JoinSeat, UserOf, StrangersInv, Unrelated, AdmittedPC, Related
<1>3. ASSUME NEW q \in Rooms PROVE Strangers(lobby'[q].players)
  <2>1. lobby[q].players \in Seq(Seat) /\ Strangers(lobby[q].players)
    <3>1. \A i \in DOMAIN lobby[q].players : IsReal(lobby[q].players[i]) =>
            ~ ReferralConflict(UserOf(lobby[q].players[i]), lobby[q].players)
      BY DEF StrangersInv, NoReferralPair
    <3>. QED
      BY <1>1, <3>1, LobbyParts, ConflictIsRelation DEF Strangers
  <2>2. Strangers(<<>>)
    BY DEF Strangers
  <2>. QED
    BY <1>1, <1>2, <2>1, <2>2, AppendStrangers DEF PlayersStep, SitsDown, OneMore
<1>4. NoReferralPair'
  BY <1>1, <1>3 DEF NoReferralPair, Strangers, ReferralConflict, Related, UserOf, IsReal
<1>5. ASSUME NEW k \in Joins, pc'[k] \in {"charge", "seat"}
      PROVE  ~ ReferralConflict(request[k].user, lobby'[RoomOf(k)].players)
  <2> DEFINE q == RoomOf(k)
             u == request[k].user
  <2>1. CASE pc[k] \in {"charge", "seat"}
    <3>1. ~ ReferralConflict(u, lobby[q].players)
      BY <2>1 DEF StrangersInv, Unrelated
    <3>2. ~ \E j \in Joins : TakeSeat(j) /\ RoomOf(j) = q
      BY <1>2, <1>5, <2>1 DEF OneJoinAtATime, AdmittedPC
    <3>3. q \in Rooms /\ lobby[q].players \in Seq(Seat)
      BY <1>1, LobbyParts
    <3>4. ASSUME NEW p \in Seat, ~ IsReal(p), lobby'[q].players = Append(lobby[q].players, p)
          PROVE  ~ ReferralConflict(u, lobby'[q].players)
      <4>1. \A i \in DOMAIN Append(lobby[q].players, p) :
              \/ i \in DOMAIN lobby[q].players
                 /\ Append(lobby[q].players, p)[i] = lobby[q].players[i]
              \/ Append(lobby[q].players, p)[i] = p
        BY <3>3
      <4>. QED
        BY <3>1, <3>4, <4>1 DEF ReferralConflict
    <3>5. ~ ReferralConflict(u, <<>>)
      BY DEF ReferralConflict
    <3>. QED
      BY <1>1, <3>1, <3>2, <3>3, <3>4, <3>5 DEF PlayersStep, SitsDown, OneMore
  <2>2. CASE pc[k] \notin {"charge", "seat"}
    <3>1. JoinStep(k) \/ Call(k)
      BY <1>1, <1>5, <2>2
    <3>2. /\ lobby' = lobby
          /\ ~ ReferralConflict(u, lobby[q].players)
      BY <1>1, <1>5, <2>2, <3>1
         DEF JoinStep, Call, Admit, ReadUser, CheckReferral, Charge, ChargeFails,
             TakeSeat, Goto, TypeOK
    <3>. QED
      BY <3>2
  <2>. QED
    BY <2>1, <2>2
<1>6. Unrelated'
  BY <1>1, <1>5 DEF Unrelated, RoomOf, ReferralConflict, UserOf, IsReal
<1>. QED
  BY <1>1, <1>4, <1>6 DEF StrangersInv

\* "The inviter and invitee cannot share a room or a match": nobody invites
\* himself, so it is in every run in which no two messages of a room overlap
\* between the check of the referrals and the seat.
THEOREM NoReferralPairAlone ==
  ASSUME \A u \in Users : Inviter[u] # u
  PROVE  Spec /\ []OneJoinAtATime => []NoReferralPair
<1>1. Init => StrangersInv
  <2> SUFFICES ASSUME Init PROVE NoReferralPair /\ Unrelated
    BY InitTypeOK DEF StrangersInv
  <2>1. \A r \in Rooms : lobby[r].players = <<>>
    BY DEF Init, EmptyLobby
  <2>. QED
    BY <2>1 DEF Init, NoReferralPair, Unrelated
<1>2. StrangersInv /\ OneJoinAtATime /\ [Next]_vars => StrangersInv'
  BY NextStrangersInv
<1>3. StrangersInv => NoReferralPair
  BY DEF StrangersInv
<1>. QED
  BY <1>1, <1>2, <1>3, PTL DEF Spec
=============================================================================
