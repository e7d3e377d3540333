-------------------------- MODULE LobbyTimeProofs --------------------------
(***************************************************************************)
(* Who waits in a lobby and for how long, for every value of the           *)
(* constants: waiting players have a timer, the clock only restricts what  *)
(* Lobby allows, and the waiting time shown is never too long.             *)
(***************************************************************************)
EXTENDS LobbyClock, LobbyProofs

(***************************************************************************)
(* WaitersAreTimed. A room is without timers only before its first player, *)
(* and the start that is under way is the last one of its room, so that    *)
(* one which fails is not followed by a reset.                             *)
(***************************************************************************)
\* An empty lobby has no entry in lobbyTimers that would keep scheduleWaiting
\* from arming the windows.
Unscheduled == \A r \in Rooms : lobby[r].players = <<>> => ~ timers[r].scheduled

LastStart ==
  \A s, t \in DOMAIN starts :
    Active(s) /\ starts[s].room = starts[t].room => t <= s

WaitInv == ControlInv /\ WaitersAreTimed /\ Unscheduled /\ LastStart

Waits(l) == l.status = "WAITING" /\ l.players # <<>> /\ IsReal(l.players[1])

Timed(l, t) == "second" \in t.armed \/ l.second

\* What a join, timer or fill step does to its room: waiting players who have
\* no timer afterwards had none before.
RoomTimed(r) ==
  /\ \A q \in Rooms \ {r} : lobby'[q] = lobby[q] /\ timers'[q] = timers[q]
  /\ lobby'[r].players = <<>> => ~ timers'[r].scheduled
  /\ Waits(lobby'[r]) /\ ~ Timed(lobby'[r], timers'[r])
       => Waits(lobby[r]) /\ ~ Timed(lobby[r], timers[r])

LEMMA InitWaitInv == Init => WaitInv
<1> SUFFICES ASSUME Init
             PROVE  WaitInv
  OBVIOUS
<1>1. WaitersAreTimed /\ Unscheduled /\ LastStart
  BY DEF Init, WaitersAreTimed, Unscheduled, LastStart, EmptyLobby, NoTimers
<1>. QED
  BY <1>1, InitControlInv DEF WaitInv

\* finalizeLobby closes the lobby of its room, and cancelWaiting precedes it.
LEMMA CancelTimed ==
  ASSUME TypeOK, NEW r \in Rooms, NEW l \in LobbyState, NEW t \in Timers,
         CancelAndFinalize(r, l, t)
  PROVE  RoomTimed(r)
<1>1. /\ lobby' = [lobby EXCEPT ![r] = IF l.status = "WAITING"
                                       THEN [l EXCEPT !.status = "STARTING"] ELSE l]
      /\ timers' = [timers EXCEPT ![r] = Cancelled(t)]
  BY DEF CancelAndFinalize, FinalizeLobby
<1>2. lobby'[r].status # "WAITING" /\ ~ timers'[r].scheduled
  BY <1>1 DEF TypeOK, LobbyState, Cancelled, Timers
<1>. QED
  BY <1>1, <1>2 DEF RoomTimed, Waits, TypeOK

\* A room whose timers and players stay, whatever flags are set.
LEMMA FlagsTimed ==
  ASSUME WaitInv, NEW r \in Rooms, NEW m, NEW t,
         lobby' = [lobby EXCEPT ![r] = m], timers' = [timers EXCEPT ![r] = t],
         m.players = lobby[r].players, m.status = lobby[r].status,
         t.scheduled = timers[r].scheduled,
         m.status = "WAITING" /\ Timed(lobby[r], timers[r]) => Timed(m, t)
  PROVE  RoomTimed(r)
<1>1. /\ lobby'[r] = m /\ timers'[r] = t
      /\ \A q \in Rooms \ {r} : lobby'[q] = lobby[q] /\ timers'[q] = timers[q]
  BY DEF WaitInv, ControlInv, TypeOK
<1>2. m.players = <<>> => ~ t.scheduled
  BY DEF WaitInv, Unscheduled
<1>3. Waits(m) => Waits(lobby[r]) /\ m.status = "WAITING"
  BY DEF Waits
<1>. QED
  BY <1>1, <1>2, <1>3 DEF RoomTimed

\* A seat added behind others leaves the first player and the timers alone.
LEMMA SeatedTimed ==
  ASSUME WaitInv, NEW r \in Rooms, NEW p \in Seat, lobby[r].players # <<>>,
         lobby' = [lobby EXCEPT ![r] = Seated(lobby[r], p)],
         timers' = [timers EXCEPT ![r] = timers[r]]
  PROVE  RoomTimed(r)
<1>1. lobby[r] \in LobbyState /\ lobby[r].players \in Seq(Seat)
  BY LobbyFacts DEF WaitInv
<1> DEFINE m == Seated(lobby[r], p)
<1>2. /\ m.players = Append(lobby[r].players, p) /\ m.status = lobby[r].status
      /\ m.second = lobby[r].second
  BY <1>1, SeatedType DEF Seated, LobbyState
<1>3. m.players # <<>> /\ m.players[1] = lobby[r].players[1]
  BY <1>1, <1>2
<1>4. /\ lobby'[r] = m /\ timers'[r] = timers[r]
      /\ \A q \in Rooms \ {r} : lobby'[q] = lobby[q] /\ timers'[q] = timers[q]
  BY DEF WaitInv, ControlInv, TypeOK
<1> HIDE DEF m
<1>. QED
  BY <1>2, <1>3, <1>4 DEF RoomTimed, Waits, Timed

LEMMA JoinTimed ==
  ASSUME WaitInv, NEW j \in Joins, TakeSeat(j)
  PROVE  RoomTimed(RoomOf(j))
<1> DEFINE r == RoomOf(j)
           p == [join |-> j, cards |-> request[j].cards]
           l == Seated(lobby[r], p)
           t == IF lobby[r].players = <<>> THEN Scheduled(timers[r]) ELSE timers[r]
<1>1. ControlInv /\ TypeOK /\ r \in Rooms /\ p \in Seat
  BY LobbyParts DEF WaitInv, ControlInv, Seat
<1>2. /\ lobby[r] \in LobbyState /\ timers[r] \in Timers
      /\ lobby[r].players \in Seq(Seat)
  BY <1>1, LobbyFacts
<1>3. l \in LobbyState /\ l.players = Append(lobby[r].players, p) /\ t \in Timers
  BY <1>1, <1>2, SeatedType, TimersUpdates
<1>4. CASE l.totalCards >= MaxCardsPerMatch
  <2>1. CancelAndFinalize(r, l, t)
    BY <1>4 DEF TakeSeat
  <2>. QED
    BY <1>1, <1>3, <2>1, CancelTimed
<1>5. CASE ~ (l.totalCards >= MaxCardsPerMatch)
  <2>1. lobby' = [lobby EXCEPT ![r] = l] /\ timers' = [timers EXCEPT ![r] = t]
    BY <1>5 DEF TakeSeat
  <2>2. CASE lobby[r].players # <<>>
    BY <1>1, <2>1, <2>2, SeatedTimed
  <2>3. CASE lobby[r].players = <<>>
    <3>1. t = Scheduled(timers[r]) /\ ~ timers[r].scheduled
      BY <1>1, <2>3 DEF WaitInv, Unscheduled
    <3>2. "second" \in t.armed
      BY <3>1 DEF Scheduled
    <3>3. l.players # <<>>
      BY <1>2, <1>3
    <3>4. /\ lobby'[r] = l /\ timers'[r] = t
          /\ \A q \in Rooms \ {r} : lobby'[q] = lobby[q] /\ timers'[q] = timers[q]
      BY <1>1, <2>1 DEF TypeOK
    <3> HIDE DEF l, t
    <3>. QED
      BY <3>2, <3>3, <3>4 DEF RoomTimed, Timed
  <2>. QED
    BY <2>2, <2>3
<1>. QED
  BY <1>4, <1>5

LEMMA WindowTimed ==
  ASSUME WaitInv, NEW r \in Rooms, FirstPeriod(r) \/ SecondPeriod(r)
  PROVE  RoomTimed(r)
<1> DEFINE fired(w) == [timers[r] EXCEPT !.armed = @ \ {w}]
<1>1. TypeOK /\ lobby[r] \in LobbyState /\ timers[r] \in Timers
  BY LobbyFacts DEF WaitInv, ControlInv
<1>2. \A w : /\ fired(w) \in Timers /\ fired(w).scheduled = timers[r].scheduled
             /\ fired(w).armed = timers[r].armed \ {w}
  BY <1>1, TimersUpdates DEF Timers
<1>3. ASSUME NEW w, NEW l \in LobbyState, WindowFired(r, w, l),
             l.players = lobby[r].players, l.status = lobby[r].status,
             Timed(lobby[r], timers[r]) => Timed(l, fired(w))
      PROVE  RoomTimed(r)
  <2>1. CASE l.totalCards >= MinCardsToStart
    BY <1>1, <1>2, <1>3, <2>1, CancelTimed DEF WindowFired
  <2>2. CASE ~ (l.totalCards >= MinCardsToStart)
    <3>1. lobby' = [lobby EXCEPT ![r] = l] /\ timers' = [timers EXCEPT ![r] = fired(w)]
      BY <1>3, <2>2 DEF WindowFired
    <3>. QED
      BY <1>2, <1>3, <3>1, FlagsTimed
  <2>. QED
    BY <2>1, <2>2
<1>4. CASE lobby[r].status = "WAITING" /\ FirstPeriod(r)
  <2> DEFINE l == [lobby[r] EXCEPT !.first = TRUE]
  <2>1. /\ l \in LobbyState /\ l.players = lobby[r].players
        /\ l.status = lobby[r].status /\ l.second = lobby[r].second
    BY <1>1 DEF LobbyState
  <2>2. WindowFired(r, "first", l)
    BY <1>4 DEF FirstPeriod
  <2>3. Timed(lobby[r], timers[r]) => Timed(l, fired("first"))
    BY <1>2, <2>1 DEF Timed
  <2>. QED
    BY <1>3, <2>1, <2>2, <2>3
<1>5. CASE lobby[r].status = "WAITING" /\ SecondPeriod(r)
  <2> DEFINE l == [lobby[r] EXCEPT !.second = TRUE]
  <2>1. /\ l \in LobbyState /\ l.players = lobby[r].players
        /\ l.status = lobby[r].status /\ l.second
    BY <1>1 DEF LobbyState
  <2>2. WindowFired(r, "second", l)
    BY <1>5 DEF SecondPeriod
  <2>. QED
    BY <1>3, <2>1, <2>2 DEF Timed
<1>6. CASE lobby[r].status # "WAITING"
  <2>1. PICK w : timers' = [timers EXCEPT ![r] = fired(w)] /\ lobby' = lobby
    BY <1>6 DEF FirstPeriod, SecondPeriod
  <2>2. lobby' = [lobby EXCEPT ![r] = lobby[r]]
    BY <1>1, <2>1 DEF TypeOK
  <2>. QED
    BY <1>2, <1>6, <2>1, <2>2, FlagsTimed
<1>. QED
  BY <1>4, <1>5, <1>6

LEMMA BotEntryTimed ==
  ASSUME WaitInv, NEW r \in Rooms, BotEntryIdle(r) \/ BotEntryFills(r)
  PROVE  RoomTimed(r)
<1> DEFINE t == [timers[r] EXCEPT !.bot = @ - 1]
<1>1. TypeOK /\ lobby[r] \in LobbyState /\ timers[r] \in Timers
  BY LobbyFacts DEF WaitInv, ControlInv
<1>2. timers' = [timers EXCEPT ![r] = t]
  BY DEF BotEntryIdle, BotEntryFills, BotTimerFires
<1>3. t.scheduled = timers[r].scheduled /\ t.armed = timers[r].armed
  BY <1>1 DEF Timers
<1>4. PICK m \in {lobby[r], [lobby[r] EXCEPT !.filling = TRUE]} :
        lobby' = [lobby EXCEPT ![r] = m]
  BY <1>1 DEF BotEntryIdle, BotEntryFills, TypeOK
<1>5. /\ m.players = lobby[r].players /\ m.status = lobby[r].status
      /\ m.second = lobby[r].second
  BY <1>1, <1>4 DEF LobbyState
<1>6. Timed(lobby[r], timers[r]) => Timed(m, t)
  BY <1>3, <1>5 DEF Timed
<1> HIDE DEF t
<1>. QED
  BY <1>2, <1>3, <1>4, <1>5, <1>6, FlagsTimed

\* A bot that enters an empty lobby is its first player, and no timer starts.
LEMMA FillTimed ==
  ASSUME WaitInv, NEW f \in DOMAIN fills, BotJoins(f) \/ FillExits(f)
  PROVE  RoomTimed(fills[f].room)
<1> DEFINE r == fills[f].room
<1>1. TypeOK /\ ControlInv /\ r \in Rooms
  BY LobbyParts DEF WaitInv, ControlInv
<1>2. /\ lobby[r] \in LobbyState /\ timers[r] \in Timers
      /\ lobby[r].totalCards \in Nat /\ lobby[r].players \in Seq(Seat)
      /\ timers = [timers EXCEPT ![r] = timers[r]]
      /\ lobby = [lobby EXCEPT ![r] = lobby[r]]
  BY <1>1, LobbyFacts DEF TypeOK
<1>3. CASE lobby' = lobby /\ timers' = timers
  BY <1>1, <1>2, <1>3, FlagsTimed
<1>4. ASSUME NEW n \in Nat, timers' = timers,
             lobby' = [lobby EXCEPT ![r] = Seated(@, [join |-> BOT, cards |-> n])]
      PROVE  RoomTimed(r)
  <2> DEFINE p == [join |-> BOT, cards |-> n]
  <2>1. p \in Seat
    BY DEF Seat
  <2>2. CASE lobby[r].players # <<>>
    BY <1>1, <1>2, <1>4, <2>1, <2>2, SeatedTimed
  <2>3. CASE lobby[r].players = <<>>
    <3>1. /\ lobby'[r] = Seated(lobby[r], p) /\ timers'[r] = timers[r]
          /\ \A q \in Rooms \ {r} : lobby'[q] = lobby[q] /\ timers'[q] = timers[q]
      BY <1>1, <1>4 DEF TypeOK
    <3>2. Seated(lobby[r], p).players = Append(lobby[r].players, p)
      BY <1>2, <2>1, SeatedType
    <3>3. \A e \in Seat : Append(<<>>, e) # <<>> /\ Append(<<>>, e)[1] = e
      OBVIOUS
    <3>4. lobby'[r].players # <<>> /\ lobby'[r].players[1] = p
      BY <2>1, <2>3, <3>1, <3>2, <3>3
    <3>5. ~ IsReal(p)
      BY DEF IsReal
    <3>. QED
      BY <3>1, <3>4, <3>5 DEF RoomTimed, Waits
  <2>. QED
    BY <2>2, <2>3
<1>5. CASE BotJoins(f)
  <2> DEFINE n == Min({fills[f].cards, MaxCardsPerMatch - lobby[r].totalCards})
  <2>1. n \in Int
    <3>1. fills[f].cards \in Int
      BY <1>1, LobbyParts, FillUpdates
    <3>2. MaxCardsPerMatch - lobby[r].totalCards \in Int
      BY <1>2, Limits
    <3>. QED
      BY <3>1, <3>2, MinPair
  <2>2. CASE n > 0
    <3>1. n \in Nat /\ timers' = timers
          /\ lobby' = [lobby EXCEPT ![r] = Seated(@, [join |-> BOT, cards |-> n])]
      BY <1>5, <2>1, <2>2 DEF BotJoins
    <3>. QED
      BY <1>4, <3>1
  <2>3. CASE ~ (n > 0)
    BY <1>3, <1>5, <2>3 DEF BotJoins
  <2>. QED
    BY <2>2, <2>3
<1>6. CASE FillExits(f)
  <2> DEFINE l == [lobby[r] EXCEPT !.filling = FALSE]
  <2>1. /\ l \in LobbyState /\ l.players = lobby[r].players
        /\ l.status = lobby[r].status /\ l.second = lobby[r].second
    BY <1>2 DEF LobbyState
  <2>2. CASE l.totalCards >= MinCardsToStart
    <3>1. CancelAndFinalize(r, l, timers[r])
      BY <1>6, <2>2 DEF FillExits, EndFill
    <3>. QED
      BY <1>1, <1>2, <2>1, <3>1, CancelTimed
  <2>3. CASE ~ (l.totalCards >= MinCardsToStart)
    <3>1. lobby' = [lobby EXCEPT ![r] = l] /\ timers' = timers
      BY <1>6, <2>3 DEF FillExits, EndFill
    <3>2. Timed(lobby[r], timers[r]) => Timed(l, timers[r])
      BY <2>1 DEF Timed
    <3> HIDE DEF l
    <3>. QED
      BY <1>1, <1>2, <2>1, <3>1, <3>2, FlagsTimed
  <2>. QED
    BY <2>2, <2>3
<1>. QED
  BY <1>5, <1>6

\* Joins, timers and fills: a failed start stays the last word on its room
\* until a start is done, and a new start comes after all others.
LEMMA TameWaitInv ==
  ASSUME WaitInv, ControlInv', Tame,
         \/ UNCHANGED <<lobby, timers>>
         \/ \E r \in Rooms : RoomTimed(r)
  PROVE  WaitInv'
<1>1. ControlInv /\ TypeOK /\ TypeOK'
  BY DEF WaitInv, ControlInv
<1>2. \/ starts' = starts
      \/ \E r \in Rooms : /\ starts' = Append(starts, NewStart(r))
                          /\ lobby[r].status = "WAITING"
  BY DEF Tame, RoomGrows, Grows
<1>3. /\ DOMAIN starts \subseteq DOMAIN starts'
      /\ \A u \in DOMAIN starts : starts'[u] = starts[u]
      /\ \A u \in DOMAIN starts' \ DOMAIN starts :
           /\ starts'[u].pc = "room"
           /\ lobby[starts'[u].room].status = "WAITING"
           /\ \A v \in DOMAIN starts' : v <= u
  <2>1. CASE starts' = starts
    BY <2>1
  <2>2. ASSUME NEW r \in Rooms, starts' = Append(starts, NewStart(r)),
               lobby[r].status = "WAITING"
        PROVE  <1>3!1 /\ <1>3!2 /\ <1>3!3
    <3>1. starts \in Seq(Start)
      BY <1>1 DEF TypeOK
    <3>2. /\ DOMAIN starts \subseteq DOMAIN starts'
          /\ \A u \in DOMAIN starts : starts'[u] = starts[u]
          /\ \A u \in DOMAIN starts' \ DOMAIN starts :
               starts'[u] = NewStart(r) /\ \A v \in DOMAIN starts' : v <= u
      BY <2>2, <3>1
    <3>. QED
      BY <2>2, <3>2 DEF NewStart
  <2>. QED
    BY <1>2, <2>1, <2>2
<1>4. Unscheduled'
  BY DEF WaitInv, Unscheduled, RoomTimed
<1>5. LastStart'
  <2>1. \A s \in DOMAIN starts : Active(s) => lobby[starts[s].room].status # "WAITING"
    BY <1>1, LobbyParts DEF ControlInv, OneStartPerRoom
  <2>2. SUFFICES ASSUME NEW s \in DOMAIN starts', NEW t \in DOMAIN starts',
                        Active(s)', starts'[s].room = starts'[t].room
                 PROVE  t <= s
    BY DEF LastStart
  <2>3. CASE s \in DOMAIN starts
    <3>1. Active(s) /\ starts'[s] = starts[s]
      BY <1>3, <2>2, <2>3 DEF Active
    <3>2. t \in DOMAIN starts
      BY <1>3, <2>1, <2>2, <2>3, <3>1
    <3>. QED
      BY <1>3, <2>2, <2>3, <3>1, <3>2 DEF WaitInv, LastStart
  <2>4. CASE s \notin DOMAIN starts
    BY <1>3, <2>4
  <2>. QED
    BY <2>3, <2>4
<1>6. \A r \in Rooms : FailedSinceReset(r) => FailedSinceReset(r)'
  <2>1. SUFFICES ASSUME NEW r \in Rooms, FailedSinceReset(r)
                 PROVE  FailedSinceReset(r)'
    OBVIOUS
  <2>2. PICK s \in DOMAIN starts :
          /\ starts[s].room = r /\ starts[s].pc \in {"failed", "aborted"}
          /\ \A t \in DOMAIN starts : starts[t].room = r /\ starts[t].pc = "done" => t < s
    BY <2>1 DEF FailedSinceReset
  <2>3. \A t \in DOMAIN starts' :
          starts'[t].room = r /\ starts'[t].pc = "done" => t < s
    BY <1>3, <2>2
  <2>. QED
    BY <1>3, <2>2, <2>3 DEF FailedSinceReset
<1>7. WaitersAreTimed'
  <2>1. \A q \in Rooms : Waits(lobby'[q]) /\ ~ Timed(lobby'[q], timers'[q])
                           => Waits(lobby[q]) /\ ~ Timed(lobby[q], timers[q])
    BY DEF RoomTimed
  <2>2. \A q \in Rooms : Waits(lobby[q]) /\ ~ Timed(lobby[q], timers[q])
                           => FailedSinceReset(q)
    BY DEF WaitInv, WaitersAreTimed, Waits, Timed
  <2>3. \A q \in Rooms : Waits(lobby'[q]) /\ ~ Timed(lobby'[q], timers'[q])
                           => FailedSinceReset(q)'
    BY <1>6, <2>1, <2>2
  <2>. QED
    BY <2>3 DEF WaitersAreTimed, Waits, Timed, IsReal
<1>. QED
  BY <1>4, <1>5, <1>7 DEF WaitInv

\* A step of a start that leaves lobbies and timers alone is not its last.
LEMMA AdvanceWaitInv ==
  ASSUME WaitInv, ControlInv', NEW s \in DOMAIN starts, UNCHANGED <<lobby, timers>>,
         Active(s), NEW h, starts' = [starts EXCEPT ![s] = h],
         h.room = starts[s].room, h.pc \notin {"done", "failed", "aborted"}
  PROVE  WaitInv'
<1>1. /\ DOMAIN starts' = DOMAIN starts /\ starts'[s] = h
      /\ \A u \in DOMAIN starts \ {s} : starts'[u] = starts[u]
  BY DEF WaitInv, ControlInv, TypeOK
<1>2. \A u \in DOMAIN starts : /\ starts'[u].room = starts[u].room
                               /\ Active(u)' => Active(u)
  BY <1>1 DEF Active
<1>3. Unscheduled' /\ LastStart'
  BY <1>1, <1>2 DEF WaitInv, Unscheduled, LastStart
<1>4. \A r \in Rooms : FailedSinceReset(r) => FailedSinceReset(r)'
  BY <1>1, <1>2 DEF FailedSinceReset, Active
<1>5. WaitersAreTimed'
  BY <1>4 DEF WaitInv, WaitersAreTimed, IsReal
<1>. QED
  BY <1>3, <1>5 DEF WaitInv

\* The last step of a start: the failed one is the last of its room, the one
\* that is done leaves an empty lobby without timers.
LEMMA EndWaitInv ==
  ASSUME WaitInv, ControlInv', NEW s \in DOMAIN starts, Active(s), NEW h, NEW m, NEW t,
         starts' = [starts EXCEPT ![s] = h],
         lobby' = [lobby EXCEPT ![starts[s].room] = m],
         timers' = [timers EXCEPT ![starts[s].room] = t],
         h.room = starts[s].room,
         \/ /\ h.pc \in {"failed", "aborted"}
            /\ m.players = lobby[starts[s].room].players /\ t = timers[starts[s].room]
         \/ h.pc = "done" /\ m.players = <<>> /\ ~ t.scheduled
  PROVE  WaitInv'
<1> DEFINE r == starts[s].room
<1>1. /\ DOMAIN starts' = DOMAIN starts /\ starts'[s] = h
      /\ \A u \in DOMAIN starts \ {s} : starts'[u] = starts[u]
      /\ r \in Rooms /\ starts \in Seq(Start)
  BY LobbyParts DEF WaitInv, ControlInv, TypeOK
<1>2. /\ lobby'[r] = m /\ timers'[r] = t
      /\ \A q \in Rooms \ {r} : lobby'[q] = lobby[q] /\ timers'[q] = timers[q]
  BY <1>1 DEF WaitInv, ControlInv, TypeOK
<1>3. \A u \in DOMAIN starts : /\ starts'[u].room = starts[u].room
                               /\ Active(u)' => Active(u)
  BY <1>1 DEF Active
<1>4. Unscheduled'
  BY <1>2 DEF WaitInv, Unscheduled
<1>5. LastStart'
  BY <1>1, <1>3 DEF WaitInv, LastStart
<1>6. \A q \in Rooms \ {r} : FailedSinceReset(q) => FailedSinceReset(q)'
  BY <1>1, <1>3 DEF FailedSinceReset
<1>7. h.pc \in {"failed", "aborted"} => FailedSinceReset(r)'
  <2>1. SUFFICES ASSUME h.pc \in {"failed", "aborted"}
                 PROVE  FailedSinceReset(r)'
    OBVIOUS
  <2>2. \A u \in DOMAIN starts : starts'[u].room = r /\ starts'[u].pc = "done" => u < s
    <3>1. \A u \in DOMAIN starts : u \in Int /\ s \in Int
      BY <1>1
    <3>2. \A u \in DOMAIN starts : starts[u].room = r => u <= s
      BY DEF WaitInv, LastStart
    <3>. QED
      BY <1>1, <1>3, <2>1, <3>1, <3>2
  <2>. QED
    BY <1>1, <2>1, <2>2 DEF FailedSinceReset
<1>8. WaitersAreTimed'
  <2>1. \A q \in Rooms \ {r} :
          Waits(lobby'[q]) /\ ~ Timed(lobby'[q], timers'[q]) => FailedSinceReset(q)'
    BY <1>2, <1>6 DEF WaitInv, WaitersAreTimed, Waits, Timed
  <2>2. Waits(lobby'[r]) => FailedSinceReset(r)'
    BY <1>2, <1>7 DEF Waits
  <2>. QED
    BY <2>1, <2>2 DEF WaitersAreTimed, Waits, Timed, IsReal
<1>. QED
  BY <1>4, <1>5, <1>8 DEF WaitInv

LEMMA StartWaitInv ==
  ASSUME WaitInv, ControlInv', NEW s \in DOMAIN starts, StartStep(s)
  PROVE  WaitInv'
<1> DEFINE r == starts[s].room
           g == starts[s]
<1>1. TypeOK /\ g \in Start /\ r \in Rooms
  BY LobbyParts DEF WaitInv, ControlInv
<1>2. CASE \/ ReadRoom(s) \/ CreateMatch(s) \/ Assign(s) \/ Commit(s)
           \/ BeginCalling(s)
  <2>1. Active(s) /\ UNCHANGED <<lobby, timers>>
    BY <1>2 DEF ReadRoom, CreateMatch, Assign, Commit, BeginCalling, Active
  <2>2. PICK h : /\ starts' = [starts EXCEPT ![s] = h] /\ h.room = r
                 /\ h.pc \notin {"done", "failed", "aborted"}
    <3>1. CASE ReadRoom(s)
      <4> DEFINE h == [g EXCEPT !.pc = "create", !.entry = lobby[r].totalCards]
      <4>1. h.room = r /\ h.pc = "create" /\ starts' = [starts EXCEPT ![s] = h]
        BY <1>1, <3>1 DEF ReadRoom, Start
      <4>. QED
        BY <4>1
    <3>2. CASE CreateMatch(s)
      <4> DEFINE h == [g EXCEPT !.pc = "assign", !.cards = lobby[r].totalCards]
      <4>1. h.room = r /\ h.pc = "assign" /\ starts' = [starts EXCEPT ![s] = h]
        BY <1>1, <3>2 DEF CreateMatch, Start
      <4>. QED
        BY <4>1
    <3>3. CASE Assign(s)
      <4> DEFINE p == NextSeat(s)
                 h == [g EXCEPT !.seats = Append(@, p), !.dealt = @ + p.cards]
      <4>1. h.room = r /\ h.pc = "assign" /\ starts' = [starts EXCEPT ![s] = h]
        BY <1>1, <3>3 DEF Assign, Start
      <4>. QED
        BY <4>1
    <3>4. ASSUME NEW label \in {"calling", "announce"},
                 starts' = [starts EXCEPT ![s].pc = label]
          PROVE  \E h : /\ starts' = [starts EXCEPT ![s] = h] /\ h.room = r
                        /\ h.pc \notin {"done", "failed", "aborted"}
      <4> DEFINE h == [g EXCEPT !.pc = label]
      <4>1. h.room = r /\ h.pc = label /\ starts' = [starts EXCEPT ![s] = h]
        BY <1>1, <3>4 DEF Start
      <4>. QED
        BY <4>1
    <3>. QED
      BY <1>2, <3>1, <3>2, <3>3, <3>4 DEF Commit, BeginCalling
  <2>. QED
    BY <2>1, <2>2, AdvanceWaitInv
<1>3. CASE StartFails(s) \/ StartAborts(s)
  <2> DEFINE m == [lobby[r] EXCEPT !.status = "WAITING"]
  <2>1. m.players = lobby[r].players
    BY <1>1 DEF TypeOK, LobbyState
  <2>2. Active(s) /\ lobby' = [lobby EXCEPT ![r] = m]
        /\ timers' = [timers EXCEPT ![r] = timers[r]]
    BY <1>1, <1>3 DEF StartFails, StartAborts, Reopened, Active, TypeOK
  <2>3. PICK h : /\ starts' = [starts EXCEPT ![s] = h] /\ h.room = r
                 /\ h.pc \in {"failed", "aborted"}
    <3>1. [NewStart(r) EXCEPT !.pc = "failed"].room = r
          /\ [NewStart(r) EXCEPT !.pc = "failed"].pc = "failed"
      BY DEF NewStart
    <3>2. [g EXCEPT !.pc = "aborted"].room = r /\ [g EXCEPT !.pc = "aborted"].pc = "aborted"
      BY <1>1 DEF Start
    <3>. QED
      BY <1>3, <3>1, <3>2 DEF StartFails, StartAborts
  <2> HIDE DEF m
  <2>. QED
    BY <2>1, <2>2, <2>3, EndWaitInv
<1>4. CASE Announce(s)
  <2>1. EmptyLobby.players = <<>> /\ ~ Cancelled(timers[r]).scheduled
    BY <1>1 DEF EmptyLobby, Cancelled, TypeOK, Timers
  <2>2. [g EXCEPT !.pc = "done"].room = r /\ [g EXCEPT !.pc = "done"].pc = "done"
    BY <1>1 DEF Start
  <2>3. /\ Active(s) /\ starts' = [starts EXCEPT ![s] = [g EXCEPT !.pc = "done"]]
        /\ lobby' = [lobby EXCEPT ![r] = EmptyLobby]
        /\ timers' = [timers EXCEPT ![r] = Cancelled(timers[r])]
    BY <1>4 DEF Announce, Active
  <2>. QED
    BY <2>1, <2>2, <2>3, EndWaitInv
<1>. QED
  BY <1>2, <1>3, <1>4 DEF StartStep

LEMMA NextWaitInv == WaitInv /\ [Next]_vars => WaitInv'
<1> SUFFICES ASSUME WaitInv, [Next]_vars
             PROVE  WaitInv'
  OBVIOUS
<1>1. ControlInv /\ ControlInv'
  BY NextControlInv DEF WaitInv
<1>2. ASSUME Tame, UNCHANGED <<lobby, timers>>
      PROVE  WaitInv'
  BY <1>1, <1>2, TameWaitInv
<1>3. ASSUME Tame, NEW r \in Rooms, RoomTimed(r)
      PROVE  WaitInv'
  BY <1>1, <1>3, TameWaitInv
<1>4. ASSUME NEW j \in Joins, JoinStep(j) \/ Call(j)
      PROVE  WaitInv'
  <2>1. CASE TakeSeat(j)
    <3>1. RoomOf(j) \in Rooms
      BY <1>1, LobbyParts DEF ControlInv
    <3>. QED
      BY <1>1, <1>3, <1>4, <2>1, <3>1, JoinTame, JoinTimed
  <2>2. CASE ~ TakeSeat(j)
    <3>1. UNCHANGED <<lobby, timers>>
      BY <1>4, <2>2 DEF JoinStep, Call, Admit, ReadUser, CheckReferral, Charge,
         ChargeFails
    <3>. QED
      BY <1>1, <1>2, <1>4, <3>1, JoinTame
  <2>. QED
    BY <2>1, <2>2
<1>5. ASSUME NEW r \in Rooms, TimerStep(r)
      PROVE  WaitInv'
  BY <1>1, <1>3, <1>5, TimerTame, WindowTimed, BotEntryTimed DEF TimerStep
<1>6. ASSUME NEW f \in DOMAIN fills, FillStep(f)
      PROVE  WaitInv'
  <2>1. fills[f].room \in Rooms
    BY <1>1, LobbyParts DEF ControlInv
  <2>2. CASE FillFails(f) \/ FillAbandons(f) \/ FillContinues(f)
    <3>1. UNCHANGED <<lobby, timers>>
      BY <2>2 DEF FillFails, FillAbandons, FillContinues
    <3>. QED
      BY <1>1, <1>2, <1>6, <3>1, FillTame
  <2>3. CASE BotJoins(f) \/ FillExits(f)
    BY <1>1, <1>3, <1>6, <2>1, <2>3, FillTame, FillTimed
  <2>. QED
    BY <1>6, <2>2, <2>3 DEF FillStep
<1>7. ASSUME NEW s \in DOMAIN starts, StartStep(s)
      PROVE  WaitInv'
  BY <1>1, <1>7, StartWaitInv
<1>8. ASSUME NEW u \in Users, NEW a \in Prizes, Settle(u, a)
      PROVE  WaitInv'
  BY <1>2, <1>8 DEF Settle, Tame
<1>9. CASE UNCHANGED vars
  BY <1>2, <1>9 DEF vars, Tame
<1>. QED
  BY <1>4, <1>5, <1>6, <1>7, <1>8, <1>9 DEF Next, ServerStep

\* A lobby whose first player is a person has its second window still to come,
\* or it has passed, or the last start failed: no interleaving of joins,
\* fills, cancellations and resets leaves players waiting without a timer.
THEOREM WaitersTimedCorrect == Spec => []WaitersAreTimed
<1>1. WaitInv => WaitersAreTimed
  BY DEF WaitInv
<1>. QED
  BY <1>1, InitWaitInv, NextWaitInv, PTL DEF Spec

(***************************************************************************)
(* The clock. That it only restricts Lobby needs most for the second       *)
(* window; this and the time shown follow from how the countdowns and the  *)
(* time since createdAt move together.                                     *)
(***************************************************************************)
LEMMA Times ==
  /\ FirstWindow \in Nat \ {0} /\ SecondWindow \in Nat \ {0}
  /\ BotFillStart \in Nat \ {0} /\ BotFillEnd \in Nat \ {0}
  /\ BotFillEnd <= FirstWindow /\ BotFillDelays \subseteq Nat
BY TimesAssumption

-----------------------------------------------------------------------------
(* The windows                                                             *)

\* An armed window was armed after createdAt, and counts down as the time since
\* goes up: what one has left and the other has seen adds up to its length.
WindowsCount(r) ==
  /\ left[r].first \in 0..FirstWindow
  /\ left[r].second \in 0..(FirstWindow + SecondWindow)
  /\ "first" \in timers[r].armed => FirstWindow <= age[r] + left[r].first
  /\ "second" \in timers[r].armed =>
       \/ age[r] >= FirstWindow
       \/ FirstWindow + SecondWindow <= age[r] + left[r].second

CountInv ==
  /\ age \in [Rooms -> 0..FirstWindow]
  /\ \A r \in Rooms : WindowsCount(r)

LEMMA CountInit == ClockInit => CountInv
<1> SUFFICES ASSUME ClockInit PROVE CountInv
  OBVIOUS
<1>1. age \in [Rooms -> 0..FirstWindow]
  BY Times DEF ClockInit
<1>2. ASSUME NEW r \in Rooms PROVE WindowsCount(r)
  <2>1. left[r].first = 0 /\ left[r].second = 0 /\ timers[r].armed = {}
    BY DEF ClockInit, Init, NoTimers
  <2> QED
    BY <2>1, Times DEF WindowsCount
<1> QED
  BY <1>1, <1>2 DEF CountInv

\* A countdown that is armed by a step starts at its length.
LEMMA CountFollows ==
  ASSUME CountInv, TimersFollow, NEW r \in Rooms, age'[r] = age[r]
  PROVE  WindowsCount(r)'
<1>1. /\ left'[r].first = WindowLeft(r, "first", left[r].first, FirstWindow)
      /\ left'[r].second = WindowLeft(r, "second", left[r].second, FirstWindow + SecondWindow)
  BY DEF TimersFollow
<1>2. WindowsCount(r) /\ age[r] \in 0..FirstWindow
  BY DEF CountInv
<1> QED
  BY <1>1, <1>2, Times DEF WindowsCount, WindowLeft

\* resetLobby sets createdAt and leaves no window armed.
LEMMA CountReset ==
  ASSUME TypeOK, CountInv, NEW s \in DOMAIN starts, Reset(s)
  PROVE  CountInv'
<1> DEFINE q == starts[s].room
<1>1. q \in Rooms /\ timers[q] \in Timers
  BY LobbyParts
<1>2. age' = [age EXCEPT ![q] = 0] /\ timers' = [timers EXCEPT ![q] = Cancelled(@)]
  BY DEF Reset, Created, Announce
<1>3. age' \in [Rooms -> 0..FirstWindow]
  BY <1>1, <1>2, Times DEF CountInv
<1>4. ASSUME NEW r \in Rooms PROVE WindowsCount(r)'
  <2>1. CASE r = q
    <3>1. timers'[r].armed = {}
      BY <1>1, <1>2, <2>1 DEF Cancelled, Timers, TypeOK
    <3>2. left'[r].first = 0 /\ left'[r].second = 0
      BY <3>1 DEF Reset, TimersFollow, WindowLeft
    <3> QED
      BY <3>1, <3>2, Times DEF WindowsCount
  <2>2. CASE r # q
    <3>1. age'[r] = age[r]
      BY <1>2, <2>2 DEF CountInv
    <3> QED
      BY <3>1, CountFollows DEF Reset
  <2> QED
    BY <2>1, <2>2
<1> QED
  BY <1>3, <1>4 DEF CountInv

LEMMA CountTick == ASSUME TypeOK, CountInv, Tick PROVE CountInv'
<1>1. timers' = timers
  BY DEF Tick, vars
<1>2. ASSUME NEW r \in Rooms PROVE age'[r] \in 0..FirstWindow /\ WindowsCount(r)'
  <2>1. age'[r] = IF age[r] < FirstWindow THEN age[r] + 1 ELSE age[r]
    BY DEF Tick
  <2>2. left'[r].first = Down(left[r].first) /\ left'[r].second = Down(left[r].second)
    BY DEF Tick
  <2>3. /\ "first" \in timers[r].armed => left[r].first > 0
        /\ "second" \in timers[r].armed => left[r].second > 0
    BY DEF Tick
  <2>4. WindowsCount(r) /\ age[r] \in 0..FirstWindow
    BY DEF CountInv
  <2> QED
    BY <1>1, <2>1, <2>2, <2>3, <2>4, Times DEF WindowsCount, Down
<1> QED
  BY <1>2 DEF CountInv, Tick

LEMMA CountStep == TypeOK /\ CountInv /\ [ClockNext]_<<vars, clockVars>> => CountInv'
<1> SUFFICES ASSUME TypeOK, CountInv, [ClockNext]_<<vars, clockVars>> PROVE CountInv'
  OBVIOUS
<1>1. ASSUME TimersFollow, age' = age PROVE CountInv'
  BY <1>1, CountFollows DEF CountInv
<1>2. CASE Untimed
  BY <1>1, <1>2 DEF Untimed
<1>3. ASSUME NEW s \in DOMAIN starts, Reset(s) PROVE CountInv'
  BY <1>3, CountReset
<1>4. ASSUME NEW r \in Rooms, FirstWindowEnds(r) \/ SecondWindowEnds(r) \/ BotEntryTime(r)
      PROVE  CountInv'
  BY <1>1, <1>4 DEF FirstWindowEnds, SecondWindowEnds, BotEntryTime
<1>5. ASSUME NEW f \in DOMAIN fills, BotSitsDown(f) \/ FillWakes(f) PROVE CountInv'
  BY <1>1, <1>5 DEF BotSitsDown, FillWakes
<1>6. CASE Tick
  BY <1>6, CountTick
<1>7. CASE UNCHANGED <<vars, clockVars>>
  BY <1>7 DEF vars, clockVars, CountInv, WindowsCount
<1> QED
  BY <1>2, <1>3, <1>4, <1>5, <1>6, <1>7 DEF ClockNext

-----------------------------------------------------------------------------
(* The refinement                                                          *)

\* When the second window ends, the bot window of the lobby has long ended.
LEMMA SecondWindowShut ==
  ASSUME CountInv, NEW r \in Rooms, "second" \in timers[r].armed, left[r].second = 0
  PROVE  ~ WindowOpen(age[r])
<1>1. WindowsCount(r) /\ age[r] \in 0..FirstWindow
  BY DEF CountInv
<1> QED
  BY <1>1, Times DEF WindowsCount, WindowOpen

LEMMA StepImplements ==
  ASSUME CountInv, [ClockNext]_<<vars, clockVars>>
  PROVE  [Next]_vars
<1>1. CASE Untimed
  BY <1>1 DEF Untimed, Next, ServerStep, FillStep
<1>2. ASSUME NEW s \in DOMAIN starts, Reset(s) PROVE Next
  BY <1>2 DEF Reset, Next, ServerStep, StartStep
<1>3. ASSUME NEW r \in Rooms, FirstWindowEnds(r) \/ BotEntryTime(r) PROVE Next
  BY <1>3 DEF FirstWindowEnds, BotEntryTime, Next, ServerStep, TimerStep
<1>4. ASSUME NEW r \in Rooms, SecondWindowEnds(r) PROVE Next
  <2>1. CASE BotsWanted(r) /\ WindowOpen(age[r])
    BY <1>4, <2>1, SecondWindowShut DEF SecondWindowEnds, SecondWindowFills
  <2>2. CASE ~ (BotsWanted(r) /\ WindowOpen(age[r]))
    BY <1>4, <2>2 DEF SecondWindowEnds, Next, ServerStep, TimerStep
  <2> QED
    BY <2>1, <2>2
<1>5. ASSUME NEW f \in DOMAIN fills, BotSitsDown(f) \/ FillWakes(f) PROVE Next
  BY <1>5 DEF BotSitsDown, FillWakes, Next, ServerStep, FillStep
<1>6. CASE Tick
  BY <1>6 DEF Tick
<1>7. CASE UNCHANGED <<vars, clockVars>>
  BY <1>7
<1> QED
  BY <1>1, <1>2, <1>3, <1>4, <1>5, <1>6, <1>7 DEF ClockNext

ClockInv == TypeOK /\ CountInv

LEMMA ClockInvInit == ClockInit => ClockInv
BY CountInit, InitTypeOK DEF ClockInv, ClockInit

LEMMA ClockInvStep == ClockInv /\ [ClockNext]_<<vars, clockVars>> => ClockInv'
BY CountStep, StepImplements, NextTypeOK DEF ClockInv

LEMMA ClockInvCorrect == ClockSpec => []ClockInv
BY ClockInvInit, ClockInvStep, PTL DEF ClockSpec

\* With its windows, its bot-entry timer and the end of the bot window at their
\* times, the lobby does what Lobby allows: the fill the second window calls
\* never adds a bot, for any lengths with BotFillEnd within the first window.
THEOREM ImplementsLobbyCorrect == ClockSpec => ImplementsLobby
<1>1. ClockInit => Init
  BY DEF ClockInit
<1>2. ClockInv /\ [ClockNext]_<<vars, clockVars>> => [Next]_vars
  BY StepImplements DEF ClockInv
<1> QED
  BY <1>1, <1>2, ClockInvCorrect, PTL DEF ClockSpec, ImplementsLobby, Spec

\* Rounding takes away less than a second.
LEMMA WholeSecondsBounds ==
  ASSUME NEW n \in Nat
  PROVE  WholeSeconds(n) \in Nat /\ WholeSeconds(n) <= n /\ n < WholeSeconds(n) + Second
<1>1. Second \in Nat \ {0}
  BY TimesAssumption
<1>2. n % Second \in 0..(Second - 1)
  BY <1>1
<1>3. n % Second <= n
  BY <1>1
<1> QED
  BY <1>1, <1>2, <1>3 DEF WholeSeconds

LEMMA MaxWithZero ==
  ASSUME NEW n \in Int
  PROVE  Max({0, n}) = IF n > 0 THEN n ELSE 0
BY DEF Max

\* The waiting time shown to clients is never a second longer than the window
\* it stands for has left: ShownTimeHolds for every instance.
THEOREM ShownTimeCorrect == ClockSpec => []ShownTimeHolds
<1>1. ASSUME ClockInv, NEW r \in Rooms, "first" \in timers[r].armed
      PROVE  RemainingTime(r) < left[r].first + Second
  <2>1. /\ age[r] \in Nat /\ left[r].first \in Nat
        /\ FirstWindow <= age[r] + left[r].first
    BY <1>1, Times DEF ClockInv, CountInv, WindowsCount
  <2>2. FirstWindow \in Nat /\ Second \in Nat \ {0}
    BY TimesAssumption
  <2> DEFINE whole == WholeSeconds(FirstWindow)
             gone == WholeSeconds(age[r])
  <2>3. /\ whole \in Nat /\ whole <= FirstWindow
        /\ gone \in Nat /\ age[r] < gone + Second
    BY <2>1, <2>2, WholeSecondsBounds
  <2>4. RemainingTime(r) = Max({0, whole - gone})
    BY DEF RemainingTime
  <2> HIDE DEF whole, gone
  <2>5. RemainingTime(r) = IF whole - gone > 0 THEN whole - gone ELSE 0
    BY <2>3, <2>4, MaxWithZero
  <2> QED
    BY <2>1, <2>2, <2>3, <2>5
<1>2. ClockInv => ShownTimeHolds
  BY <1>1 DEF ShownTimeHolds
<1> QED
  BY <1>2, ClockInvCorrect, PTL

-----------------------------------------------------------------------------
(* Types. Each bot-entry timer has one countdown and each fill one window, *)
(* as a step starts or ends at most one of them.                           *)

BotTimerMoves(q) ==
  \/ timers'[q].bot = timers[q].bot
  \/ timers'[q].bot = timers[q].bot + 1
  \/ timers[q].bot > 0 /\ timers'[q].bot = timers[q].bot - 1

\* Whoever writes the timers of a room leaves those of the others alone.
LEMMA OneRoomTimers ==
  ASSUME TypeOK, NEW r \in Rooms, NEW t, timers' = [timers EXCEPT ![r] = t],
         \/ t.bot = timers[r].bot \/ t.bot = timers[r].bot + 1
         \/ timers[r].bot > 0 /\ t.bot = timers[r].bot - 1
  PROVE  \A q \in Rooms : BotTimerMoves(q)
BY DEF TypeOK, BotTimerMoves

LEMMA TakeSeatTimers ==
  ASSUME TypeOK, NEW j \in Joins, TakeSeat(j)
  PROVE  \A q \in Rooms : BotTimerMoves(q)
<1> DEFINE r == RoomOf(j)
           t == IF lobby[r].players = <<>> THEN Scheduled(timers[r]) ELSE timers[r]
<1>1. r \in Rooms /\ timers[r] \in Timers
  BY LobbyParts
<1>2. t.bot = timers[r].bot \/ t.bot = timers[r].bot + 1
  BY DEF Scheduled
<1>3. t \in Timers /\ Cancelled(t).bot = t.bot
  BY <1>1 DEF Scheduled, Cancelled, Timers
<1>4. timers' = [timers EXCEPT ![r] = Cancelled(t)] \/ timers' = [timers EXCEPT ![r] = t]
  BY DEF TakeSeat, CancelAndFinalize
<1> HIDE DEF t
<1>. QED
  BY <1>1, <1>2, <1>3, <1>4, OneRoomTimers

LEMMA TimerTimers ==
  ASSUME TypeOK, NEW r \in Rooms, TimerStep(r)
  PROVE  \A q \in Rooms : BotTimerMoves(q)
<1>1. timers[r] \in Timers
  BY LobbyParts
<1>2. CASE FirstPeriod(r) \/ SecondPeriod(r)
  <2>1. PICK w \in {"first", "second"} :
          LET t == [timers[r] EXCEPT !.armed = @ \ {w}]
          IN \/ timers' = [timers EXCEPT ![r] = t]
             \/ timers' = [timers EXCEPT ![r] = Cancelled(t)]
    <3>1. ASSUME NEW w, NEW l, WindowFired(r, w, l)
          PROVE  LET t == [timers[r] EXCEPT !.armed = @ \ {w}]
                 IN \/ timers' = [timers EXCEPT ![r] = t]
                    \/ timers' = [timers EXCEPT ![r] = Cancelled(t)]
      BY <3>1 DEF WindowFired, CancelAndFinalize
    <3>. QED
      BY <1>2, <3>1 DEF FirstPeriod, SecondPeriod
  <2> DEFINE t == [timers[r] EXCEPT !.armed = @ \ {w}]
  <2>2. t.bot = timers[r].bot /\ Cancelled(t).bot = timers[r].bot
    BY <1>1 DEF Cancelled, Timers
  <2>3. timers' = [timers EXCEPT ![r] = t] \/ timers' = [timers EXCEPT ![r] = Cancelled(t)]
    BY <2>1
  <2> HIDE DEF t
  <2>. QED
    BY <2>2, <2>3, OneRoomTimers
<1>3. CASE BotEntryIdle(r) \/ BotEntryFills(r)
  <2> DEFINE t == [timers[r] EXCEPT !.bot = @ - 1]
  <2>1. timers[r].bot > 0 /\ timers' = [timers EXCEPT ![r] = t]
    BY <1>3 DEF BotEntryIdle, BotEntryFills, BotTimerFires
  <2>2. t.bot = timers[r].bot - 1
    BY <1>1 DEF Timers
  <2> HIDE DEF t
  <2>. QED
    BY <2>1, <2>2, OneRoomTimers
<1>. QED
  BY <1>2, <1>3 DEF TimerStep

LEMMA NextTimers ==
  ASSUME TypeOK, [Next]_vars
  PROVE  \A q \in Rooms : BotTimerMoves(q)
<1>1. CASE timers' = timers
  BY <1>1 DEF BotTimerMoves
<1>2. ASSUME NEW r \in Rooms, timers' = [timers EXCEPT ![r] = Cancelled(timers[r])]
      PROVE  \A q \in Rooms : BotTimerMoves(q)
  <2>1. Cancelled(timers[r]).bot = timers[r].bot
    BY LobbyParts DEF Cancelled, Timers
  <2>. QED
    BY <1>2, <2>1, OneRoomTimers
<1>3. ASSUME NEW j \in Joins, JoinStep(j) \/ Call(j)
      PROVE  timers' = timers \/ TakeSeat(j)
  BY <1>3 DEF JoinStep, Call, Admit, ReadUser, CheckReferral, Charge, ChargeFails
<1>4. ASSUME NEW f \in DOMAIN fills, FillStep(f)
      PROVE  \/ timers' = timers
             \/ \E r \in Rooms : timers' = [timers EXCEPT ![r] = Cancelled(timers[r])]
  BY <1>4, LobbyParts DEF FillStep, BotJoins, FillFails, FillExits, EndFill,
     CancelAndFinalize, FillAbandons, FillContinues
<1>5. ASSUME NEW s \in DOMAIN starts, StartStep(s)
      PROVE  \/ timers' = timers
             \/ \E r \in Rooms : timers' = [timers EXCEPT ![r] = Cancelled(timers[r])]
  BY <1>5, LobbyParts DEF StartStep, ReadRoom, CreateMatch, Assign, Commit, StartFails,
     BeginCalling, Announce, StartAborts
<1>6. ASSUME NEW u \in Users, NEW a \in Prizes, Settle(u, a)
      PROVE  timers' = timers
  BY <1>6 DEF Settle
<1>. QED
  BY <1>1, <1>2, <1>3, <1>4, <1>5, <1>6, TakeSeatTimers, TimerTimers
     DEF Next, ServerStep, vars

FillClock == [window : 0..BotFillEnd, nap : Nat]

FillsTimed == fill \in Seq(FillClock) /\ Len(fill) = Len(fills)

BotsTimed ==
  \A r \in Rooms : /\ left[r].bots \in Seq(0..BotFillStart)
                   /\ Len(left[r].bots) = timers[r].bot

LEMMA BotsFollow ==
  ASSUME TypeOK, BotsTimed, TimersFollow, \A q \in Rooms : BotTimerMoves(q)
  PROVE  BotsTimed'
<1>1. SUFFICES ASSUME NEW r \in Rooms
               PROVE  /\ left'[r].bots \in Seq(0..BotFillStart)
                      /\ Len(left'[r].bots) = timers'[r].bot
  BY DEF BotsTimed
<1> DEFINE b == left[r].bots
<1>2. b \in Seq(0..BotFillStart) /\ Len(b) = timers[r].bot
  BY DEF BotsTimed
<1>3. left'[r].bots = IF timers'[r].bot > timers[r].bot THEN Append(b, BotFillStart)
                      ELSE IF timers'[r].bot < timers[r].bot THEN Tail(b) ELSE b
  BY DEF TimersFollow
<1>4. BotFillStart \in 0..BotFillStart
  BY Times
<1> HIDE DEF b
<1>5. /\ Append(b, BotFillStart) \in Seq(0..BotFillStart)
      /\ Len(Append(b, BotFillStart)) = Len(b) + 1
  BY <1>2, <1>4
<1>6. Len(b) > 0 => Tail(b) \in Seq(0..BotFillStart) /\ Len(Tail(b)) = Len(b) - 1
  BY <1>2
<1>7. Len(b) \in Nat
  BY <1>2
<1>8. CASE timers'[r].bot = timers[r].bot
  BY <1>2, <1>3, <1>7, <1>8
<1>9. CASE timers'[r].bot = timers[r].bot + 1
  <2>1. left'[r].bots = Append(b, BotFillStart)
    BY <1>2, <1>3, <1>7, <1>9
  <2>. QED
    BY <1>2, <1>5, <1>9, <2>1
<1>10. CASE timers[r].bot > 0 /\ timers'[r].bot = timers[r].bot - 1
  <2>1. left'[r].bots = Tail(b)
    BY <1>2, <1>3, <1>7, <1>10
  <2>. QED
    BY <1>2, <1>6, <1>10, <2>1
<1>. QED
  BY <1>8, <1>9, <1>10 DEF BotTimerMoves

LEMMA BotsTick == ASSUME BotsTimed, Tick PROVE BotsTimed'
<1>1. SUFFICES ASSUME NEW r \in Rooms
               PROVE  /\ left'[r].bots \in Seq(0..BotFillStart)
                      /\ Len(left'[r].bots) = timers'[r].bot
  BY DEF BotsTimed
<1> DEFINE b == left[r].bots
<1>2. b \in Seq(0..BotFillStart) /\ Len(b) = timers[r].bot
  BY DEF BotsTimed
<1>3. left'[r].bots = [i \in DOMAIN b |-> b[i] - 1] /\ timers' = timers
  BY DEF Tick, vars
<1>4. \A i \in DOMAIN b : b[i] > 0
  BY DEF Tick
<1> HIDE DEF b
<1>5. \A i \in DOMAIN b : b[i] - 1 \in 0..BotFillStart
  BY <1>2, <1>4, Times
<1> DEFINE C == 0..BotFillStart
<1>6. [i \in DOMAIN b |-> b[i] - 1] \in Seq(C)
  <2>1. b \in Seq(C) /\ \A i \in DOMAIN b : b[i] - 1 \in C
    BY <1>2, <1>5
  <2> HIDE DEF C
  <2>. QED
    BY <2>1
<1>7. Len([i \in DOMAIN b |-> b[i] - 1]) = Len(b)
  BY <1>2
<1>. QED
  BY <1>2, <1>3, <1>6, <1>7

\* Steps that begin no fill.
LEMMA FillsKept ==
  ASSUME FillsTimed, fill' = fill, Len(fills') = Len(fills)
  PROVE  FillsTimed'
BY DEF FillsTimed

LEMMA FillsStep ==
  ASSUME TypeOK, CountInv, FillsTimed, [ClockNext]_<<vars, clockVars>>
  PROVE  FillsTimed'
<1>1. fill \in Seq(FillClock) /\ Len(fill) = Len(fills) /\ fills \in Seq(Fill)
  BY DEF FillsTimed, TypeOK
<1>2. CASE Untimed
  <2>1. Len(fills') = Len(fills)
    <3>1. ASSUME NEW j \in Joins, Call(j) \/ JoinStep(j)
          PROVE  fills' = fills
      BY <3>1 DEF Call, JoinStep, Admit, ReadUser, CheckReferral, Charge, ChargeFails,
         TakeSeat
    <3>2. ASSUME NEW f \in DOMAIN fills, FillFails(f)
          PROVE  Len(fills') = Len(fills)
      BY <1>1, <3>2 DEF FillFails
    <3>3. ASSUME NEW s \in DOMAIN starts, StartStep(s)
          PROVE  fills' = fills
      BY <3>3 DEF StartStep, ReadRoom, CreateMatch, Assign, Commit, StartFails,
         BeginCalling, Announce, StartAborts
    <3>4. ASSUME NEW u \in Users, NEW a \in Prizes, Settle(u, a)
          PROVE  fills' = fills
      BY <3>4 DEF Settle
    <3>. QED
      BY <1>2, <3>1, <3>2, <3>3, <3>4 DEF Untimed
  <2>. QED
    BY <1>2, <2>1, FillsKept DEF Untimed
<1>3. ASSUME NEW s \in DOMAIN starts, Reset(s)
      PROVE  FillsTimed'
  BY <1>3, FillsKept DEF Reset, Announce
<1>4. ASSUME NEW r \in Rooms, FirstWindowEnds(r) \/ SecondWindowEnds(r)
      PROVE  FillsTimed'
  <2>1. fill' = fill /\ fills' = fills
    BY <1>4, SecondWindowShut DEF FirstWindowEnds, FirstPeriod, SecondWindowEnds,
       SecondWindowFills, SecondPeriod
  <2>. QED
    BY <2>1, FillsKept
<1>5. ASSUME NEW r \in Rooms, BotEntryTime(r)
      PROVE  FillsTimed'
  <2>1. CASE BotEntryFills(r) /\ FillBegun(r) /\ WindowOpen(age[r])
    <3> DEFINE g == [window |-> BotFillEnd - age[r], nap |-> 0]
    <3>1. age[r] \in 0..FirstWindow
      BY DEF CountInv
    <3>2. g \in FillClock /\ fill' = Append(fill, g)
      BY <2>1, <3>1, Times DEF WindowOpen, FillBegun, FillClock
    <3>3. PICK h : fills' = Append(fills, h)
      BY <2>1 DEF BotEntryFills
    <3> HIDE DEF g
    <3>. QED
      BY <1>1, <3>2, <3>3 DEF FillsTimed
  <2>2. CASE BotEntryIdle(r) /\ fill' = fill
    BY <2>2, FillsKept DEF BotEntryIdle
  <2>. QED
    BY <1>5, <2>1, <2>2 DEF BotEntryTime
<1>6. ASSUME NEW f \in DOMAIN fills, BotSitsDown(f)
      PROVE  FillsTimed'
  <2>1. PICK delay \in Nat : fill' = [fill EXCEPT ![f].nap = delay]
    BY <1>6, Times DEF BotSitsDown
  <2>2. f \in DOMAIN fill /\ fill[f] \in FillClock
    BY <1>1
  <2>3. [fill[f] EXCEPT !.nap = delay] \in FillClock
    BY <2>2 DEF FillClock
  <2>4. fill' \in Seq(FillClock) /\ Len(fill') = Len(fill)
    BY <1>1, <2>1, <2>2, <2>3
  <2>5. Len(fills') = Len(fills)
    BY <1>1, <1>6 DEF BotSitsDown, BotJoins
  <2>. QED
    BY <1>1, <2>4, <2>5 DEF FillsTimed
<1>7. ASSUME NEW f \in DOMAIN fills, FillWakes(f)
      PROVE  FillsTimed'
  <2>1. fill' = fill
    BY <1>7 DEF FillWakes
  <2>2. PICK g : fills' = [fills EXCEPT ![f] = g]
    BY <1>7 DEF FillWakes, FillAbandons, FillContinues, FillExits, EndFill
  <2>3. Len(fills') = Len(fills)
    BY <1>1, <2>2
  <2>. QED
    BY <2>1, <2>3, FillsKept
<1>8. CASE Tick
  <2>1. fill' = [f \in DOMAIN fill |-> [window |-> Down(fill[f].window),
                                       nap |-> Down(fill[f].nap)]]
        /\ fills' = fills
    BY <1>8 DEF Tick, vars
  <2>2. \A f \in DOMAIN fill : [window |-> Down(fill[f].window),
                                nap |-> Down(fill[f].nap)] \in FillClock
    <3>1. \A f \in DOMAIN fill : fill[f] \in FillClock
      BY <1>1
    <3>. QED
      BY <3>1, Times DEF Down, FillClock
  <2>3. fill' \in Seq(FillClock) /\ Len(fill') = Len(fill)
    BY <1>1, <2>1, <2>2
  <2>. QED
    BY <1>1, <2>1, <2>3 DEF FillsTimed
<1>9. CASE UNCHANGED <<vars, clockVars>>
  BY <1>9, FillsKept DEF vars, clockVars
<1>. QED
  BY <1>2, <1>3, <1>4, <1>5, <1>6, <1>7, <1>8, <1>9 DEF ClockNext

\* left is a table of countdowns, one record per room.
LeftShape ==
  left = [r \in Rooms |-> [first |-> left[r].first, second |-> left[r].second,
                           bots |-> left[r].bots]]

ClockTypeInv == ClockInv /\ FillsTimed /\ BotsTimed /\ LeftShape

LEMMA ClockTypeInit == ClockInit => ClockTypeInv
<1> SUFFICES ASSUME ClockInit
             PROVE  ClockTypeInv
  OBVIOUS
<1>1. FillsTimed /\ LeftShape
  BY DEF ClockInit, Init, FillsTimed, LeftShape
<1>2. BotsTimed
  <2>1. \A r \in Rooms : left[r].bots = <<>> /\ timers[r].bot = 0
    BY DEF ClockInit, Init, NoTimers
  <2>2. <<>> \in Seq(0..BotFillStart) /\ Len(<<>>) = 0
    OBVIOUS
  <2>. QED
    BY <2>1, <2>2 DEF BotsTimed
<1>. QED
  BY <1>1, <1>2, ClockInvInit DEF ClockTypeInv

LEMMA ClockTypeStep ==
  ClockTypeInv /\ [ClockNext]_<<vars, clockVars>> => ClockTypeInv'
<1> SUFFICES ASSUME ClockTypeInv, [ClockNext]_<<vars, clockVars>>
             PROVE  ClockTypeInv'
  OBVIOUS
<1>1. ClockInv' /\ FillsTimed'
  BY ClockInvStep, FillsStep DEF ClockTypeInv, ClockInv
<1>2. TypeOK /\ \A q \in Rooms : BotTimerMoves(q)
  BY StepImplements, NextTimers DEF ClockTypeInv, ClockInv
<1>3. TimersFollow \/ Tick \/ UNCHANGED <<left, timers>>
  BY DEF ClockNext, Untimed, Reset, FirstWindowEnds, SecondWindowEnds, BotEntryTime,
     BotSitsDown, FillWakes, vars, clockVars
<1>4. BotsTimed'
  <2>1. CASE UNCHANGED <<left, timers>>
    BY <2>1 DEF ClockTypeInv, BotsTimed
  <2>. QED
    BY <1>2, <1>3, <2>1, BotsFollow, BotsTick DEF ClockTypeInv
<1>5. LeftShape'
  BY <1>3 DEF ClockTypeInv, LeftShape, TimersFollow, Tick
<1>. QED
  BY <1>1, <1>4, <1>5 DEF ClockTypeInv

\* Every variable of the clock keeps its type; every bot-entry timer has a
\* countdown and every fill loop a window: ClockTypeOK for every instance.
THEOREM ClockTypesCorrect == ClockSpec => []ClockTypeOK
<1>1. ASSUME ClockTypeInv
      PROVE  ClockTypeOK
  <2>1. \A r \in Rooms : /\ left[r].first \in 0..FirstWindow
                         /\ left[r].second \in 0..(FirstWindow + SecondWindow)
                         /\ left[r].bots \in Seq(0..BotFillStart)
    BY <1>1 DEF ClockTypeInv, ClockInv, CountInv, WindowsCount, BotsTimed
  <2>2. left \in [Rooms -> Countdowns]
    BY <1>1, <2>1 DEF ClockTypeInv, LeftShape, Countdowns
  <2>. QED
    BY <1>1, <2>2 DEF ClockTypeInv, ClockInv, CountInv, FillsTimed, FillClock, BotsTimed,
       ClockTypeOK
<1>. QED
  BY <1>1, ClockTypeInit, ClockTypeStep, PTL DEF ClockSpec

=============================================================================
