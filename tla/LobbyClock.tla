----------------------------- MODULE LobbyClock -----------------------------
(***************************************************************************)
(* Lobby with its times: the waiting windows and the bot-entry timer count *)
(* from the first seat, the end of the bot window and the waiting time     *)
(* shown to clients from createdAt, that is from the last reset. A timer   *)
(* is a countdown that fires when it reaches 0, before time goes on; what  *)
(* the database takes to answer is any time at all.                        *)
(***************************************************************************)
EXTENDS Lobby

CONSTANTS
  FirstWindow,   \* FIRST_WINDOW_MS
  SecondWindow,  \* SECOND_WINDOW_MS
  BotFillStart,  \* BOT_FILL_START_SECOND
  BotFillEnd,    \* BOT_FILL_END_SECOND
  BotFillDelays, \* what a fill may sleep between two bots
  Second         \* a second, in units of time

ASSUME TimesAssumption ==
  /\ {FirstWindow, SecondWindow, BotFillStart, BotFillEnd, Second} \subseteq Nat \ {0}
  /\ BotFillDelays \subseteq Nat
  /\ BotFillEnd <= FirstWindow /\ MaxBotsPerMatch > 0

VARIABLES
  age,   \* Rooms -> time since createdAt, counted up to FirstWindow
  left,  \* Rooms -> countdowns: first, second, bots (one per bot-entry timer)
  fill   \* per element of fills: window (until its BotFillEnd), nap (its sleep)

clockVars == <<age, left, fill>>

Countdowns == [first : 0..FirstWindow, second : 0..(FirstWindow + SecondWindow),
               bots : Seq(0..BotFillStart)]

\* The types, and with them that a fill begins while its bot window is open.
ClockTypeOK ==
  /\ age \in [Rooms -> 0..FirstWindow]
  /\ left \in [Rooms -> Countdowns]
  /\ fill \in Seq([window : 0..BotFillEnd, nap : Nat])
  /\ Len(fill) = Len(fills)
  /\ \A r \in Rooms : Len(left[r].bots) = timers[r].bot

\* Mutant: the fill never looks at the clock.
WindowAlwaysOpen(time) == TRUE

\* elapsedSec < BOT_FILL_END_SECOND
WindowOpen(time) == time < BotFillEnd

\* Math.floor(time / 1000), in units of time
WholeSeconds(time) == time - (time % Second)

\* getRemainingSeconds
RemainingTime(r) == Max({0, WholeSeconds(FirstWindow) - WholeSeconds(age[r])})

ClockInit ==
  /\ Init
  /\ age = [r \in Rooms |-> 0]
  /\ left = [r \in Rooms |-> [first |-> 0, second |-> 0, bots |-> <<>>]]
  /\ fill = <<>>

-----------------------------------------------------------------------------
(* Timers start and stop with the steps of the lobby                       *)

\* The countdown of window w: set when it is armed, 0 when it is not.
WindowLeft(r, w, time, length) ==
  IF w \notin timers'[r].armed THEN 0
  ELSE IF w \in timers[r].armed THEN time ELSE length

TimersFollow ==
  left' = [r \in Rooms |->
    [first |-> WindowLeft(r, "first", left[r].first, FirstWindow),
     second |-> WindowLeft(r, "second", left[r].second, FirstWindow + SecondWindow),
     bots |-> IF timers'[r].bot > timers[r].bot THEN Append(left[r].bots, BotFillStart)
              ELSE IF timers'[r].bot < timers[r].bot THEN Tail(left[r].bots)
              ELSE left[r].bots]]

\* Steps that neither read the clock nor set createdAt.
Untimed ==
  /\ \/ \E j \in Joins : Call(j) \/ JoinStep(j)
     \/ \E f \in DOMAIN fills : FillFails(f)
     \/ \E s \in DOMAIN starts : StartStep(s) /\ ~ Announce(s)
     \/ \E u \in Users, a \in Prizes : Settle(u, a)
  /\ TimersFollow
  /\ UNCHANGED <<age, fill>>

\* Mutant: resetLobby keeps createdAt.
ResetKeepsAge(r) == UNCHANGED age

\* resetLobby sets createdAt.
Created(r) == age' = [age EXCEPT ![r] = 0]

Reset(s) ==
  /\ Announce(s)
  /\ Created(starts[s].room)
  /\ TimersFollow
  /\ UNCHANGED fill

-----------------------------------------------------------------------------
(* Steps at their time                                                     *)

FirstWindowEnds(r) ==
  /\ left[r].first = 0
  /\ FirstPeriod(r)
  /\ TimersFollow
  /\ UNCHANGED <<age, fill>>

\* The windowStart of a fill is the createdAt it finds when it begins.
FillBegun(r) == fill' = Append(fill, [window |-> BotFillEnd - age[r], nap |-> 0])

\* handleSecondPeriodTime calls startBotFill, whose loop looks at the clock.
SecondWindowFills(r) ==
  /\ "second" \in timers[r].armed
  /\ lobby' = [lobby EXCEPT ![r].second = TRUE, ![r].filling = TRUE]
  /\ timers' = [timers EXCEPT ![r].armed = @ \ {"second"}]
  /\ fills' = Append(fills, [pc |-> "bot", room |-> r, added |-> 0,
                             cards |-> BotCardCount(RealPlayerCards(lobby[r].players))])
  /\ FillBegun(r)
  /\ UNCHANGED <<request, pc, credit, starts>>

SecondWindowEnds(r) ==
  /\ left[r].second = 0
  /\ IF BotsWanted(r) /\ WindowOpen(age[r])
     THEN SecondWindowFills(r)
     ELSE SecondPeriod(r) /\ UNCHANGED fill
  /\ TimersFollow
  /\ UNCHANGED age

BotEntryTime(r) ==
  /\ left[r].bots # <<>> /\ Head(left[r].bots) = 0
  /\ IF BotsWanted(r) /\ WindowOpen(age[r])
     THEN BotEntryFills(r) /\ FillBegun(r)
     ELSE BotEntryIdle(r) /\ UNCHANGED fill
  /\ TimersFollow
  /\ UNCHANGED age

BotSitsDown(f) ==
  /\ BotJoins(f)
  /\ \E delay \in BotFillDelays : fill' = [fill EXCEPT ![f].nap = delay]
  /\ TimersFollow
  /\ UNCHANGED age

\* The conditions of the loop, in its order: the count, the window, the
\* status, the quorum.
FillWakes(f) ==
  LET l == lobby[fills[f].room]
      over == fills[f].added >= MaxBotsPerMatch \/ fill[f].window = 0
  IN /\ fill[f].nap = 0
     /\ \/ ~ over /\ (FillAbandons(f) \/ FillContinues(f))
        \/ /\ over \/ (l.status = "WAITING" /\ l.totalCards >= MinCardsToStart)
           /\ FillExits(f)
     /\ TimersFollow
     /\ UNCHANGED <<age, fill>>

Down(n) == IF n > 0 THEN n - 1 ELSE 0

\* Time goes on unless a timer is due.
Tick ==
  /\ \A r \in Rooms :
       /\ "first" \in timers[r].armed => left[r].first > 0
       /\ "second" \in timers[r].armed => left[r].second > 0
       /\ \A i \in DOMAIN left[r].bots : left[r].bots[i] > 0
  /\ \A f \in DOMAIN fills : fills[f].pc = "sleep" => fill[f].nap > 0
  /\ age' = [r \in Rooms |-> IF age[r] < FirstWindow THEN age[r] + 1 ELSE age[r]]
  /\ left' = [r \in Rooms |->
       [first |-> Down(left[r].first), second |-> Down(left[r].second),
        bots |-> [i \in DOMAIN left[r].bots |-> left[r].bots[i] - 1]]]
  /\ fill' = [f \in DOMAIN fill |-> [window |-> Down(fill[f].window),
                                     nap |-> Down(fill[f].nap)]]
  /\ UNCHANGED vars

-----------------------------------------------------------------------------
ClockNext ==
  \/ Untimed
  \/ \E s \in DOMAIN starts : Reset(s)
  \/ \E r \in Rooms : FirstWindowEnds(r) \/ SecondWindowEnds(r) \/ BotEntryTime(r)
  \/ \E f \in DOMAIN fills : BotSitsDown(f) \/ FillWakes(f)
  \/ Tick

ClockSpec == ClockInit /\ [][ClockNext]_<<vars, clockVars>>

-----------------------------------------------------------------------------
(* Properties                                                              *)

\* The times only restrict the lobby: whatever it does by the clock, Lobby
\* allows. In particular the fill that the second window calls adds no bot,
\* as createdAt lies further back than the end of the bot window by then.
ImplementsLobby == Spec

\* The waiting time shown to clients counts from another moment than the
\* window it stands for, and in whole seconds: it never shows a second more
\* than there is left to wait. (Less than a second more it does show, to one
\* who comes soon after createdAt.)
ShownTimeHolds ==
  \A r \in Rooms :
    "first" \in timers[r].armed => RemainingTime(r) < left[r].first + Second

=============================================================================
