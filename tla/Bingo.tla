------------------------------- MODULE Bingo -------------------------------
(***************************************************************************)
(* The game a match promises its players, without ticks, database or       *)
(* memory. Numbers are called one by one. Everyone who has a line shares   *)
(* the line prize, and the line prize is offered until a real player got   *)
(* a share. The first full house ends the game, and everyone who has one   *)
(* shares the full-house prize; a line still to be awarded comes first. A  *)
(* game without a full house ends when there is no number left. Where      *)
(* newcomers play, the prizes are theirs.                                  *)
(***************************************************************************)
EXTENDS Integers, FiniteSets

CONSTANTS Players, Bots, Numbers, Cards, LinePool, FullPool

VARIABLES newcomers, called, line, full, taken, closed, paid

vars == <<newcomers, called, line, full, taken, closed, paid>>

\* Who plays for the prizes. A newcomer without cards may spoil the privilege.
Eligible ==
  IF newcomers = {} THEN {Players}
  ELSE IF \E p \in newcomers : Cards[p] = {} THEN {Players, newcomers}
  ELSE {newcomers}

HasLine(p) == \E card \in Cards[p] : \E row \in card : row \subseteq called
HasFullHouse(p) == \E card \in Cards[p] : \A row \in card : row \subseteq called

NewLines(E) == {p \in E \ line : HasLine(p)}

\* An equal share, rounded to the nearest unit.
Share(amounts, W, pool) ==
  LET n == Cardinality(W)
  IN [p \in Players |->
        amounts[p] + IF p \in W THEN (2 * pool + n) \div (2 * n) ELSE 0]

Init ==
  /\ newcomers \in SUBSET (Players \ Bots)
  /\ called = {} /\ line = {} /\ full = {}
  /\ taken = FALSE /\ closed = FALSE
  /\ paid = [line |-> [p \in Players |-> 0], full |-> [p \in Players |-> 0]]

Call(n) ==
  /\ n \notin called
  /\ called' = called \cup {n}
  /\ UNCHANGED <<newcomers, line, full, taken, closed, paid>>

AwardLine(W) ==
  /\ ~ taken
  /\ W # {}
  /\ line' = line \cup W
  /\ taken' = (W \ Bots # {})
  /\ paid' = [paid EXCEPT !.line = Share(@, W, LinePool)]
  /\ UNCHANGED <<newcomers, called, full, closed>>

AwardFullHouse(E) ==
  LET W == {p \in E : HasFullHouse(p)}
  IN /\ W # {}
     /\ taken \/ NewLines(E) = {}
     /\ full' = W
     /\ closed' = TRUE
     /\ paid' = [paid EXCEPT !.full = Share(@, W, FullPool)]
     /\ UNCHANGED <<newcomers, called, line, taken>>

RunOut ==
  /\ called = Numbers
  /\ closed' = TRUE
  /\ UNCHANGED <<newcomers, called, line, full, taken, paid>>

Next ==
  /\ ~ closed
  /\ \/ \E n \in Numbers : Call(n)
     \/ \E E \in Eligible : AwardLine(NewLines(E)) \/ AwardFullHouse(E)
     \/ RunOut

Spec == Init /\ [][Next]_vars
=============================================================================
