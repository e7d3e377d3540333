---------------------------- MODULE MCLobbyClock ----------------------------
(***************************************************************************)
(* A small instance of LobbyClock. A unit of time is 20 s, so the 20 s,    *)
(* 80 s and twice 180 s of the program are 1, 4, 9 and 9 units; the 5 to   *)
(* 15 s between two bots pass within a unit or reach into the next. The    *)
(* second that the waiting time is rounded to is 3 units, which makes it   *)
(* longer than a unit, as the rounding would not be seen otherwise.        *)
(***************************************************************************)
EXTENDS LobbyClock, TLC

Fees == [r \in Rooms |-> 1]
Credits == [u \in Users |-> 2]
NoInviter == [u \in Users |-> BOT]
Symmetry == Permutations(Joins)
=============================================================================
