------------------------------ MODULE MCLobby ------------------------------
(***************************************************************************)
(* Small instances of Lobby. The limits of the program (30 cards, quorum   *)
(* of 5, 15 bots, bots of BOT_MIN_CARDS to BOT_MAX_CARDS cards) shrink in  *)
(* proportion; the order between them stays.                               *)
(***************************************************************************)
EXTENDS Lobby, TLC

CONSTANTS u1, u2, j1, j2, j3, r1, r2

Fees == [r \in Rooms |-> 1]
Credits == [u \in Users |-> 2]
NoInviter == [u \in Users |-> BOT]
\* u1 invited u2.
OneInviter == [u \in Users |-> IF u = u2 THEN u1 ELSE BOT]
\* Sound without an inviter: neither joins nor users are told apart.
Symmetry == Permutations(Joins) \cup Permutations(Users)
=============================================================================
