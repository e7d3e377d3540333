------------------------------ MODULE MCMatch ------------------------------
(***************************************************************************)
(* Small instances of Match: five numbers instead of 90, cards of two      *)
(* disjoint rows of two numbers instead of three of five. A card in each   *)
(* row of which another one has a number, and a number more than a card    *)
(* takes, let prizes be split, lines coincide and calls go on after them.  *)
(***************************************************************************)
EXTENDS Match, TLC

CONSTANTS a, c, d, z, t1, t2

\* a and z share a line; z alone has one without 1 and 2; d sits in the match
\* without a card, as MIN_ROOM_CARDS = 0 allows.
FourPlayers == (a :> {{{1, 2}, {3, 4}}}) @@ (z :> {{{1, 2}, {3, 5}}})
                 @@ (c :> {{{1, 3}, {2, 4}}}) @@ (d :> {})

\* The overlap runs: both have a full house once 1 to 4 are called.
TwoPlayers == (a :> {{{1, 2}, {3, 4}}}) @@ (z :> {{{1, 3}, {2, 4}}})

\* Sound for invariants: the ticks are not told apart.
TickSymmetry == Permutations(Ticks)
=============================================================================
