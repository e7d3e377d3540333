----------------------------- MODULE MCPlayers -----------------------------
(***************************************************************************)
(* A small instance of Players: two registrations for two names and codes, *)
(* three completions, two of a user at once, for one phone number, and a   *)
(* fill that creates two bots.                                             *)
(***************************************************************************)
EXTENDS Players, TLC

\* Sound for safety: nothing tells these apart.
Symmetry ==
  Permutations(Registrations) \cup Permutations(Completions)
    \cup Permutations(Phones)
    \cup Permutations(Names) \cup Permutations(Codes) \cup Permutations(Fills)
=============================================================================
