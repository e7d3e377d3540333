------------------------------- MODULE Ledger -------------------------------
(***************************************************************************)
(* What a player may rely on: no credit ever changes without a ledger row  *)
(* that tells by how much and what it became, rows are never altered, and  *)
(* a player without a row has no credit. The balance a row calls the one   *)
(* before may be out of date, but it is one the player has had.            *)
(***************************************************************************)
EXTENDS Integers, Sequences

CONSTANT Users

VARIABLES credit, entries \* entries: the rows as [user, amount, before, after]

vars == <<credit, entries>>

Init ==
  /\ credit = [u \in Users |-> 0]
  /\ entries = <<>>

\* The balances u has had.
Balances(u) ==
  {0} \cup {entries[i].after : i \in {k \in DOMAIN entries : entries[k].user = u}}

\* The credit of u changes, by whatever amount, and no other does.
Post(u) ==
  /\ credit' = [credit EXCEPT ![u] = credit'[u]]
  /\ \E before \in Balances(u) :
       entries' = Append(entries, [user |-> u, amount |-> credit'[u] - credit[u],
                                   before |-> before, after |-> credit'[u]])

Next == \E u \in Users : Post(u)

Spec == Init /\ [][Next]_vars
=============================================================================
