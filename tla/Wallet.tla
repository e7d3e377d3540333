------------------------------- MODULE Wallet -------------------------------
(***************************************************************************)
(* The money of the registered users: what enterLobby takes from a credit  *)
(* and MatchPrizeService.settle adds to it, each with its ledger row. Both *)
(* read the credit first and change it later, by an amount relative to the *)
(* credit of then; other requests of the user run in between.              *)
(***************************************************************************)
EXTENDS Accounts, Functions

CONSTANTS
  Payments, Costs,  \* enterLobby calls and what a seat may cost
  Prizes, Amounts   \* settle calls and what a win may pay

ASSUME AmountsAssumption == Costs \subseteq Nat /\ Amounts \subseteq Nat \ {0}

VARIABLES
  pay,   \* Payments -> pc, user, amount, read (the credit that was compared)
  prize  \* Prizes -> the same, of a settlement

walletVars == <<pay, prize>>

Transfer == [pc : {"idle", "write", "done"}, user : Users \cup {NONE},
             amount : Nat, read : Int]

WalletTypeOK ==
  /\ pay \in [Payments -> Transfer]
  /\ prize \in [Prizes -> Transfer]

NoTransfer == [pc |-> "idle", user |-> NONE, amount |-> 0, read |-> 0]

WalletInit ==
  /\ pay = [p \in Payments |-> NoTransfer]
  /\ prize = [w \in Prizes |-> NoTransfer]

-----------------------------------------------------------------------------
(* enterLobby                                                              *)

ReadBalance(p) ==
  /\ pay[p].pc = "idle"
  /\ \E u \in registered, cost \in Costs :
       /\ users[u].credit >= cost
       /\ pay' = [pay EXCEPT ![p] = [pc |-> "write", user |-> u, amount |-> cost,
                                    read |-> users[u].credit]]
  /\ UNCHANGED <<accountVars, prize>>

\* Mutant: the credit is set to what the balance read leaves.
ChargeFromRead(p) ==
  LET k == pay[p]
  IN /\ k.pc = "write"
     /\ users' = [users EXCEPT ![k.user].credit = k.read - k.amount]
     /\ ledger' = Append(ledger, LedgerRow(k.user, "GAME_ENTRY", 0 - k.amount, k.read))
     /\ pay' = [pay EXCEPT ![p].pc = "done"]
     /\ UNCHANGED <<registered, referrals, reg, comp, session, prize>>

Charge(p) ==
  LET k == pay[p]
  IN /\ k.pc = "write"
     /\ users' = [users EXCEPT ![k.user].credit = @ - k.amount]
     /\ ledger' = Append(ledger, LedgerRow(k.user, "GAME_ENTRY", 0 - k.amount, k.read))
     /\ pay' = [pay EXCEPT ![p].pc = "done"]
     /\ UNCHANGED <<registered, referrals, reg, comp, session, prize>>

ChargeFails(p) ==
  /\ pay[p].pc = "write" /\ "charge" \in Failures
  /\ pay' = [pay EXCEPT ![p] = NoTransfer]
  /\ UNCHANGED <<accountVars, prize>>

-----------------------------------------------------------------------------
(* settle, inside the transaction of a declaration                         *)

ReadCredit(w) ==
  /\ prize[w].pc = "idle"
  /\ \E u \in registered, amount \in Amounts :
       prize' = [prize EXCEPT ![w] = [pc |-> "write", user |-> u, amount |-> amount,
                                      read |-> users[u].credit]]
  /\ UNCHANGED <<accountVars, pay>>

\* Read committed: another transaction may have changed the credit since. The
\* update locks the row until the commit, so the rest happens at once.
Settle(w) ==
  LET k == prize[w]
  IN /\ k.pc = "write"
     /\ users' = [users EXCEPT ![k.user].credit = @ + k.amount,
                               ![k.user].withdrawable = @ + k.amount]
     /\ ledger' = Append(ledger, LedgerRow(k.user, "WINNING", k.amount, k.read))
     /\ prize' = [prize EXCEPT ![w].pc = "done"]
     /\ UNCHANGED <<registered, referrals, reg, comp, session, pay>>

SettleFails(w) ==
  /\ prize[w].pc = "write" /\ "settle" \in Failures
  /\ prize' = [prize EXCEPT ![w] = NoTransfer]
  /\ UNCHANGED <<accountVars, pay>>

WalletNext ==
  \/ \E p \in Payments : ReadBalance(p) \/ Charge(p) \/ ChargeFails(p)
  \/ \E w \in Prizes : ReadCredit(w) \/ Settle(w) \/ SettleFails(w)

-----------------------------------------------------------------------------
(* Properties                                                              *)

Posted(u, types) ==
  SumFunctionOnSet([i \in DOMAIN ledger |-> ledger[i].amount],
                   {i \in DOMAIN ledger : ledger[i].user = u /\ ledger[i].type \in types})

\* The credit of a user is the sum of his ledger rows, and what he may withdraw
\* the sum of his winnings, whatever payments and prizes overlap or fail.
LedgerAddsUp ==
  \A u \in Users :
    /\ users[u].credit = Posted(u, {"GIFT", "GAME_ENTRY", "WINNING"})
    /\ users[u].withdrawable = Posted(u, {"WINNING"})

\* The rows of the database are a ledger: every step that changes a credit
\* adds the row that says so, with the balance it really became. The one it
\* calls the balance before was read earlier, but the user has had it.
Book == INSTANCE Ledger WITH
  credit <- [u \in Users |-> users[u].credit],
  entries <- [i \in DOMAIN ledger |-> [user |-> ledger[i].user,
                amount |-> ledger[i].amount, before |-> ledger[i].before,
                after |-> ledger[i].after]]
KeepsLedger == Book!Spec

=============================================================================
