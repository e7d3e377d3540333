------------------------------ MODULE Accounts ------------------------------
(***************************************************************************)
(* Registration, completion and sign-in: src/src/auth/services/            *)
(* auth.service.ts with referral/, on the tables User, Transaction and     *)
(* Referral. A request is a process with one action per answer of the      *)
(* database; what it looked up may have changed by the time it writes. The *)
(* unique keys of the tables have the last word. A request that is refused *)
(* leaves nothing behind and may be sent again with other data.            *)
(*                                                                         *)
(* A password is identified with the completion that chose it. Tokens,     *)
(* hashing and the profile columns nobody reads back are left out.         *)
(***************************************************************************)
EXTENDS Integers, Sequences, FiniteSets

CONSTANTS
  Registrations, \* register-guest requests; each names the user it creates
  Completions,   \* complete-account requests
  SignIns,       \* sign-in requests
  Names, Codes, Phones,
  NONE,          \* null
  GIFT_AMOUNT,
  MaxPending,    \* bound: completions of one user under way at once
  Failures       \* transactions that the database may fail

Users == Registrations

ASSUME AccountsAssumption ==
  /\ NONE \notin Users \cup Completions \cup Names \cup Codes \cup Phones
  /\ IsFiniteSet(Completions)
  /\ GIFT_AMOUNT \in Nat \ {0} /\ MaxPending \in Nat
  /\ Failures \subseteq {"create", "update", "charge", "settle"}

VARIABLES
  registered, \* the ids that have a User row
  users,      \* Users -> the row
  ledger,     \* the Transaction rows, in order of commit
  referrals,  \* the Referral rows: <<referrer, referred>>
  reg,        \* Registrations -> pc, name, invite (the code given), code
              \*   (the one drawn), referrer
  comp,       \* Completions -> pc, user, phone
  session     \* SignIns -> pc, user, offered password, password read

accountVars == <<registered, users, ledger, referrals, reg, comp, session>>

-----------------------------------------------------------------------------
(* Types                                                                   *)

User == [name : Names \cup {NONE}, code : Codes \cup {NONE},
         referrer : Users \cup {NONE}, credit : Int, withdrawable : Int,
         isGuest : BOOLEAN, phone : Phones \cup {NONE},
         password : Completions \cup {NONE}]

Row == [user : Users, type : {"GIFT", "GAME_ENTRY", "WINNING"},
        amount : Int, before : Int, after : Int]

Registration ==
  [pc : {"idle", "code", "referrer", "create", "done"},
   name : Names \cup {NONE}, invite : Codes \cup {NONE},
   code : Codes \cup {NONE}, referrer : Users \cup {NONE}]

Completion ==
  [pc : {"idle", "phone", "update", "done"}, user : Users \cup {NONE},
   phone : Phones \cup {NONE}]

Session ==
  [pc : {"idle", "compare", "in"}, user : Users \cup {NONE},
   offered : Completions \cup {NONE}, read : Completions \cup {NONE}]

AccountsTypeOK ==
  /\ registered \subseteq Users
  /\ users \in [Users -> User]
  /\ ledger \in Seq(Row)
  /\ referrals \subseteq Users \X Users
  /\ reg \in [Registrations -> Registration]
  /\ comp \in [Completions -> Completion]
  /\ session \in [SignIns -> Session]

-----------------------------------------------------------------------------
(* The tables                                                              *)

\* The columns before registerGuest wrote them.
Unwritten == [name |-> NONE, code |-> NONE, referrer |-> NONE, credit |-> 0,
              withdrawable |-> 0, isGuest |-> TRUE, phone |-> NONE,
              password |-> NONE]

NameTaken(name) == \E u \in registered : users[u].name = name
CodeTaken(code) == \E u \in registered : users[u].code = code
PhoneTaken(phone) == \E u \in registered : users[u].phone = phone

\* Mutant: balanceAfter is computed from the balance read before.
LedgerRowComputed(u, type, amount, before) ==
  [user |-> u, type |-> type, amount |-> amount,
   before |-> before, after |-> before + amount]

\* balanceAfter is what the update returned, balanceBefore what was read.
LedgerRow(u, type, amount, before) ==
  [user |-> u, type |-> type, amount |-> amount,
   before |-> before, after |-> users[u].credit + amount]

NoRegistration == [pc |-> "idle", name |-> NONE, invite |-> NONE, code |-> NONE,
                   referrer |-> NONE]
NoCompletion == [pc |-> "idle", user |-> NONE, phone |-> NONE]
NoSession == [pc |-> "idle", user |-> NONE, offered |-> NONE, read |-> NONE]

\* The request of q is answered with an error.
RegistrationRefused(q) == reg' = [reg EXCEPT ![q] = NoRegistration]
CompletionRefused(c) == comp' = [comp EXCEPT ![c] = NoCompletion]

-----------------------------------------------------------------------------
AccountsInit ==
  /\ registered = {}
  /\ users = [u \in Users |-> Unwritten]
  /\ ledger = <<>>
  /\ referrals = {}
  /\ reg = [q \in Registrations |-> NoRegistration]
  /\ comp = [c \in Completions |-> NoCompletion]
  /\ session = [s \in SignIns |-> NoSession]

-----------------------------------------------------------------------------
(* registerGuest                                                           *)

Register(q) ==
  /\ reg[q].pc = "idle"
  /\ \E name \in Names, invite \in Codes \cup {NONE} :
       /\ ~ NameTaken(name)
       /\ reg' = [reg EXCEPT ![q] = [@ EXCEPT
                    !.pc = "code", !.name = name, !.invite = invite]]
  /\ UNCHANGED <<registered, users, ledger, referrals, comp, session>>

\* generateUniqueCode: a code in use is drawn again, 100 times at most.
DrawCode(q) ==
  /\ reg[q].pc = "code"
  /\ \/ \E code \in Codes :
          /\ ~ CodeTaken(code)
          /\ reg' = [reg EXCEPT ![q].code = code,
                       ![q].pc = IF reg[q].invite = NONE THEN "create" ELSE "referrer"]
     \/ /\ \E code \in Codes : CodeTaken(code)
        /\ RegistrationRefused(q)
  /\ UNCHANGED <<registered, users, ledger, referrals, comp, session>>

\* Mutant: a code drawn by a registration still under way will do.
ValidateReferrerEarly(q) ==
  /\ reg[q].pc = "referrer"
  /\ \E u \in Users : reg[u].code = reg[q].invite
       /\ reg' = [reg EXCEPT ![q].referrer = u, ![q].pc = "create"]
  /\ UNCHANGED <<registered, users, ledger, referrals, comp, session>>

ValidateReferrer(q) ==
  /\ reg[q].pc = "referrer"
  /\ \/ \E u \in registered :
          /\ users[u].code = reg[q].invite
          /\ reg' = [reg EXCEPT ![q].referrer = u, ![q].pc = "create"]
     \/ /\ ~ CodeTaken(reg[q].invite)
        /\ RegistrationRefused(q)
  /\ UNCHANGED <<registered, users, ledger, referrals, comp, session>>

\* The unique keys of User that a guest has values for.
KeysFree(q) == ~ NameTaken(reg[q].name) /\ ~ CodeTaken(reg[q].code)

NewUser(q) ==
  [Unwritten EXCEPT !.name = reg[q].name, !.code = reg[q].code,
                    !.referrer = reg[q].referrer, !.credit = GIFT_AMOUNT]

\* The transaction: the user, the gift, the referral.
CreateUser(q) ==
  /\ reg[q].pc = "create"
  /\ KeysFree(q)
  /\ registered' = registered \cup {q}
  /\ users' = [users EXCEPT ![q] = NewUser(q)]
  /\ ledger' = Append(ledger, LedgerRow(q, "GIFT", GIFT_AMOUNT, 0))
  /\ referrals' = IF reg[q].referrer = NONE THEN referrals
                  ELSE referrals \cup {<<reg[q].referrer, q>>}
  /\ reg' = [reg EXCEPT ![q].pc = "done"]
  /\ UNCHANGED <<comp, session>>

\* A unique key or the database refuses; everything is rolled back.
CreateFails(q) ==
  /\ reg[q].pc = "create"
  /\ ~ KeysFree(q) \/ "create" \in Failures
  /\ RegistrationRefused(q)
  /\ UNCHANGED <<registered, users, ledger, referrals, comp, session>>

-----------------------------------------------------------------------------
(* completeAccount, by the user of a token                                 *)

UnderWay(u) == {c \in Completions : comp[c].user = u /\ comp[c].pc \in {"phone", "update"}}

\* Mutant: an account may be completed again.
CompleteAgain(c) ==
  /\ comp[c].pc = "idle"
  /\ \E u \in registered, phone \in Phones :
       /\ Cardinality(UnderWay(u)) < MaxPending
       /\ comp' = [comp EXCEPT ![c] = [pc |-> "phone", user |-> u, phone |-> phone]]
  /\ UNCHANGED <<registered, users, ledger, referrals, reg, session>>

Complete(c) ==
  /\ comp[c].pc = "idle"
  /\ \E u \in registered, phone \in Phones :
       /\ Cardinality(UnderWay(u)) < MaxPending
       /\ users[u].isGuest
       /\ comp' = [comp EXCEPT ![c] = [pc |-> "phone", user |-> u, phone |-> phone]]
  /\ UNCHANGED <<registered, users, ledger, referrals, reg, session>>

CheckPhone(c) ==
  /\ comp[c].pc = "phone"
  /\ IF PhoneTaken(comp[c].phone) THEN CompletionRefused(c)
                                    ELSE comp' = [comp EXCEPT ![c].pc = "update"]
  /\ UNCHANGED <<registered, users, ledger, referrals, reg, session>>

\* Mutant: the schema has no unique key on the phone number.
PhoneAlwaysFree(c) == TRUE

\* The unique key on phoneNumber, when the row of the user is updated.
PhoneFree(c) ==
  \A u \in registered \ {comp[c].user} : users[u].phone # comp[c].phone

\* The password was hashed meanwhile; isGuest is not looked at again.
UpdateAccount(c) ==
  /\ comp[c].pc = "update"
  /\ PhoneFree(c)
  /\ users' = [users EXCEPT ![comp[c].user] =
                 [@ EXCEPT !.phone = comp[c].phone, !.password = c, !.isGuest = FALSE]]
  /\ comp' = [comp EXCEPT ![c].pc = "done"]
  /\ UNCHANGED <<registered, ledger, referrals, reg, session>>

CompleteFails(c) ==
  /\ comp[c].pc = "update"
  /\ ~ PhoneFree(c) \/ "update" \in Failures
  /\ CompletionRefused(c)
  /\ UNCHANGED <<registered, users, ledger, referrals, reg, session>>

-----------------------------------------------------------------------------
(* signIn                                                                  *)

\* The user is read by name; a guest, or a row without password, is refused.
SignIn(s) ==
  /\ session[s].pc = "idle"
  /\ \E u \in registered, offered \in Completions :
       /\ ~ users[u].isGuest /\ users[u].password # NONE
       /\ session' = [session EXCEPT ![s] =
            [pc |-> "compare", user |-> u, offered |-> offered,
             read |-> users[u].password]]
  /\ UNCHANGED <<registered, users, ledger, referrals, reg, comp>>

\* Mutant: any password will do.
CompareNothing(s) ==
  /\ session[s].pc = "compare"
  /\ session' = [session EXCEPT ![s].pc = "in"]
  /\ UNCHANGED <<registered, users, ledger, referrals, reg, comp>>

\* bcrypt compares with the hash that was read.
Compare(s) ==
  /\ session[s].pc = "compare"
  /\ session' = [session EXCEPT ![s] = IF @.offered = @.read THEN [@ EXCEPT !.pc = "in"]
                                                             ELSE NoSession]
  /\ UNCHANGED <<registered, users, ledger, referrals, reg, comp>>

-----------------------------------------------------------------------------
AccountsNext ==
  \/ \E q \in Registrations :
       \/ Register(q) \/ DrawCode(q) \/ ValidateReferrer(q)
       \/ CreateUser(q) \/ CreateFails(q)
  \/ \E c \in Completions :
       Complete(c) \/ CheckPhone(c) \/ UpdateAccount(c) \/ CompleteFails(c)
  \/ \E s \in SignIns : SignIn(s) \/ Compare(s)

-----------------------------------------------------------------------------
(* Properties                                                              *)

\* Names, invite codes and phone numbers are looked up awaits before they are
\* written: two requests that both found one free never both get it.
KeysUnique ==
  \A u, v \in registered :
    u # v => /\ users[u].name # users[v].name
             /\ users[u].code # users[v].code
             /\ users[u].phone # NONE => users[u].phone # users[v].phone

\* Who invites was registered, gift and all, before the one invited: nobody
\* invites himself, and no chain of invitations closes. The referral rows are
\* those of the users registered, no more after a failure that came late.
ReferrerFirst ==
  /\ referrals = {<<users[u].referrer, u>> :
                    u \in {v \in registered : users[v].referrer # NONE}}
  /\ \A i \in DOMAIN ledger :
       ledger[i].type = "GIFT" /\ users[ledger[i].user].referrer # NONE =>
         \E k \in 1..(i - 1) : /\ ledger[k].type = "GIFT"
                               /\ ledger[k].user = users[ledger[i].user].referrer

\* The completions that found u a guest, and were not refused since.
Accepted(u) == {c \in Completions : comp[c].user = u /\ comp[c].pc # "idle"}

\* isGuest is read awaits before it is cleared, so completions under way
\* together may all be written, each over the one before; but only those that
\* were under way together, however many follow: a completed account takes no
\* further one. With one under way at a time an account is completed once.
CompletionsBounded == \A u \in Users : Cardinality(Accepted(u)) <= MaxPending

\* Whoever signs in offers a password that a completion of this very account
\* has stored, whatever requests ran between the look-up and the answer.
SignedInByOwner ==
  \A s \in SignIns :
    session[s].pc = "in" =>
      /\ comp[session[s].offered].pc = "done"
      /\ comp[session[s].offered].user = session[s].user

=============================================================================
