--------------------------- MODULE PlayersProofs ---------------------------
(***************************************************************************)
(* Theorems about Players, for any number of requests and any failures of  *)
(* the database: the unique keys, who signs in, the refinement of the      *)
(* ledger and its sums, the names of bots and who invites whom.            *)
(***************************************************************************)
EXTENDS Players, SumTheorems, SequenceTheorems

-----------------------------------------------------------------------------
(* Types                                                                   *)

\* Whom the requests under way are for, and who has a row already.
Holders ==
  /\ \A q \in Registrations : reg[q].pc # "done" => q \notin registered
  /\ \A c \in Completions : comp[c].pc # "idle" => comp[c].user \in registered
  /\ \A p \in Payments : pay[p].pc # "idle" => pay[p].user \in registered
  /\ \A w \in Prizes : prize[w].pc # "idle" => prize[w].user \in registered

TypeInv == TypeOK /\ Holders

USE DEF Users

LEMMA RowType ==
  ASSUME TypeInv, NEW u \in Users, NEW type \in {"GIFT", "GAME_ENTRY", "WINNING"},
         NEW amount \in Int, NEW before \in Int
  PROVE  LedgerRow(u, type, amount, before) \in Row
BY DEF TypeInv, TypeOK, AccountsTypeOK, User, LedgerRow, Row

LEMMA TypeInit == Init => TypeInv
<1> SUFFICES ASSUME Init PROVE TypeInv
  OBVIOUS
<1>1. AccountsTypeOK
  BY AccountsAssumption
     DEF Init, AccountsInit, AccountsTypeOK, Unwritten, User, NoRegistration,
         Registration, NoCompletion, Completion, NoSession, Session
<1>2. WalletTypeOK
  BY DEF Init, WalletInit, WalletTypeOK, NoTransfer, Transfer
<1>3. candidate \in [Fills -> Names \cup {NONE}] /\ named \in [Fills -> Seq(Names)]
  BY DEF Init
<1>4. Holders
  BY DEF Init, AccountsInit, WalletInit, Holders, NoCompletion, NoTransfer
<1> QED
  BY <1>1, <1>2, <1>3, <1>4 DEF TypeInv, TypeOK

\* A registration moves on without writing to the database.
LEMMA TypeRegister ==
  ASSUME TypeInv, NEW q \in Registrations,
         Register(q) \/ DrawCode(q) \/ ValidateReferrer(q) \/ CreateFails(q),
         UNCHANGED <<walletVars, botVars>>
  PROVE  TypeInv'
<1>1. /\ reg[q].pc # "done"
      /\ \E r \in Registration : r.pc # "done" /\ reg' = [reg EXCEPT ![q] = r]
  <2>0. reg[q] \in Registration
    BY DEF TypeInv, TypeOK, AccountsTypeOK
  <2>1. CASE Register(q)
    <3>1. PICK name \in Names, invite \in Codes \cup {NONE} :
            reg' = [reg EXCEPT ![q] = [@ EXCEPT
                      !.pc = "code", !.name = name, !.invite = invite]]
      BY <2>1 DEF Register
    <3> DEFINE r == [reg[q] EXCEPT !.pc = "code", !.name = name, !.invite = invite]
    <3>2. r \in Registration /\ r.pc # "done" /\ reg' = [reg EXCEPT ![q] = r]
      BY <2>0, <3>1 DEF Registration
    <3> QED
      BY <2>1, <3>2 DEF Register
  <2>2. NoRegistration \in Registration /\ NoRegistration.pc # "done"
    BY DEF NoRegistration, Registration
  <2>3. CASE DrawCode(q)
    <3>1. CASE RegistrationRefused(q)
      BY <2>2, <2>3, <3>1 DEF RegistrationRefused, DrawCode
    <3>2. ASSUME NEW code \in Codes,
                 reg' = [reg EXCEPT ![q].code = code,
                           ![q].pc = IF reg[q].invite = NONE THEN "create" ELSE "referrer"]
          PROVE  \E r \in Registration : r.pc # "done" /\ reg' = [reg EXCEPT ![q] = r]
      <4> DEFINE next == IF reg[q].invite = NONE THEN "create" ELSE "referrer"
                 r == [reg[q] EXCEPT !.code = code, !.pc = next]
      <4>1. r \in Registration /\ r.pc # "done"
        BY <2>0 DEF Registration
      <4>2. reg' = [reg EXCEPT ![q] = r]
        BY <3>2 DEF TypeInv, TypeOK, AccountsTypeOK
      <4> HIDE DEF r
      <4> QED
        BY <4>1, <4>2
    <3> QED
      BY <2>3, <3>1, <3>2 DEF DrawCode
  <2>4. CASE ValidateReferrer(q)
    <3>1. CASE RegistrationRefused(q)
      BY <2>2, <2>4, <3>1 DEF RegistrationRefused, ValidateReferrer
    <3>2. ASSUME NEW u \in registered,
                 reg' = [reg EXCEPT ![q].referrer = u, ![q].pc = "create"]
          PROVE  \E r \in Registration : r.pc # "done" /\ reg' = [reg EXCEPT ![q] = r]
      <4> DEFINE r == [reg[q] EXCEPT !.referrer = u, !.pc = "create"]
      <4>1. r \in Registration /\ r.pc # "done"
        BY <2>0 DEF Registration, TypeInv, TypeOK, AccountsTypeOK
      <4>2. reg' = [reg EXCEPT ![q] = r]
        BY <3>2 DEF TypeInv, TypeOK, AccountsTypeOK
      <4> QED
        BY <4>1, <4>2
    <3> QED
      BY <2>4, <3>1, <3>2 DEF ValidateReferrer
  <2>5. CASE CreateFails(q)
    BY <2>2, <2>5 DEF RegistrationRefused, CreateFails
  <2> QED
    BY <2>1, <2>3, <2>4, <2>5
<1>2. UNCHANGED <<registered, users, ledger, referrals, comp, session, walletVars, botVars>>
  BY DEF Register, DrawCode, ValidateReferrer, CreateFails
<1>3. reg' \in [Registrations -> Registration]
      /\ \A r \in Registrations : reg'[r].pc # "done" => r \notin registered
  BY <1>1 DEF TypeInv, TypeOK, AccountsTypeOK, Holders
<1> QED
  BY <1>2, <1>3 DEF TypeInv, TypeOK, AccountsTypeOK, WalletTypeOK, Holders, walletVars, botVars

LEMMA TypeCreate ==
  ASSUME TypeInv, NEW q \in Registrations, CreateUser(q), UNCHANGED <<walletVars, botVars>>
  PROVE  TypeInv'
<1>1. reg[q] \in Registration /\ q \notin registered
  BY DEF TypeInv, TypeOK, AccountsTypeOK, Holders, CreateUser
<1>2. NewUser(q) \in User
  <2>1. Unwritten \in User
    BY DEF Unwritten, User
  <2>2. ASSUME NEW r \in User, NEW name \in Names \cup {NONE}, NEW code \in Codes \cup {NONE},
               NEW referrer \in Users \cup {NONE}, NEW gift \in Int
        PROVE  [r EXCEPT !.name = name, !.code = code, !.referrer = referrer,
                         !.credit = gift] \in User
    BY DEF User
  <2>3. /\ reg[q].name \in Names \cup {NONE} /\ reg[q].code \in Codes \cup {NONE}
        /\ reg[q].referrer \in Users \cup {NONE} /\ GIFT_AMOUNT \in Int
    BY <1>1, AccountsAssumption DEF Registration
  <2> QED
    BY <2>1, <2>2, <2>3 DEF NewUser
<1>3. users' \in [Users -> User]
  BY <1>2 DEF CreateUser, TypeInv, TypeOK, AccountsTypeOK
<1>4. ledger' \in Seq(Row)
  <2>1. LedgerRow(q, "GIFT", GIFT_AMOUNT, 0) \in Row
    BY RowType, AccountsAssumption
  <2> QED
    BY <2>1 DEF CreateUser, TypeInv, TypeOK, AccountsTypeOK
<1>5. referrals' \subseteq Users \X Users
  BY <1>1 DEF CreateUser, TypeInv, TypeOK, AccountsTypeOK, Registration
<1>6. reg' \in [Registrations -> Registration] /\ reg'[q].pc = "done"
      /\ \A r \in Registrations \ {q} : reg'[r] = reg[r]
  BY <1>1 DEF CreateUser, TypeInv, TypeOK, AccountsTypeOK, Registration
<1>7. registered' = registered \cup {q}
      /\ UNCHANGED <<comp, session, pay, prize, candidate, named>>
  BY DEF CreateUser, walletVars, botVars
<1>8. TypeOK'
  BY <1>3, <1>4, <1>5, <1>6, <1>7 DEF TypeInv, TypeOK, AccountsTypeOK, WalletTypeOK
<1>9. Holders'
  BY <1>6, <1>7 DEF TypeInv, Holders
<1> QED
  BY <1>8, <1>9 DEF TypeInv

LEMMA TypeComplete ==
  ASSUME TypeInv, NEW c \in Completions,
         Complete(c) \/ CheckPhone(c) \/ CompleteFails(c),
         UNCHANGED <<walletVars, botVars>>
  PROVE  TypeInv'
<1>1. PICK k \in Completion : /\ comp' = [comp EXCEPT ![c] = k]
                              /\ k.pc # "idle" => k.user \in registered
  <2>0. comp[c] \in Completion
    BY DEF TypeInv, TypeOK, AccountsTypeOK
  <2>1. NoCompletion \in Completion /\ NoCompletion.pc = "idle"
    BY DEF NoCompletion, Completion
  <2>2. CASE Complete(c)
    <3>1. PICK u \in registered, phone \in Phones :
            comp' = [comp EXCEPT ![c] = [pc |-> "phone", user |-> u, phone |-> phone]]
      BY <2>2 DEF Complete
    <3>2. [pc |-> "phone", user |-> u, phone |-> phone] \in Completion
      BY DEF Completion, TypeInv, TypeOK, AccountsTypeOK
    <3> QED
      BY <3>1, <3>2
  <2>3. CASE CheckPhone(c)
    <3>1. CASE CompletionRefused(c)
      BY <2>1, <3>1 DEF CompletionRefused
    <3>2. CASE comp' = [comp EXCEPT ![c].pc = "update"]
      <4> DEFINE k == [comp[c] EXCEPT !.pc = "update"]
      <4>1. k \in Completion /\ k.user = comp[c].user
        BY <2>0 DEF Completion
      <4>2. comp' = [comp EXCEPT ![c] = k]
        BY <3>2 DEF TypeInv, TypeOK, AccountsTypeOK
      <4>3. comp[c].user \in registered
        BY <2>3 DEF CheckPhone, TypeInv, Holders
      <4> QED
        BY <4>1, <4>2, <4>3
    <3> QED
      BY <2>3, <3>1, <3>2 DEF CheckPhone
  <2>4. CASE CompleteFails(c)
    BY <2>1, <2>4 DEF CompleteFails, CompletionRefused
  <2> QED
    BY <2>2, <2>3, <2>4
<1>2. UNCHANGED <<registered, users, ledger, referrals, reg, session, pay, prize,
                  candidate, named>>
  BY DEF Complete, CheckPhone, CompleteFails, walletVars, botVars
<1>3. comp' \in [Completions -> Completion]
      /\ \A d \in Completions : comp'[d].pc # "idle" => comp'[d].user \in registered
  BY <1>1 DEF TypeInv, TypeOK, AccountsTypeOK, Holders
<1> QED
  BY <1>2, <1>3 DEF TypeInv, TypeOK, AccountsTypeOK, WalletTypeOK, Holders

LEMMA TypeUpdate ==
  ASSUME TypeInv, NEW c \in Completions, UpdateAccount(c), UNCHANGED <<walletVars, botVars>>
  PROVE  TypeInv'
<1> DEFINE u == comp[c].user
           row == [users[u] EXCEPT !.phone = comp[c].phone, !.password = c, !.isGuest = FALSE]
<1>1. comp[c] \in Completion /\ u \in registered /\ u \in Users
  BY DEF TypeInv, TypeOK, AccountsTypeOK, Holders, UpdateAccount
<1>2. row \in User
  <2>1. ASSUME NEW r \in User, NEW phone \in Phones \cup {NONE}
        PROVE  [r EXCEPT !.phone = phone, !.password = c, !.isGuest = FALSE] \in User
    BY DEF User
  <2>2. users[u] \in User /\ comp[c].phone \in Phones \cup {NONE}
    BY <1>1 DEF TypeInv, TypeOK, AccountsTypeOK, Completion
  <2> QED
    BY <2>1, <2>2
<1>3. users' = [users EXCEPT ![u] = row]
  BY <1>1 DEF UpdateAccount, TypeInv, TypeOK, AccountsTypeOK
<1> HIDE DEF row
<1>4. users' \in [Users -> User]
  BY <1>1, <1>2, <1>3 DEF TypeInv, TypeOK, AccountsTypeOK
<1>5. /\ comp' \in [Completions -> Completion] /\ comp'[c].user = u
      /\ \A d \in Completions \ {c} : comp'[d] = comp[d]
  BY <1>1 DEF UpdateAccount, TypeInv, TypeOK, AccountsTypeOK, Completion
<1>6. UNCHANGED <<registered, ledger, referrals, reg, session, pay, prize, candidate, named>>
  BY DEF UpdateAccount, walletVars, botVars
<1>7. Holders'
  BY <1>1, <1>5, <1>6 DEF TypeInv, Holders
<1> QED
  BY <1>4, <1>5, <1>6, <1>7 DEF TypeInv, TypeOK, AccountsTypeOK, WalletTypeOK

LEMMA TypeSignIn ==
  ASSUME TypeInv, NEW s \in SignIns, SignIn(s) \/ Compare(s), UNCHANGED <<walletVars, botVars>>
  PROVE  TypeInv'
<1>1. session' \in [SignIns -> Session]
  <2>1. CASE SignIn(s)
    <3>1. PICK u \in registered, offered \in Completions :
            session' = [session EXCEPT ![s] = [pc |-> "compare", user |-> u,
                          offered |-> offered, read |-> users[u].password]]
      BY <2>1 DEF SignIn
    <3>2. [pc |-> "compare", user |-> u, offered |-> offered, read |-> users[u].password]
            \in Session
      BY DEF Session, TypeInv, TypeOK, AccountsTypeOK, User
    <3> QED
      BY <3>1, <3>2 DEF TypeInv, TypeOK, AccountsTypeOK
  <2>2. CASE Compare(s)
    <3>1. session[s] \in Session
      BY DEF TypeInv, TypeOK, AccountsTypeOK
    <3>2. [session[s] EXCEPT !.pc = "in"] \in Session /\ NoSession \in Session
      BY <3>1 DEF Session, NoSession
    <3> QED
      BY <2>2, <3>2 DEF Compare, TypeInv, TypeOK, AccountsTypeOK
  <2> QED
    BY <2>1, <2>2
<1>2. UNCHANGED <<registered, users, ledger, referrals, reg, comp, pay, prize,
                  candidate, named>>
  BY DEF SignIn, Compare, walletVars, botVars
<1> QED
  BY <1>1, <1>2 DEF TypeInv, TypeOK, AccountsTypeOK, WalletTypeOK, Holders

\* A payment or a prize, and the credit it changes.
LEMMA TypeWallet ==
  ASSUME TypeInv, WalletNext, UNCHANGED botVars
  PROVE  TypeInv'
<1>1. ASSUME NEW k \in Transfer, NEW type \in {"GAME_ENTRY", "WINNING"},
             NEW amount \in Int, k.pc = "write", k.user \in registered,
             NEW row \in User, users' = [users EXCEPT ![k.user] = row],
             ledger' = Append(ledger, LedgerRow(k.user, type, amount, k.read))
      PROVE  users' \in [Users -> User] /\ ledger' \in Seq(Row)
  <2>1. k.user \in Users /\ k.read \in Int
    BY <1>1 DEF TypeInv, TypeOK, AccountsTypeOK, Transfer
  <2>2. LedgerRow(k.user, type, amount, k.read) \in Row
    BY <2>1, RowType
  <2> QED
    BY <1>1, <2>1, <2>2 DEF TypeInv, TypeOK, AccountsTypeOK
<1>2. ASSUME NEW p \in Payments, ReadBalance(p) PROVE TypeInv'
  <2>1. PICK u \in registered, cost \in Costs :
          pay' = [pay EXCEPT ![p] = [pc |-> "write", user |-> u, amount |-> cost,
                                     read |-> users[u].credit]]
    BY <1>2 DEF ReadBalance
  <2>2. [pc |-> "write", user |-> u, amount |-> cost, read |-> users[u].credit] \in Transfer
    BY AmountsAssumption DEF Transfer, TypeInv, TypeOK, AccountsTypeOK, User
  <2> QED
    BY <1>2, <2>1, <2>2 DEF ReadBalance, accountVars, botVars, TypeInv, TypeOK,
          AccountsTypeOK, WalletTypeOK, Holders
<1>3. ASSUME NEW p \in Payments, Charge(p) PROVE TypeInv'
  <2> DEFINE k == pay[p]
             row == [users[k.user] EXCEPT !.credit = @ - k.amount]
  <2>1. k \in Transfer /\ k.pc = "write" /\ k.user \in registered
    BY <1>3 DEF Charge, TypeInv, TypeOK, WalletTypeOK, Holders
  <2>2. k.user \in Users /\ users[k.user] \in User /\ k.amount \in Int
    BY <2>1 DEF TypeInv, TypeOK, AccountsTypeOK, Transfer
  <2>3. row \in User /\ 0 - k.amount \in Int
    BY <2>2 DEF User
  <2>4. users' = [users EXCEPT ![k.user] = row]
    BY <1>3, <2>2 DEF Charge, TypeInv, TypeOK, AccountsTypeOK
  <2>5. users' \in [Users -> User] /\ ledger' \in Seq(Row)
    <3> HIDE DEF row
    <3> QED
      BY <1>1, <1>3, <2>1, <2>3, <2>4 DEF Charge
  <2>6. pay' \in [Payments -> Transfer]
        /\ \A r \in Payments : pay'[r].pc # "idle" => pay'[r].user \in registered
    BY <1>3, <2>1 DEF Charge, TypeInv, TypeOK, WalletTypeOK, Holders, Transfer
  <2> QED
    BY <1>3, <2>5, <2>6 DEF Charge, botVars, TypeInv, TypeOK, AccountsTypeOK,
          WalletTypeOK, Holders
<1>4. ASSUME NEW p \in Payments, ChargeFails(p) PROVE TypeInv'
  <2>1. NoTransfer \in Transfer /\ NoTransfer.pc = "idle"
    BY DEF NoTransfer, Transfer
  <2> QED
    BY <1>4, <2>1 DEF ChargeFails, accountVars, botVars, TypeInv, TypeOK,
          AccountsTypeOK, WalletTypeOK, Holders
<1>5. ASSUME NEW w \in Prizes, ReadCredit(w) PROVE TypeInv'
  <2>1. PICK u \in registered, amount \in Amounts :
          prize' = [prize EXCEPT ![w] = [pc |-> "write", user |-> u, amount |-> amount,
                                         read |-> users[u].credit]]
    BY <1>5 DEF ReadCredit
  <2>2. [pc |-> "write", user |-> u, amount |-> amount, read |-> users[u].credit] \in Transfer
    BY AmountsAssumption DEF Transfer, TypeInv, TypeOK, AccountsTypeOK, User
  <2> QED
    BY <1>5, <2>1, <2>2 DEF ReadCredit, accountVars, botVars, TypeInv, TypeOK,
          AccountsTypeOK, WalletTypeOK, Holders
<1>6. ASSUME NEW w \in Prizes, Settle(w) PROVE TypeInv'
  <2> DEFINE k == prize[w]
             row == [users[k.user] EXCEPT !.credit = @ + k.amount,
                                          !.withdrawable = @ + k.amount]
  <2>1. k \in Transfer /\ k.pc = "write" /\ k.user \in registered
    BY <1>6 DEF Settle, TypeInv, TypeOK, WalletTypeOK, Holders
  <2>2. k.user \in Users /\ users[k.user] \in User /\ k.amount \in Int
    BY <2>1 DEF TypeInv, TypeOK, AccountsTypeOK, Transfer
  <2>3. row \in User
    <3>1. ASSUME NEW r \in User, NEW x \in Int, NEW y \in Int
          PROVE  [r EXCEPT !.credit = x, !.withdrawable = y] \in User
      BY DEF User
    <3>2. row = [users[k.user] EXCEPT !.credit = users[k.user].credit + k.amount,
                   !.withdrawable = users[k.user].withdrawable + k.amount]
      BY <2>2 DEF User
    <3>3. /\ users[k.user].credit + k.amount \in Int
          /\ users[k.user].withdrawable + k.amount \in Int
      BY <2>2 DEF User
    <3> QED
      BY <2>2, <3>1, <3>2, <3>3
  <2>4. users' = [users EXCEPT ![k.user] = row]
    BY <1>6, <2>2 DEF Settle, TypeInv, TypeOK, AccountsTypeOK
  <2>5. users' \in [Users -> User] /\ ledger' \in Seq(Row)
    <3> HIDE DEF row
    <3> QED
      BY <1>1, <1>6, <2>1, <2>2, <2>3, <2>4 DEF Settle
  <2>6. prize' \in [Prizes -> Transfer]
        /\ \A r \in Prizes : prize'[r].pc # "idle" => prize'[r].user \in registered
    BY <1>6, <2>1 DEF Settle, TypeInv, TypeOK, WalletTypeOK, Holders, Transfer
  <2> QED
    BY <1>6, <2>5, <2>6 DEF Settle, botVars, TypeInv, TypeOK, AccountsTypeOK,
          WalletTypeOK, Holders
<1>7. ASSUME NEW w \in Prizes, SettleFails(w) PROVE TypeInv'
  <2>1. NoTransfer \in Transfer /\ NoTransfer.pc = "idle"
    BY DEF NoTransfer, Transfer
  <2> QED
    BY <1>7, <2>1 DEF SettleFails, accountVars, botVars, TypeInv, TypeOK,
          AccountsTypeOK, WalletTypeOK, Holders
<1> QED
  BY <1>2, <1>3, <1>4, <1>5, <1>6, <1>7 DEF WalletNext

\* A bot looks for a name, and is given it.
LEMMA TypeBots ==
  ASSUME TypeInv, NEW f \in Fills, BuildUsername(f) \/ CreateRandomBot(f)
  PROVE  TypeInv'
<1>1. candidate' \in [Fills -> Names \cup {NONE}] /\ named' \in [Fills -> Seq(Names)]
  <2>0. candidate \in [Fills -> Names \cup {NONE}] /\ named \in [Fills -> Seq(Names)]
    BY DEF TypeInv, TypeOK
  <2>1. CASE BuildUsername(f)
    BY <2>0, <2>1 DEF BuildUsername
  <2>2. CASE CreateRandomBot(f)
    <3>1. candidate[f] \in Names
      BY <2>0, <2>2 DEF CreateRandomBot
    <3>2. Append(named[f], candidate[f]) \in Seq(Names)
      BY <2>0, <3>1
    <3> QED
      BY <2>0, <2>2, <3>2 DEF CreateRandomBot
  <2> QED
    BY <2>1, <2>2
<1>2. UNCHANGED <<accountVars, walletVars>>
  BY DEF BuildUsername, CreateRandomBot, walletVars
<1> QED
  BY <1>1, <1>2 DEF accountVars, walletVars, TypeInv, TypeOK, AccountsTypeOK,
        WalletTypeOK, Holders

LEMMA TypeStep == TypeInv /\ [Next]_vars => TypeInv'
<1> SUFFICES ASSUME TypeInv, [Next]_vars PROVE TypeInv'
  OBVIOUS
<1>1. CASE AccountsNext /\ UNCHANGED <<walletVars, botVars>>
  BY <1>1, TypeRegister, TypeCreate, TypeComplete, TypeUpdate, TypeSignIn DEF AccountsNext
<1>2. CASE WalletNext /\ UNCHANGED botVars
  BY <1>2, TypeWallet
<1>3. CASE \E f \in Fills : BuildUsername(f) \/ CreateRandomBot(f)
  BY <1>3, TypeBots
<1>4. CASE UNCHANGED vars
  BY <1>4 DEF vars, accountVars, walletVars, botVars, TypeInv, TypeOK,
        AccountsTypeOK, WalletTypeOK, Holders
<1> QED
  BY <1>1, <1>2, <1>3, <1>4 DEF Next

\* Every row and every request keeps its type; a bot is never left unnamed.
THEOREM PlayersTypesCorrect == Spec => []TypeOK
<1>1. Spec => []TypeInv
  BY TypeInit, TypeStep, PTL DEF Spec
<1> QED
  BY <1>1, PTL DEF TypeInv

-----------------------------------------------------------------------------
(* Unique keys                                                             *)

\* The steps that write to the tables.
LEMMA Writers ==
  ASSUME TypeInv, [Next]_vars
  PROVE  \/ \E q \in Registrations : CreateUser(q) /\ UNCHANGED <<walletVars, botVars>>
         \/ \E c \in Completions : UpdateAccount(c) /\ UNCHANGED <<walletVars, botVars>>
         \/ \E p \in Payments : Charge(p)
         \/ \E w \in Prizes : Settle(w)
         \/ UNCHANGED <<registered, users, ledger>>
<1>1. CASE AccountsNext /\ UNCHANGED <<walletVars, botVars>>
  <2>1. ASSUME NEW q \in Registrations,
               Register(q) \/ DrawCode(q) \/ ValidateReferrer(q) \/ CreateFails(q)
        PROVE  UNCHANGED <<registered, users, ledger>>
    BY <2>1 DEF Register, DrawCode, ValidateReferrer, CreateFails
  <2>2. ASSUME NEW c \in Completions, Complete(c) \/ CheckPhone(c) \/ CompleteFails(c)
        PROVE  UNCHANGED <<registered, users, ledger>>
    BY <2>2 DEF Complete, CheckPhone, CompleteFails
  <2>3. ASSUME NEW s \in SignIns, SignIn(s) \/ Compare(s)
        PROVE  UNCHANGED <<registered, users, ledger>>
    BY <2>3 DEF SignIn, Compare
  <2> QED
    BY <1>1, <2>1, <2>2, <2>3 DEF AccountsNext
<1>2. CASE WalletNext /\ UNCHANGED botVars
  <2>1. ASSUME NEW p \in Payments, ReadBalance(p) \/ ChargeFails(p)
        PROVE  UNCHANGED <<registered, users, ledger>>
    BY <2>1 DEF ReadBalance, ChargeFails, accountVars
  <2>2. ASSUME NEW w \in Prizes, ReadCredit(w) \/ SettleFails(w)
        PROVE  UNCHANGED <<registered, users, ledger>>
    BY <2>2 DEF ReadCredit, SettleFails, accountVars
  <2> QED
    BY <1>2, <2>1, <2>2 DEF WalletNext
<1>3. CASE \E f \in Fills : BuildUsername(f) \/ CreateRandomBot(f)
  BY <1>3 DEF BuildUsername, CreateRandomBot, accountVars
<1>4. CASE UNCHANGED vars
  BY <1>4 DEF vars, accountVars
<1> QED
  BY <1>1, <1>2, <1>3, <1>4 DEF Next

\* Who gets a row, and what money changes of one.
LEMMA Created ==
  ASSUME TypeInv, NEW q \in Registrations, CreateUser(q)
  PROVE  /\ registered' = registered \cup {q} /\ q \notin registered
         /\ users'[q] = NewUser(q)
         /\ \A u \in Users \ {q} : users'[u] = users[u]
BY DEF CreateUser, TypeInv, TypeOK, AccountsTypeOK, Holders

LEMMA Updated ==
  ASSUME TypeInv, NEW c \in Completions, UpdateAccount(c)
  PROVE  LET u == comp[c].user
         IN /\ u \in registered /\ registered' = registered
            /\ users'[u] = [users[u] EXCEPT !.phone = comp[c].phone, !.password = c,
                                            !.isGuest = FALSE]
            /\ \A v \in Users \ {u} : users'[v] = users[v]
<1>1. comp[c].user \in registered /\ registered \subseteq Users
  BY DEF UpdateAccount, TypeInv, TypeOK, AccountsTypeOK, Holders
<1> QED
  BY <1>1 DEF UpdateAccount, TypeInv, TypeOK, AccountsTypeOK

LEMMA MoneyOnly ==
  ASSUME TypeInv,
         (\E p \in Payments : Charge(p)) \/ (\E w \in Prizes : Settle(w))
  PROVE  /\ registered' = registered
         /\ \A u \in Users :
              /\ users'[u].name = users[u].name /\ users'[u].code = users[u].code
              /\ users'[u].phone = users[u].phone
              /\ users'[u].password = users[u].password
              /\ users'[u].isGuest = users[u].isGuest
              /\ users'[u].referrer = users[u].referrer
<1>1. users \in [Users -> User]
  BY DEF TypeInv, TypeOK, AccountsTypeOK
<1>2. ASSUME NEW p \in Payments, Charge(p)
      PROVE  /\ registered' = registered
             /\ users' = [users EXCEPT ![pay[p].user].credit = @ - pay[p].amount]
  BY <1>2 DEF Charge
<1>3. ASSUME NEW w \in Prizes, Settle(w)
      PROVE  /\ registered' = registered
             /\ users' = [users EXCEPT ![prize[w].user].credit = @ + prize[w].amount,
                                       ![prize[w].user].withdrawable = @ + prize[w].amount]
  BY <1>3 DEF Settle
<1>4. ASSUME NEW u \in Users
      PROVE  /\ users'[u].name = users[u].name /\ users'[u].code = users[u].code
             /\ users'[u].phone = users[u].phone
             /\ users'[u].password = users[u].password
             /\ users'[u].isGuest = users[u].isGuest
             /\ users'[u].referrer = users[u].referrer
  <2>1. users[u] \in User
    BY <1>1
  <2>2. ASSUME NEW p \in Payments, Charge(p)
        PROVE  users'[u] \in {users[u], [users[u] EXCEPT !.credit = @ - pay[p].amount]}
    BY <1>1, <1>2, <2>2
  <2>3. ASSUME NEW w \in Prizes, Settle(w)
        PROVE  users'[u] \in {users[u],
                             [users[u] EXCEPT !.credit = @ + prize[w].amount,
                                              !.withdrawable = @ + prize[w].amount]}
    <3>1. CASE u = prize[w].user
      BY <1>1, <1>3, <2>1, <2>3, <3>1 DEF User
    <3>2. CASE u # prize[w].user
      BY <1>1, <1>3, <2>3, <3>2
    <3> QED
      BY <3>1, <3>2
  <2>4. PICK x, y : users'[u] \in {users[u], [users[u] EXCEPT !.credit = x],
                                  [users[u] EXCEPT !.credit = x, !.withdrawable = y]}
    <3>1. CASE \E p \in Payments : Charge(p)
      BY <2>2, <3>1
    <3>2. CASE \E w \in Prizes : Settle(w)
      BY <2>3, <3>2
    <3> QED
      BY <3>1, <3>2
  <2>5. CASE users'[u] = users[u]
    BY <2>5
  <2>6. CASE users'[u] = [users[u] EXCEPT !.credit = x]
    BY <2>1, <2>6 DEF User
  <2>7. CASE users'[u] = [users[u] EXCEPT !.credit = x, !.withdrawable = y]
    BY <2>1, <2>7 DEF User
  <2> QED
    BY <2>4, <2>5, <2>6, <2>7
<1> QED
  BY <1>2, <1>3, <1>4

KeyInv == TypeInv /\ KeysUnique

LEMMA KeyStep == KeyInv /\ [Next]_vars => KeyInv'
<1> SUFFICES ASSUME KeyInv, [Next]_vars PROVE KeysUnique'
  BY TypeStep DEF KeyInv
<1>0. TypeInv /\ registered \subseteq Users /\ users \in [Users -> User]
  BY DEF KeyInv, TypeInv, TypeOK, AccountsTypeOK
<1>1. ASSUME NEW q \in Registrations, CreateUser(q) PROVE KeysUnique'
  <2>1. /\ users'[q].name = reg[q].name /\ users'[q].code = reg[q].code
        /\ users'[q].phone = NONE
    <3>1. /\ NewUser(q).name = reg[q].name /\ NewUser(q).code = reg[q].code
          /\ NewUser(q).phone = NONE
      BY DEF NewUser, Unwritten
    <3> QED
      BY <1>0, <1>1, <3>1, Created
  <2>2. \A u \in registered : users[u].name # reg[q].name /\ users[u].code # reg[q].code
    BY <1>1 DEF CreateUser, KeysFree, NameTaken, CodeTaken
  <2>3. \A u \in registered : users'[u] = users[u]
    BY <1>0, <1>1, Created
  <2> QED
    BY <1>0, <1>1, <2>1, <2>2, <2>3, Created DEF KeyInv, KeysUnique
<1>2. ASSUME NEW c \in Completions, UpdateAccount(c) PROVE KeysUnique'
  <2> DEFINE u == comp[c].user
  <2>1. u \in registered /\ \A v \in Users \ {u} : users'[v] = users[v]
    BY <1>0, <1>2, Updated
  <2>2. /\ users'[u].name = users[u].name /\ users'[u].code = users[u].code
        /\ users'[u].phone = comp[c].phone
    <3>1. users[u] \in User
      BY <1>0, <2>1
    <3>2. users'[u] = [users[u] EXCEPT !.phone = comp[c].phone, !.password = c,
                                       !.isGuest = FALSE]
      BY <1>0, <1>2, Updated
    <3> HIDE DEF u
    <3> QED
      BY <3>1, <3>2 DEF User
  <2>3. \A v \in registered \ {u} : users[v].phone # comp[c].phone
    BY <1>2 DEF UpdateAccount, PhoneFree
  <2>4. registered' = registered
    BY <1>2 DEF UpdateAccount
  <2> QED
    BY <1>0, <2>1, <2>2, <2>3, <2>4 DEF KeyInv, KeysUnique
<1>3. CASE (\E p \in Payments : Charge(p)) \/ (\E w \in Prizes : Settle(w))
  BY <1>0, <1>3, MoneyOnly DEF KeyInv, KeysUnique
<1>4. CASE UNCHANGED <<registered, users, ledger>>
  BY <1>4 DEF KeyInv, KeysUnique
<1> QED
  BY <1>0, <1>1, <1>2, <1>3, <1>4, Writers

\* However requests overlap between the look-up of a key and its insertion, no
\* name, invite code or phone number is given to two users.
THEOREM KeysCorrect == Spec => []KeysUnique
<1>1. Init => KeyInv
  BY TypeInit DEF Init, AccountsInit, KeyInv, KeysUnique
<1>2. Spec => []KeyInv
  BY <1>1, KeyStep, PTL DEF Spec
<1> QED
  BY <1>2, PTL DEF KeyInv

-----------------------------------------------------------------------------
(* Who signs in                                                            *)

\* A password is stored by a completion that is done, of the user who has it.
StoredBy(completions, password, u) ==
  /\ password \in Completions
  /\ completions[password].pc = "done"
  /\ completions[password].user = u

OwnerInv ==
  /\ TypeInv
  /\ \A u \in Users : users[u].password # NONE => StoredBy(comp, users[u].password, u)
  /\ \A s \in SignIns : session[s].pc # "idle" => StoredBy(comp, session[s].read, session[s].user)
  /\ \A s \in SignIns : session[s].pc = "in" => session[s].offered = session[s].read

LEMMA OwnerInit == Init => OwnerInv
<1> SUFFICES ASSUME Init PROVE OwnerInv
  OBVIOUS
<1>1. \A u \in Users : users[u].password = NONE
  BY DEF Init, AccountsInit, Unwritten
<1>2. \A s \in SignIns : session[s].pc = "idle"
  BY DEF Init, AccountsInit, NoSession
<1> QED
  BY <1>1, <1>2, TypeInit DEF OwnerInv

\* What a completion has stored stays stored.
LEMMA StoredStays ==
  ASSUME TypeInv, [Next]_vars, NEW password, NEW u, StoredBy(comp, password, u)
  PROVE  StoredBy(comp', password, u)
<1> SUFFICES comp'[password] = comp[password]
  BY DEF StoredBy
<1>0. password \in Completions /\ comp[password].pc = "done"
  BY DEF StoredBy
<1>1. ASSUME NEW c \in Completions,
             Complete(c) \/ CheckPhone(c) \/ UpdateAccount(c) \/ CompleteFails(c)
      PROVE  comp[c].pc # "done" /\ \A d \in Completions \ {c} : comp'[d] = comp[d]
  <2>1. CASE Complete(c)
    BY <2>1 DEF Complete, TypeInv, TypeOK, AccountsTypeOK
  <2>2. CASE CheckPhone(c)
    BY <2>2 DEF CheckPhone, CompletionRefused, TypeInv, TypeOK, AccountsTypeOK
  <2>3. CASE UpdateAccount(c)
    BY <2>3 DEF UpdateAccount, TypeInv, TypeOK, AccountsTypeOK
  <2>4. CASE CompleteFails(c)
    BY <2>4 DEF CompleteFails, CompletionRefused, TypeInv, TypeOK, AccountsTypeOK
  <2> QED
    BY <1>1, <2>1, <2>2, <2>3, <2>4
<1>2. CASE AccountsNext
  <2>1. ASSUME NEW q \in Registrations,
               \/ Register(q) \/ DrawCode(q) \/ ValidateReferrer(q)
               \/ CreateUser(q) \/ CreateFails(q)
        PROVE  comp' = comp
    BY <2>1 DEF Register, DrawCode, ValidateReferrer, CreateUser, CreateFails
  <2>2. ASSUME NEW s \in SignIns, SignIn(s) \/ Compare(s) PROVE comp' = comp
    BY <2>2 DEF SignIn, Compare
  <2> QED
    BY <1>0, <1>1, <1>2, <2>1, <2>2 DEF AccountsNext
<1>3. CASE WalletNext
  BY <1>3 DEF WalletNext, ReadBalance, Charge, ChargeFails, ReadCredit, Settle,
              SettleFails, accountVars
<1>4. CASE \E f \in Fills : BuildUsername(f) \/ CreateRandomBot(f)
  BY <1>4 DEF BuildUsername, CreateRandomBot, accountVars
<1>5. CASE UNCHANGED vars
  BY <1>5 DEF vars, accountVars
<1> QED
  BY <1>2, <1>3, <1>4, <1>5 DEF Next

\* The password column.
LEMMA OwnerUsers ==
  ASSUME OwnerInv, [Next]_vars, NEW u \in Users, users'[u].password # NONE
  PROVE  StoredBy(comp', users'[u].password, u)
<1>0. TypeInv /\ users \in [Users -> User]
  BY DEF OwnerInv, TypeInv, TypeOK, AccountsTypeOK
<1>1. CASE users'[u].password = users[u].password
  BY <1>0, <1>1, StoredStays DEF OwnerInv, StoredBy
<1>2. ASSUME NEW q \in Registrations, CreateUser(q)
      PROVE  users'[u].password = users[u].password
  <2>1. CASE u = q
    BY <1>0, <1>2, <2>1, Created DEF NewUser, Unwritten
  <2> QED
    BY <1>0, <1>2, <2>1, Created
<1>3. ASSUME NEW c \in Completions, UpdateAccount(c),
             users'[u].password # users[u].password
      PROVE  StoredBy(comp', users'[u].password, u)
  <2>1. u = comp[c].user
    BY <1>0, <1>3, Updated
  <2>2. users'[u].password = c
    BY <1>0, <1>3, <2>1, Updated DEF User
  <2>3. comp'[c].pc = "done" /\ comp'[c].user = comp[c].user
    BY <1>0, <1>3 DEF UpdateAccount, TypeInv, TypeOK, AccountsTypeOK, Completion
  <2> QED
    BY <2>1, <2>2, <2>3 DEF StoredBy
<1>4. CASE (\E p \in Payments : Charge(p)) \/ (\E w \in Prizes : Settle(w))
  BY <1>0, <1>1, <1>4, MoneyOnly
<1> QED
  BY <1>0, <1>1, <1>2, <1>3, <1>4, Writers

\* The sessions.
LEMMA OwnerSessions ==
  ASSUME OwnerInv, [Next]_vars, NEW s \in SignIns, session'[s].pc # "idle"
  PROVE  /\ StoredBy(comp', session'[s].read, session'[s].user)
         /\ session'[s].pc = "in" => session'[s].offered = session'[s].read
<1>0. TypeInv /\ registered \subseteq Users /\ session \in [SignIns -> Session]
  BY DEF OwnerInv, TypeInv, TypeOK, AccountsTypeOK
<1>1. CASE session'[s] = session[s]
  BY <1>0, <1>1, StoredStays DEF OwnerInv, StoredBy
<1>2. CASE SignIn(s)
  <2>1. PICK u \in registered, offered \in Completions :
          /\ users[u].password # NONE
          /\ session' = [session EXCEPT ![s] = [pc |-> "compare", user |-> u,
                           offered |-> offered, read |-> users[u].password]]
    BY <1>2 DEF SignIn
  <2>2. StoredBy(comp, users[u].password, u)
    BY <1>0, <2>1 DEF OwnerInv
  <2>3. /\ session'[s].read = users[u].password /\ session'[s].user = u
        /\ session'[s].pc = "compare"
    BY <1>0, <2>1
  <2> QED
    BY <1>0, <2>2, <2>3, StoredStays DEF StoredBy
<1>3. CASE Compare(s)
  <2>1. /\ session[s].pc = "compare"
        /\ session'[s] = IF session[s].offered = session[s].read
                         THEN [session[s] EXCEPT !.pc = "in"] ELSE NoSession
    BY <1>0, <1>3 DEF Compare
  <2>2. /\ session[s].offered = session[s].read
        /\ session'[s] = [session[s] EXCEPT !.pc = "in"]
    BY <2>1 DEF NoSession
  <2>3. /\ session'[s].read = session[s].read /\ session'[s].user = session[s].user
        /\ session'[s].offered = session[s].offered
    BY <1>0, <2>2 DEF Session
  <2>4. StoredBy(comp, session[s].read, session[s].user)
    BY <2>1 DEF OwnerInv
  <2> QED
    BY <1>0, <2>2, <2>3, <2>4, StoredStays DEF StoredBy
<1>4. ASSUME session'[s] # session[s] PROVE SignIn(s) \/ Compare(s)
  <2>1. CASE AccountsNext
    <3>1. ASSUME NEW q \in Registrations,
                 \/ Register(q) \/ DrawCode(q) \/ ValidateReferrer(q)
                 \/ CreateUser(q) \/ CreateFails(q)
          PROVE  session' = session
      BY <3>1 DEF Register, DrawCode, ValidateReferrer, CreateUser, CreateFails
    <3>2. ASSUME NEW c \in Completions,
                 Complete(c) \/ CheckPhone(c) \/ UpdateAccount(c) \/ CompleteFails(c)
          PROVE  session' = session
      BY <3>2 DEF Complete, CheckPhone, UpdateAccount, CompleteFails
    <3>3. ASSUME NEW t \in SignIns, SignIn(t) \/ Compare(t), t # s
          PROVE  session'[s] = session[s]
      BY <1>0, <3>3 DEF SignIn, Compare
    <3> QED
      BY <1>4, <2>1, <3>1, <3>2, <3>3 DEF AccountsNext
  <2>2. CASE WalletNext
    BY <1>4, <2>2 DEF WalletNext, ReadBalance, Charge, ChargeFails, ReadCredit, Settle,
                SettleFails, accountVars
  <2>3. CASE \E f \in Fills : BuildUsername(f) \/ CreateRandomBot(f)
    BY <1>4, <2>3 DEF BuildUsername, CreateRandomBot, accountVars
  <2>4. CASE UNCHANGED vars
    BY <1>4, <2>4 DEF vars, accountVars
  <2> QED
    BY <2>1, <2>2, <2>3, <2>4 DEF Next
<1> QED
  BY <1>1, <1>2, <1>3, <1>4

LEMMA OwnerStep == OwnerInv /\ [Next]_vars => OwnerInv'
<1> SUFFICES ASSUME OwnerInv, [Next]_vars PROVE OwnerInv'
  OBVIOUS
<1>1. TypeInv'
  BY TypeStep DEF OwnerInv
<1>2. \A u \in Users : users'[u].password # NONE => StoredBy(comp', users'[u].password, u)
  BY OwnerUsers
<1>3. \A s \in SignIns : session'[s].pc # "idle" =>
        /\ StoredBy(comp', session'[s].read, session'[s].user)
        /\ session'[s].pc = "in" => session'[s].offered = session'[s].read
  BY OwnerSessions
<1> QED
  BY <1>1, <1>2, <1>3 DEF OwnerInv, StoredBy

\* Whoever signs in knows a password that this account's own completion chose.
THEOREM SignInCorrect == Spec => []SignedInByOwner
<1>1. OwnerInv => SignedInByOwner
  BY DEF OwnerInv, StoredBy, SignedInByOwner
<1>2. Spec => []OwnerInv
  BY OwnerInit, OwnerStep, PTL DEF Spec
<1> QED
  BY <1>1, <1>2, PTL

-----------------------------------------------------------------------------
(* The ledger                                                              *)

\* The balances a user has had, by the rows of a table.
Had(table, u) ==
  {0} \cup {table[i].after : i \in {k \in DOMAIN table : table[k].user = u}}

Entry(r) == [user |-> r.user, amount |-> r.amount, before |-> r.before, after |-> r.after]
Entries(table) == [i \in DOMAIN table |-> Entry(table[i])]

LEMMA HadAppend ==
  ASSUME NEW table \in Seq(Row), NEW r \in Row, NEW u
  PROVE  /\ Had(table, u) \subseteq Had(Append(table, r), u)
         /\ r.user = u => r.after \in Had(Append(table, r), u)
<1> DEFINE more == Append(table, r)
<1>1. /\ DOMAIN table = 1..Len(table) /\ DOMAIN more = 1..(Len(table) + 1)
      /\ Len(table) \in Nat
      /\ \A i \in 1..Len(table) : more[i] = table[i]
      /\ more[Len(table) + 1] = r
  OBVIOUS
<1> HIDE DEF more
<1>2. \A i \in DOMAIN table : i \in DOMAIN more /\ more[i] = table[i]
  BY <1>1
<1>3. Len(table) + 1 \in DOMAIN more
  BY <1>1
<1>4. Had(table, u) \subseteq Had(more, u)
  BY <1>2 DEF Had
<1>5. r.user = u => r.after \in Had(more, u)
  BY <1>1, <1>3 DEF Had
<1> QED
  BY <1>4, <1>5 DEF more

LEMMA EntriesAppend ==
  ASSUME NEW table \in Seq(Row), NEW r \in Row
  PROVE  Entries(Append(table, r)) = Append(Entries(table), Entry(r))
<1> DEFINE E == {Entry(x) : x \in Row}
<1>1. /\ DOMAIN table = 1..Len(table) /\ Len(table) \in Nat
      /\ \A i \in 1..Len(table) : table[i] \in Row
  OBVIOUS
<1>2. Entries(table) \in Seq(E) /\ Len(Entries(table)) = Len(table)
  <2>1. Entries(table) \in [1..Len(table) -> E]
    BY <1>1 DEF Entries
  <2> HIDE DEF E
  <2> QED
    BY <1>1, <2>1, SeqDef
<1>3. Entry(r) \in E
  OBVIOUS
<1> HIDE DEF E
<1>4. DOMAIN Append(table, r) = 1..(Len(table) + 1)
  OBVIOUS
<1>5. DOMAIN Append(Entries(table), Entry(r)) = 1..(Len(table) + 1)
  BY <1>2, <1>3
<1>6. ASSUME NEW i \in 1..(Len(table) + 1)
      PROVE  Entry(Append(table, r)[i]) = Append(Entries(table), Entry(r))[i]
  <2>1. CASE i = Len(table) + 1
    <3>1. Append(table, r)[i] = r
      BY <2>1
    <3>2. Append(Entries(table), Entry(r))[i] = Entry(r)
      BY <1>2, <1>3, <2>1
    <3> QED
      BY <3>1, <3>2
  <2>2. CASE i # Len(table) + 1
    <3>0. i \in 1..Len(table)
      BY <1>1, <2>2
    <3>1. Append(table, r)[i] = table[i]
      BY <3>0
    <3>2. Append(Entries(table), Entry(r))[i] = Entries(table)[i]
      BY <1>2, <1>3, <3>0
    <3>3. Entries(table)[i] = Entry(table[i])
      BY <1>1, <3>0 DEF Entries
    <3> QED
      BY <3>1, <3>2, <3>3
  <2> QED
    BY <2>1, <2>2
<1>7. Append(Entries(table), Entry(r))
        = [i \in 1..(Len(table) + 1) |-> Append(Entries(table), Entry(r))[i]]
  <2>1. Append(Entries(table), Entry(r)) \in Seq(E)
    BY <1>2, <1>3
  <2>2. Len(Append(Entries(table), Entry(r))) = Len(table) + 1
    BY <1>2, <1>3
  <2>3. Append(Entries(table), Entry(r))
          \in [1..Len(Append(Entries(table), Entry(r))) -> E]
    BY <2>1, LenProperties, Zenon
  <2> QED
    BY <2>2, <2>3
<1> QED
  BY <1>4, <1>6, <1>7 DEF Entries

\* A transfer under way has read a balance the user has had, and so is the
\* credit of now; whoever has no row in User has none.
BookInv ==
  /\ TypeInv
  /\ \A u \in Users \ registered : users[u].credit = 0
  /\ \A u \in Users : users[u].credit \in Had(ledger, u)
  /\ \A p \in Payments : pay[p].pc = "write" => pay[p].read \in Had(ledger, pay[p].user)
  /\ \A w \in Prizes : prize[w].pc = "write" => prize[w].read \in Had(ledger, prize[w].user)

\* A row that says what became of a credit is a step of the ledger.
LEMMA Posting ==
  ASSUME NEW u \in Users, NEW row \in Row, ledger \in Seq(Row),
         ledger' = Append(ledger, row),
         row.user = u, row.before \in Had(ledger, u), row.after = users'[u].credit,
         row.amount = users'[u].credit - users[u].credit,
         \A v \in Users \ {u} : users'[v].credit = users[v].credit
  PROVE  Book!Post(u)
<1> DEFINE credit == [v \in Users |-> users[v].credit]
           new == [v \in Users |-> users'[v].credit]
<1>1. new = [credit EXCEPT ![u] = new[u]]
  OBVIOUS
<1>2. Entries(ledger') = Append(Entries(ledger), Entry(row))
  BY EntriesAppend
<1>3. Entry(row) = [user |-> u, amount |-> new[u] - credit[u], before |-> row.before,
                    after |-> new[u]]
  BY DEF Entry
<1>4. row.before \in Book!Balances(u)
  <2>1. Book!Balances(u) = Had(ledger, u)
    BY DEF Book!Balances, Had
  <2> QED
    BY <2>1
<1> QED
  BY <1>1, <1>2, <1>3, <1>4 DEF Book!Post, Entries, Entry

\* The three steps that move money.
LEMMA CreatePosts ==
  ASSUME BookInv, NEW q \in Registrations, CreateUser(q)
  PROVE  /\ Book!Post(q)
         /\ \A u \in Users : users'[u].credit \in Had(ledger', u)
         /\ \A u \in Users : Had(ledger, u) \subseteq Had(ledger', u)
<1> DEFINE row == LedgerRow(q, "GIFT", GIFT_AMOUNT, 0)
<1>1. TypeInv /\ q \notin registered /\ users[q].credit = 0
  BY Created DEF BookInv
<1>2. row \in Row /\ GIFT_AMOUNT \in Int
  BY <1>1, RowType, AccountsAssumption
<1>3. ledger \in Seq(Row) /\ ledger' = Append(ledger, row)
  BY <1>1 DEF CreateUser, TypeInv, TypeOK, AccountsTypeOK
<1>4. users'[q].credit = GIFT_AMOUNT
  <2>1. NewUser(q).credit = GIFT_AMOUNT
    BY DEF NewUser, Unwritten
  <2> QED
    BY <1>1, <2>1, Created
<1>5. /\ row.user = q /\ row.amount = GIFT_AMOUNT /\ row.before = 0
      /\ row.after = GIFT_AMOUNT
  BY <1>1, <1>2 DEF LedgerRow
<1>6. \A v \in Users \ {q} : users'[v] = users[v]
  BY <1>1, Created
<1> HIDE DEF row
<1>7. Book!Post(q)
  BY <1>1, <1>2, <1>3, <1>4, <1>5, <1>6, Posting DEF Had
<1>8. /\ \A u \in Users : Had(ledger, u) \subseteq Had(ledger', u)
      /\ row.after \in Had(ledger', q)
  BY <1>2, <1>3, <1>5, HadAppend
<1> QED
  BY <1>4, <1>5, <1>6, <1>7, <1>8 DEF BookInv

LEMMA TransferPosts ==
  ASSUME BookInv, NEW k \in Transfer, NEW type \in {"GAME_ENTRY", "WINNING"},
         NEW amount \in Int, k.user \in registered, k.read \in Had(ledger, k.user),
         ledger' = Append(ledger, LedgerRow(k.user, type, amount, k.read)),
         users'[k.user].credit = users[k.user].credit + amount,
         \A v \in Users \ {k.user} : users'[v] = users[v]
  PROVE  /\ \E u \in registered : Book!Post(u)
         /\ \A u \in Users : users'[u].credit \in Had(ledger', u)
         /\ \A u \in Users : Had(ledger, u) \subseteq Had(ledger', u)
         /\ \A u \in Users \ registered : users'[u] = users[u]
<1> DEFINE row == LedgerRow(k.user, type, amount, k.read)
<1>1. TypeInv /\ k.user \in Users /\ ledger \in Seq(Row) /\ users[k.user].credit \in Int
  BY DEF BookInv, TypeInv, TypeOK, AccountsTypeOK, User
<1>2. row \in Row
  BY <1>1, RowType DEF Transfer
<1>3. /\ row.user = k.user /\ row.amount = amount /\ row.before = k.read
      /\ row.after = users'[k.user].credit
  BY DEF LedgerRow
<1>4. ledger' = Append(ledger, row)
  OBVIOUS
<1> PICK r : r = row
  OBVIOUS
<1> HIDE DEF row
<1>5. r.amount = users'[k.user].credit - users[k.user].credit
  BY <1>1, <1>3
<1>6. Book!Post(k.user)
  BY <1>1, <1>2, <1>3, <1>4, <1>5, Posting
<1>7. /\ \A u \in Users : Had(ledger, u) \subseteq Had(ledger', u)
      /\ row.after \in Had(ledger', k.user)
  BY <1>1, <1>2, <1>3, <1>4, HadAppend
<1> QED
  BY <1>3, <1>6, <1>7 DEF BookInv

LEMMA ChargePosts ==
  ASSUME BookInv, NEW p \in Payments, Charge(p)
  PROVE  /\ \E u \in registered : Book!Post(u)
         /\ \A u \in Users : users'[u].credit \in Had(ledger', u)
         /\ \A u \in Users : Had(ledger, u) \subseteq Had(ledger', u)
         /\ \A u \in Users \ registered : users'[u] = users[u]
<1> PICK k : k = pay[p]
  OBVIOUS
<1> PICK amount : amount = 0 - k.amount
  OBVIOUS
<1>1. k \in Transfer /\ k.pc = "write" /\ k.user \in registered /\ k.user \in Users
  BY DEF Charge, BookInv, TypeInv, TypeOK, AccountsTypeOK, WalletTypeOK, Holders
<1>2. k.read \in Had(ledger, k.user) /\ users \in [Users -> User]
  BY <1>1 DEF BookInv, TypeInv, TypeOK, AccountsTypeOK
<1>3. k.amount \in Int /\ amount \in Int /\ users[k.user] \in User
  BY <1>1, <1>2 DEF Transfer
<1>4. users'[k.user].credit = users[k.user].credit + amount
  BY <1>1, <1>2, <1>3 DEF Charge, User
<1>5. \A v \in Users \ {k.user} : users'[v] = users[v]
  BY <1>1, <1>2 DEF Charge
<1>6. ledger' = Append(ledger, LedgerRow(k.user, "GAME_ENTRY", amount, k.read))
  BY DEF Charge
<1> QED
  BY <1>1, <1>2, <1>3, <1>4, <1>5, <1>6, TransferPosts

LEMMA SettlePosts ==
  ASSUME BookInv, NEW w \in Prizes, Settle(w)
  PROVE  /\ \E u \in registered : Book!Post(u)
         /\ \A u \in Users : users'[u].credit \in Had(ledger', u)
         /\ \A u \in Users : Had(ledger, u) \subseteq Had(ledger', u)
         /\ \A u \in Users \ registered : users'[u] = users[u]
<1> PICK k : k = prize[w]
  OBVIOUS
<1>1. k \in Transfer /\ k.pc = "write" /\ k.user \in registered /\ k.user \in Users
  BY DEF Settle, BookInv, TypeInv, TypeOK, AccountsTypeOK, WalletTypeOK, Holders
<1>2. k.read \in Had(ledger, k.user) /\ users \in [Users -> User]
  BY <1>1 DEF BookInv, TypeInv, TypeOK, AccountsTypeOK
<1>3. k.amount \in Int /\ users[k.user] \in User
  BY <1>1, <1>2 DEF Transfer
<1>4. users'[k.user].credit = users[k.user].credit + k.amount
  BY <1>1, <1>2, <1>3 DEF Settle, User
<1>5. \A v \in Users \ {k.user} : users'[v] = users[v]
  BY <1>1, <1>2 DEF Settle
<1>6. ledger' = Append(ledger, LedgerRow(k.user, "WINNING", k.amount, k.read))
  BY DEF Settle
<1> QED
  BY <1>1, <1>2, <1>3, <1>4, <1>5, <1>6, TransferPosts

\* What the transfers under way have read stays a balance of their user's.
LEMMA ReadsStay ==
  ASSUME BookInv, [Next]_vars,
         \A u \in Users : Had(ledger, u) \subseteq Had(ledger', u)
  PROVE  /\ \A p \in Payments :
              pay'[p].pc = "write" => pay'[p].read \in Had(ledger', pay'[p].user)
         /\ \A w \in Prizes :
              prize'[w].pc = "write" => prize'[w].read \in Had(ledger', prize'[w].user)
<1>0. /\ TypeInv /\ registered \subseteq Users /\ WalletTypeOK
      /\ \A p \in Payments : pay[p].pc = "write" => pay[p].user \in Users
      /\ \A w \in Prizes : prize[w].pc = "write" => prize[w].user \in Users
  BY DEF BookInv, TypeInv, TypeOK, AccountsTypeOK, Holders
<1>1. ASSUME NEW p \in Payments, pay'[p] # pay[p], pay'[p].pc = "write"
      PROVE  pay'[p].user \in Users /\ pay'[p].read \in Had(ledger, pay'[p].user)
  <2>1. CASE ReadBalance(p)
    <3>1. PICK u \in registered, cost \in Costs :
            pay' = [pay EXCEPT ![p] = [pc |-> "write", user |-> u, amount |-> cost,
                                       read |-> users[u].credit]]
      BY <2>1 DEF ReadBalance
    <3>2. pay'[p].user = u /\ pay'[p].read = users[u].credit
      BY <1>0, <3>1 DEF WalletTypeOK
    <3> QED
      BY <1>0, <3>2 DEF BookInv
  <2>2. ~ Charge(p) /\ ~ ChargeFails(p)
    BY <1>0, <1>1 DEF Charge, ChargeFails, WalletTypeOK, NoTransfer, Transfer
  <2>3. WalletNext
    <3>1. ~ UNCHANGED walletVars
      BY <1>1 DEF walletVars
    <3> QED
      BY <3>1 DEF Next, vars, BuildUsername, CreateRandomBot
  <2>4. ASSUME NEW r \in Payments, ReadBalance(r) \/ Charge(r) \/ ChargeFails(r) PROVE r = p
    BY <1>0, <1>1, <2>4 DEF ReadBalance, Charge, ChargeFails, WalletTypeOK
  <2>5. ASSUME NEW w \in Prizes PROVE ~ (ReadCredit(w) \/ Settle(w) \/ SettleFails(w))
    BY <1>1 DEF ReadCredit, Settle, SettleFails
  <2> QED
    BY <2>1, <2>2, <2>3, <2>4, <2>5 DEF WalletNext
<1>2. ASSUME NEW w \in Prizes, prize'[w] # prize[w], prize'[w].pc = "write"
      PROVE  prize'[w].user \in Users /\ prize'[w].read \in Had(ledger, prize'[w].user)
  <2>1. CASE ReadCredit(w)
    <3>1. PICK u \in registered, amount \in Amounts :
            prize' = [prize EXCEPT ![w] = [pc |-> "write", user |-> u, amount |-> amount,
                                           read |-> users[u].credit]]
      BY <2>1 DEF ReadCredit
    <3>2. prize'[w].user = u /\ prize'[w].read = users[u].credit
      BY <1>0, <3>1 DEF WalletTypeOK
    <3> QED
      BY <1>0, <3>2 DEF BookInv
  <2>2. ~ Settle(w) /\ ~ SettleFails(w)
    BY <1>0, <1>2 DEF Settle, SettleFails, WalletTypeOK, NoTransfer, Transfer
  <2>3. WalletNext
    <3>1. ~ UNCHANGED walletVars
      BY <1>2 DEF walletVars
    <3> QED
      BY <3>1 DEF Next, vars, BuildUsername, CreateRandomBot
  <2>4. ASSUME NEW r \in Prizes, ReadCredit(r) \/ Settle(r) \/ SettleFails(r) PROVE r = w
    BY <1>0, <1>2, <2>4 DEF ReadCredit, Settle, SettleFails, WalletTypeOK
  <2>5. ASSUME NEW p \in Payments PROVE ~ (ReadBalance(p) \/ Charge(p) \/ ChargeFails(p))
    BY <1>2 DEF ReadBalance, Charge, ChargeFails
  <2> QED
    BY <2>1, <2>2, <2>3, <2>4, <2>5 DEF WalletNext
<1> QED
  BY <1>0, <1>1, <1>2 DEF BookInv

LEMMA BookInit == Init => BookInv /\ Book!Init
<1> SUFFICES ASSUME Init PROVE BookInv /\ Book!Init
  OBVIOUS
<1>1. \A u \in Users : users[u].credit = 0
  BY DEF Init, AccountsInit, Unwritten
<1>2. /\ \A p \in Payments : pay[p].pc = "idle"
      /\ \A w \in Prizes : prize[w].pc = "idle"
  BY DEF Init, WalletInit, NoTransfer
<1>3. ledger = <<>>
  BY DEF Init, AccountsInit
<1>4. BookInv
  BY <1>1, <1>2, TypeInit DEF BookInv, Had
<1>5. Book!Init
  <2>1. Entries(ledger) = <<>>
    BY <1>3 DEF Entries
  <2> QED
    BY <1>1, <2>1 DEF Book!Init, Entries, Entry
<1> QED
  BY <1>4, <1>5

\* Every step of the program posts one entry of the ledger, or none.
LEMMA BookStep == BookInv /\ [Next]_vars => BookInv' /\ [Book!Next]_(Book!vars)
<1> SUFFICES ASSUME BookInv, [Next]_vars
             PROVE  BookInv' /\ (Book!Next \/ UNCHANGED Book!vars)
  OBVIOUS
<1>0. TypeInv /\ TypeInv' /\ registered \subseteq Users
  BY TypeStep DEF BookInv, TypeInv, TypeOK, AccountsTypeOK
<1> DEFINE Kept ==
      /\ \A u \in Users : users'[u].credit \in Had(ledger', u)
      /\ \A u \in Users : Had(ledger, u) \subseteq Had(ledger', u)
      /\ \A u \in Users \ registered' : users'[u].credit = 0
<1>1. Kept => BookInv'
  BY <1>0, ReadsStay DEF BookInv
<1>2. ASSUME NEW q \in Registrations, CreateUser(q)
      PROVE  Kept /\ Book!Next
  <2>1. \A u \in Users \ registered' : users'[u].credit = 0
    BY <1>0, <1>2, Created DEF BookInv
  <2> QED
    BY <1>2, <2>1, CreatePosts DEF Book!Next
<1>3. ASSUME NEW c \in Completions, UpdateAccount(c)
      PROVE  Kept /\ UNCHANGED Book!vars
  <2>1. \A u \in Users : users'[u].credit = users[u].credit
    <3>1. ASSUME NEW u \in Users, u = comp[c].user PROVE users'[u].credit = users[u].credit
      <4>1. users[u] \in User
        BY <1>0 DEF TypeInv, TypeOK, AccountsTypeOK
      <4> QED
        BY <1>0, <1>3, <3>1, <4>1, Updated DEF User
    <3> QED
      BY <1>0, <1>3, <3>1, Updated
  <2>2. ledger' = ledger /\ registered' = registered
    BY <1>3 DEF UpdateAccount
  <2>3. Kept
    BY <2>1, <2>2 DEF BookInv
  <2>4. UNCHANGED Book!vars
    BY <2>1, <2>2 DEF Book!vars
  <2> QED
    BY <2>3, <2>4
<1>4. ASSUME NEW p \in Payments, Charge(p) PROVE Kept /\ Book!Next
  <2>1. registered' = registered
    BY <1>4 DEF Charge
  <2> QED
    BY <1>0, <1>4, <2>1, ChargePosts DEF Book!Next, BookInv
<1>5. ASSUME NEW w \in Prizes, Settle(w) PROVE Kept /\ Book!Next
  <2>1. registered' = registered
    BY <1>5 DEF Settle
  <2> QED
    BY <1>0, <1>5, <2>1, SettlePosts DEF Book!Next, BookInv
<1>6. CASE UNCHANGED <<registered, users, ledger>>
  <2>1. Kept
    BY <1>6 DEF BookInv
  <2>2. UNCHANGED Book!vars
    BY <1>6 DEF Book!vars
  <2> QED
    BY <1>1, <2>1, <2>2
<1> HIDE DEF Kept
<1> QED
  BY <1>0, <1>1, <1>2, <1>3, <1>4, <1>5, <1>6, Writers

\* The accounts, payments and prizes implement the abstract ledger: no credit
\* ever changes without the row that says so.
THEOREM LedgerCorrect == Spec => KeepsLedger
<1>1. Init => BookInv /\ Book!Init
  BY BookInit
<1>2. BookInv /\ [Next]_vars => BookInv' /\ [Book!Next]_(Book!vars)
  BY BookStep
<1> QED
  BY <1>1, <1>2, PTL DEF Spec, KeepsLedger, Book!Spec

-----------------------------------------------------------------------------
(* The sums of the ledger                                                  *)

\* The rows of a table that count for u, and what they come to.
Counted(table, u, types) ==
  {i \in DOMAIN table : table[i].user = u /\ table[i].type \in types}
AmountsOf(table) == [i \in DOMAIN table |-> table[i].amount]
Total(table, u, types) == SumFunctionOnSet(AmountsOf(table), Counted(table, u, types))

CreditTypes == {"GIFT", "GAME_ENTRY", "WINNING"}

\* LedgerAddsUp, and nothing to count before the user has a row in User.
TotalsInv ==
  /\ TypeInv
  /\ \A u \in Users \ registered : users[u].credit = 0 /\ users[u].withdrawable = 0
  /\ LedgerAddsUp

LEMMA CountedFinite ==
  ASSUME NEW table \in Seq(Row), NEW u, NEW types
  PROVE  /\ IsFiniteSet(Counted(table, u, types))
         /\ \A i \in DOMAIN table : AmountsOf(table)[i] \in Int
         /\ Total(table, u, types) \in Int
<1> DEFINE S == Counted(table, u, types)
<1>1. Len(table) \in Int /\ 1 \in Int /\ DOMAIN table = 1..Len(table)
  OBVIOUS
<1>2. IsFiniteSet(S)
  <2>1. IsFiniteSet(1..Len(table))
    BY <1>1, FS_Interval
  <2>2. S \in SUBSET (1..Len(table))
    BY <1>1 DEF Counted
  <2> QED
    BY <2>1, <2>2, FS_Subset
<1>3. \A i \in DOMAIN table : AmountsOf(table)[i] \in Int
  <2>1. \A i \in DOMAIN table : table[i] \in Row
    OBVIOUS
  <2> QED
    BY <2>1 DEF AmountsOf, Row
<1>4. \A i \in S : AmountsOf(table)[i] \in Int
  BY <1>3 DEF Counted
<1> HIDE DEF S
<1>5. SumFunctionOnSet(AmountsOf(table), S) \in Int
  BY <1>2, <1>4, SumIsInt
<1> QED
  BY <1>2, <1>3, <1>5 DEF Total, S

\* One more row counts for its user and its type, and for nobody else.
LEMMA TotalAppend ==
  ASSUME NEW table \in Seq(Row), NEW r \in Row, NEW u, NEW types
  PROVE  Total(Append(table, r), u, types)
           = Total(table, u, types)
               + (IF r.user = u /\ r.type \in types THEN r.amount ELSE 0)
<1> DEFINE more == Append(table, r)
           n == Len(table) + 1
           S == Counted(table, u, types)
           g == AmountsOf(table)
           h == AmountsOf(more)
<1>1. /\ more \in Seq(Row) /\ DOMAIN more = DOMAIN table \cup {n} /\ n \notin DOMAIN table
      /\ more[n] = r /\ \A i \in DOMAIN table : more[i] = table[i]
  OBVIOUS
<1>2. h[n] = r.amount /\ \A i \in DOMAIN table : h[i] = g[i]
  BY <1>1 DEF AmountsOf
<1>3. /\ Counted(more, u, types) = IF r.user = u /\ r.type \in types THEN S \cup {n} ELSE S
      /\ n \notin S /\ S \subseteq DOMAIN table
  BY <1>1 DEF Counted
<1>4. /\ IsFiniteSet(S) /\ \A i \in DOMAIN more : h[i] \in Int
      /\ SumFunctionOnSet(g, S) \in Int
  BY <1>1, CountedFinite DEF Total
<1>5. r.amount \in Int
  BY DEF Row
<1> HIDE DEF more, n, S, g, h
<1>6. SumFunctionOnSet(h, S) = SumFunctionOnSet(g, S)
  BY <1>2, <1>3, <1>4, SumSame
<1>7. SumFunctionOnSet(h, S \cup {n}) = h[n] + SumFunctionOnSet(h, S)
  <2>1. \A i \in S \cup {n} : h[i] \in Int
    BY <1>1, <1>3, <1>4
  <2> QED
    BY <1>3, <1>4, <2>1, SumOneMore
<1>8. CASE r.user = u /\ r.type \in types
  <2>1. SumFunctionOnSet(h, Counted(more, u, types)) = SumFunctionOnSet(g, S) + r.amount
    BY <1>2, <1>3, <1>4, <1>5, <1>6, <1>7, <1>8
  <2> QED
    BY <1>8, <2>1 DEF Total, more, S, g, h
<1>9. CASE ~ (r.user = u /\ r.type \in types)
  <2>1. SumFunctionOnSet(h, Counted(more, u, types)) = SumFunctionOnSet(g, S) + 0
    BY <1>3, <1>4, <1>6, <1>9
  <2> QED
    BY <1>9, <2>1 DEF Total, more, S, g, h
<1> QED
  BY <1>8, <1>9

LEMMA AddsUpTotals ==
  LedgerAddsUp <=> \A u \in Users : /\ users[u].credit = Total(ledger, u, CreditTypes)
                                   /\ users[u].withdrawable = Total(ledger, u, {"WINNING"})
BY DEF LedgerAddsUp, Posted, Total, AmountsOf, Counted, CreditTypes

\* A step that adds a row and moves the money of its user by its amount.
LEMMA RowAddsUp ==
  ASSUME LedgerAddsUp, TypeInv, NEW u \in Users, NEW row \in Row, row.user = u,
         ledger' = Append(ledger, row),
         users'[u].credit = users[u].credit + row.amount,
         users'[u].withdrawable =
           users[u].withdrawable + (IF row.type = "WINNING" THEN row.amount ELSE 0),
         \A v \in Users \ {u} : users'[v] = users[v]
  PROVE  LedgerAddsUp'
<1>1. ledger \in Seq(Row) /\ row.amount \in Int /\ row.type \in CreditTypes
  BY DEF TypeInv, TypeOK, AccountsTypeOK, Row, CreditTypes
<1>2. \A v \in Users : /\ users[v].credit = Total(ledger, v, CreditTypes)
                        /\ users[v].withdrawable = Total(ledger, v, {"WINNING"})
                        /\ Total(ledger, v, CreditTypes) \in Int
                        /\ Total(ledger, v, {"WINNING"}) \in Int
  BY <1>1, CountedFinite, AddsUpTotals
<1>3. ASSUME NEW v \in Users
      PROVE  /\ users'[v].credit = Total(ledger', v, CreditTypes)
             /\ users'[v].withdrawable = Total(ledger', v, {"WINNING"})
  <2>1. /\ Total(ledger', v, CreditTypes)
             = Total(ledger, v, CreditTypes) + (IF u = v THEN row.amount ELSE 0)
        /\ Total(ledger', v, {"WINNING"})
             = Total(ledger, v, {"WINNING"})
                 + (IF u = v /\ row.type = "WINNING" THEN row.amount ELSE 0)
    BY <1>1, TotalAppend
  <2>2. CASE v = u
    BY <1>2, <2>1, <2>2
  <2>3. CASE v # u
    BY <1>2, <2>1, <2>3
  <2> QED
    BY <2>2, <2>3
<1> QED
  BY <1>3 DEF LedgerAddsUp, Posted, Total, AmountsOf, Counted, CreditTypes

LEMMA TotalsInit == Init => TotalsInv
<1> SUFFICES ASSUME Init PROVE TotalsInv
  OBVIOUS
<1>1. /\ \A u \in Users : users[u].credit = 0 /\ users[u].withdrawable = 0
      /\ ledger = <<>>
  BY DEF Init, AccountsInit, Unwritten
<1>2. \A u, types : Total(ledger, u, types) = 0
  <2>1. \A u, types : Counted(ledger, u, types) = {}
    BY <1>1 DEF Counted
  <2> QED
    BY <2>1, SumOfNone DEF Total
<1> QED
  BY <1>1, <1>2, TypeInit, AddsUpTotals DEF TotalsInv

\* The three steps that move money.
LEMMA CreateAddsUp ==
  ASSUME TotalsInv, NEW q \in Registrations, CreateUser(q)
  PROVE  LedgerAddsUp'
<1> DEFINE row == LedgerRow(q, "GIFT", GIFT_AMOUNT, 0)
<1>1. TypeInv /\ q \notin registered /\ users[q].credit = 0 /\ users[q].withdrawable = 0
  BY Created DEF TotalsInv
<1>2. row \in Row /\ GIFT_AMOUNT \in Int
  BY <1>1, RowType, AccountsAssumption
<1>3. row.user = q /\ row.amount = GIFT_AMOUNT /\ row.type = "GIFT"
  BY DEF LedgerRow
<1>4. users'[q].credit = GIFT_AMOUNT /\ users'[q].withdrawable = 0
  <2>1. NewUser(q).credit = GIFT_AMOUNT /\ NewUser(q).withdrawable = 0
    BY DEF NewUser, Unwritten
  <2> QED
    BY <1>1, <2>1, Created
<1>5. ledger' = Append(ledger, row) /\ \A v \in Users \ {q} : users'[v] = users[v]
  BY <1>1, Created DEF CreateUser
<1> HIDE DEF row
<1>6. /\ users'[q].credit = users[q].credit + row.amount
      /\ users'[q].withdrawable =
           users[q].withdrawable + (IF row.type = "WINNING" THEN row.amount ELSE 0)
  BY <1>1, <1>2, <1>3, <1>4
<1> QED
  BY <1>1, <1>2, <1>3, <1>5, <1>6, RowAddsUp DEF TotalsInv

LEMMA ChargeAddsUp ==
  ASSUME TotalsInv, NEW p \in Payments, Charge(p)
  PROVE  LedgerAddsUp' /\ \A u \in Users \ registered : users'[u] = users[u]
<1> PICK k : k = pay[p]
  OBVIOUS
<1> DEFINE row == LedgerRow(k.user, "GAME_ENTRY", 0 - k.amount, k.read)
<1>1. /\ TypeInv /\ k \in Transfer /\ k.user \in registered /\ k.user \in Users
      /\ users \in [Users -> User]
  BY DEF Charge, TotalsInv, TypeInv, TypeOK, AccountsTypeOK, WalletTypeOK, Holders
<1>2. /\ k.amount \in Int /\ 0 - k.amount \in Int /\ k.read \in Int
      /\ users[k.user] \in User
  BY <1>1 DEF Transfer
<1>3. row \in Row
  BY <1>1, <1>2, RowType
<1>4. row.user = k.user /\ row.amount = 0 - k.amount /\ row.type = "GAME_ENTRY"
  BY DEF LedgerRow
<1>5. /\ users'[k.user].credit = users[k.user].credit - k.amount
      /\ users'[k.user].withdrawable = users[k.user].withdrawable
      /\ users[k.user].credit \in Int /\ users[k.user].withdrawable \in Int
  BY <1>1, <1>2 DEF Charge, User
<1>6. \A v \in Users \ {k.user} : users'[v] = users[v]
  BY <1>1 DEF Charge
<1>7. ledger' = Append(ledger, row)
  BY DEF Charge
<1> PICK r : r = row
  OBVIOUS
<1> HIDE DEF row
<1>8. /\ users'[k.user].credit = users[k.user].credit + r.amount
      /\ users'[k.user].withdrawable =
           users[k.user].withdrawable + (IF r.type = "WINNING" THEN r.amount ELSE 0)
  BY <1>2, <1>4, <1>5
<1> QED
  BY <1>1, <1>3, <1>4, <1>6, <1>7, <1>8, RowAddsUp DEF TotalsInv

LEMMA SettleAddsUp ==
  ASSUME TotalsInv, NEW w \in Prizes, Settle(w)
  PROVE  LedgerAddsUp' /\ \A u \in Users \ registered : users'[u] = users[u]
<1> PICK k : k = prize[w]
  OBVIOUS
<1> DEFINE row == LedgerRow(k.user, "WINNING", k.amount, k.read)
<1>1. /\ TypeInv /\ k \in Transfer /\ k.user \in registered /\ k.user \in Users
      /\ users \in [Users -> User]
  BY DEF Settle, TotalsInv, TypeInv, TypeOK, AccountsTypeOK, WalletTypeOK, Holders
<1>2. k.amount \in Int /\ k.read \in Int /\ users[k.user] \in User
  BY <1>1 DEF Transfer
<1>3. row \in Row
  BY <1>1, <1>2, RowType
<1>4. row.user = k.user /\ row.amount = k.amount /\ row.type = "WINNING"
  BY DEF LedgerRow
<1>5. /\ users'[k.user].credit = users[k.user].credit + k.amount
      /\ users'[k.user].withdrawable = users[k.user].withdrawable + k.amount
  BY <1>1, <1>2 DEF Settle, User
<1>6. \A v \in Users \ {k.user} : users'[v] = users[v]
  BY <1>1 DEF Settle
<1>7. ledger' = Append(ledger, row)
  BY DEF Settle
<1> PICK r : r = row
  OBVIOUS
<1> HIDE DEF row
<1>8. /\ users'[k.user].credit = users[k.user].credit + r.amount
      /\ users'[k.user].withdrawable =
           users[k.user].withdrawable + (IF r.type = "WINNING" THEN r.amount ELSE 0)
  BY <1>4, <1>5
<1> QED
  BY <1>1, <1>3, <1>4, <1>6, <1>7, <1>8, RowAddsUp DEF TotalsInv

LEMMA TotalsStep == TotalsInv /\ [Next]_vars => TotalsInv'
<1> SUFFICES ASSUME TotalsInv, [Next]_vars PROVE TotalsInv'
  OBVIOUS
<1>0. TypeInv /\ TypeInv' /\ registered \subseteq Users
  BY TypeStep DEF TotalsInv, TypeInv, TypeOK, AccountsTypeOK
<1> DEFINE Blank == \A u \in Users \ registered' :
                      users'[u].credit = 0 /\ users'[u].withdrawable = 0
<1>1. ASSUME NEW q \in Registrations, CreateUser(q) PROVE LedgerAddsUp' /\ Blank
  BY <1>0, <1>1, Created, CreateAddsUp DEF TotalsInv
<1>2. ASSUME NEW c \in Completions, UpdateAccount(c) PROVE LedgerAddsUp' /\ Blank
  <2>1. \A u \in Users : /\ users'[u].credit = users[u].credit
                          /\ users'[u].withdrawable = users[u].withdrawable
    <3>1. ASSUME NEW u \in Users, u = comp[c].user
          PROVE  /\ users'[u].credit = users[u].credit
                 /\ users'[u].withdrawable = users[u].withdrawable
      <4>1. users[u] \in User
        BY <1>0 DEF TypeInv, TypeOK, AccountsTypeOK
      <4> QED
        BY <1>0, <1>2, <3>1, <4>1, Updated DEF User
    <3> QED
      BY <1>0, <1>2, <3>1, Updated
  <2>2. ledger' = ledger /\ registered' = registered
    BY <1>2 DEF UpdateAccount
  <2> QED
    BY <2>1, <2>2 DEF TotalsInv, LedgerAddsUp, Posted
<1>3. ASSUME NEW p \in Payments, Charge(p) PROVE LedgerAddsUp' /\ Blank
  <2>1. registered' = registered
    BY <1>3 DEF Charge
  <2> QED
    BY <1>3, <2>1, ChargeAddsUp DEF TotalsInv
<1>4. ASSUME NEW w \in Prizes, Settle(w) PROVE LedgerAddsUp' /\ Blank
  <2>1. registered' = registered
    BY <1>4 DEF Settle
  <2> QED
    BY <1>4, <2>1, SettleAddsUp DEF TotalsInv
<1>5. CASE UNCHANGED <<registered, users, ledger>>
  BY <1>0, <1>5 DEF TotalsInv, LedgerAddsUp, Posted
<1> QED
  BY <1>0, <1>1, <1>2, <1>3, <1>4, <1>5, Writers DEF TotalsInv

\* The credit of a user is the sum of his ledger rows and his withdrawable
\* part that of his winnings, whatever payments and prizes overlap or fail.
THEOREM LedgerAddsUpCorrect == Spec => []LedgerAddsUp
<1>1. TotalsInv => LedgerAddsUp
  BY DEF TotalsInv
<1> QED
  BY <1>1, TotalsInit, TotalsStep, PTL DEF Spec

-----------------------------------------------------------------------------
(* Completions                                                             *)

\* Whoever has a written completion is no guest, so no further one is accepted.
CompInv ==
  /\ TypeInv
  /\ CompletionsBounded
  /\ \A c \in Completions : comp[c].pc = "done" => ~ users[comp[c].user].isGuest

\* What the steps of completions do to the others.
LEMMA CompStep ==
  ASSUME TypeInv, [Next]_vars, NEW c \in Completions, comp'[c] # comp[c]
  PROVE  /\ Complete(c) \/ CheckPhone(c) \/ UpdateAccount(c) \/ CompleteFails(c)
         /\ \A d \in Completions \ {c} : comp'[d] = comp[d]
<1>0. comp \in [Completions -> Completion]
  BY DEF TypeInv, TypeOK, AccountsTypeOK
<1>1. ASSUME NEW d \in Completions,
             Complete(d) \/ CheckPhone(d) \/ UpdateAccount(d) \/ CompleteFails(d)
      PROVE  \E k : comp' = [comp EXCEPT ![d] = k]
  BY <1>0, <1>1 DEF Complete, CheckPhone, UpdateAccount, CompleteFails, CompletionRefused
<1>2. ASSUME NEW d \in Completions,
             Complete(d) \/ CheckPhone(d) \/ UpdateAccount(d) \/ CompleteFails(d)
      PROVE  d = c /\ \A e \in Completions \ {c} : comp'[e] = comp[e]
  BY <1>0, <1>1, <1>2
<1>3. AccountsNext
  <2>1. CASE WalletNext
    BY <2>1 DEF WalletNext, ReadBalance, Charge, ChargeFails, ReadCredit, Settle,
                SettleFails, accountVars
  <2>2. CASE \E f \in Fills : BuildUsername(f) \/ CreateRandomBot(f)
    BY <2>2 DEF BuildUsername, CreateRandomBot, accountVars
  <2>3. CASE UNCHANGED vars
    BY <2>3 DEF vars, accountVars
  <2> QED
    BY <2>1, <2>2, <2>3 DEF Next
<1>4. ASSUME NEW q \in Registrations,
             \/ Register(q) \/ DrawCode(q) \/ ValidateReferrer(q)
             \/ CreateUser(q) \/ CreateFails(q)
      PROVE  comp' = comp
  BY <1>4 DEF Register, DrawCode, ValidateReferrer, CreateUser, CreateFails
<1>5. ASSUME NEW s \in SignIns, SignIn(s) \/ Compare(s) PROVE comp' = comp
  BY <1>5 DEF SignIn, Compare
<1> QED
  BY <1>2, <1>3, <1>4, <1>5 DEF AccountsNext

\* Who is a guest changes only for the user whose completion is written.
LEMMA GuestStays ==
  ASSUME TypeInv, [Next]_vars, NEW u \in registered,
         \A c \in Completions : UpdateAccount(c) => comp[c].user # u
  PROVE  /\ users'[u].isGuest = users[u].isGuest
         /\ users'[u].phone = users[u].phone
         /\ users'[u].password = users[u].password
<1>1. u \in Users /\ \A q \in Registrations : CreateUser(q) => q # u
  BY Created DEF TypeInv, TypeOK, AccountsTypeOK
<1>2. ASSUME NEW q \in Registrations, CreateUser(q) PROVE users'[u] = users[u]
  BY <1>1, <1>2, Created
<1>3. ASSUME NEW c \in Completions, UpdateAccount(c) PROVE users'[u] = users[u]
  BY <1>1, <1>3, Updated
<1> QED
  BY <1>1, <1>2, <1>3, MoneyOnly, Writers

\* A step accepts one completion of a guest, or none.
LEMMA AcceptStep ==
  ASSUME CompInv, [Next]_vars, NEW u \in Users, NEW A, A = Accepted(u)'
  PROVE  Cardinality(A) <= MaxPending
<1>0. TypeInv /\ comp \in [Completions -> Completion] /\ MaxPending \in Nat
  BY AccountsAssumption DEF CompInv, TypeInv, TypeOK, AccountsTypeOK
<1> DEFINE B == Accepted(u)
<1>1. /\ B \in SUBSET Completions /\ IsFiniteSet(B) /\ Cardinality(B) \in Nat
      /\ Cardinality(B) <= MaxPending
  BY AccountsAssumption, FS_Subset, FS_CardinalityType
     DEF Accepted, CompInv, CompletionsBounded
<1>2. ASSUME NEW c \in A, c \notin B PROVE Complete(c) /\ comp'[c].user = u
  <2>1. c \in Completions /\ comp'[c] # comp[c] /\ comp'[c].user = u /\ comp'[c].pc # "idle"
    BY <1>2 DEF Accepted
  <2>2. \/ Complete(c)
        \/ comp'[c].user = comp[c].user /\ comp[c].pc # "idle"
        \/ comp'[c].pc = "idle"
    <3>1. Complete(c) \/ CheckPhone(c) \/ UpdateAccount(c) \/ CompleteFails(c)
      BY <1>0, <2>1, CompStep
    <3>2. CASE CheckPhone(c)
      BY <1>0, <2>1, <3>2 DEF CheckPhone, CompletionRefused, NoCompletion, Completion
    <3>3. CASE UpdateAccount(c)
      BY <1>0, <2>1, <3>3 DEF UpdateAccount, Completion
    <3>4. CASE CompleteFails(c)
      BY <1>0, <2>1, <3>4 DEF CompleteFails, CompletionRefused, NoCompletion, Completion
    <3> QED
      BY <3>1, <3>2, <3>3, <3>4
  <2> QED
    BY <1>2, <2>1, <2>2 DEF Accepted
<1>3. CASE A \subseteq B
  <2>1. Cardinality(A) <= Cardinality(B) /\ Cardinality(A) \in Nat
    BY <1>1, <1>3, FS_Subset, FS_CardinalityType
  <2> QED
    BY <1>0, <1>1, <2>1
<1>4. CASE \E c \in A : c \notin B
  <2>1. PICK c \in A : Complete(c) /\ comp'[c].user = u
    BY <1>2, <1>4
  <2>2. /\ Cardinality(UnderWay(u)) < MaxPending /\ users[u].isGuest
        /\ c \in Completions /\ \A d \in Completions \ {c} : comp'[d] = comp[d]
    BY <1>0, <2>1 DEF Complete, Accepted
  <2>3. A \subseteq UnderWay(u) \cup {c}
    <3>1. \A d \in Completions : comp[d].user = u => comp[d].pc # "done"
      BY <2>2 DEF CompInv
    <3> QED
      BY <1>0, <2>2, <3>1 DEF Accepted, UnderWay, Completion
  <2> DEFINE W == UnderWay(u)
  <2>4. IsFiniteSet(W) /\ Cardinality(W) \in Nat
    BY AccountsAssumption, FS_Subset, FS_CardinalityType DEF UnderWay
  <2> HIDE DEF W
  <2>5. /\ IsFiniteSet(W \cup {c})
        /\ Cardinality(W \cup {c}) = IF c \in W THEN Cardinality(W) ELSE Cardinality(W) + 1
    BY <2>4, FS_AddElement
  <2>6. Cardinality(A) <= Cardinality(W \cup {c}) /\ Cardinality(A) \in Nat
    BY <2>3, <2>5, FS_Subset, FS_CardinalityType DEF W
  <2>7. Cardinality(W) < MaxPending
    BY <2>2 DEF W
  <2> QED
    BY <1>0, <2>4, <2>5, <2>6, <2>7
<1> QED
  BY <1>3, <1>4

\* A written completion stays, and its user no guest.
LEMMA DoneStays ==
  ASSUME CompInv, [Next]_vars, NEW c \in Completions, comp'[c].pc = "done"
  PROVE  ~ users'[comp'[c].user].isGuest
<1>0. TypeInv /\ comp \in [Completions -> Completion] /\ users \in [Users -> User]
  BY DEF CompInv, TypeInv, TypeOK, AccountsTypeOK
<1>1. CASE UpdateAccount(c)
  <2>1. comp'[c].user = comp[c].user
    BY <1>0, <1>1 DEF UpdateAccount, Completion
  <2>2. /\ comp[c].user \in Users
        /\ users'[comp[c].user] =
             [users[comp[c].user] EXCEPT !.phone = comp[c].phone, !.password = c,
                                         !.isGuest = FALSE]
    BY <1>0, <1>1, Updated DEF TypeInv, TypeOK, AccountsTypeOK
  <2> QED
    BY <1>0, <2>1, <2>2 DEF User
<1>2. CASE ~ UpdateAccount(c)
  <2>1. comp'[c] = comp[c]
    <3>1. comp'[c] # comp[c] => comp'[c].pc # "done"
      BY <1>0, <1>2, CompStep
         DEF Complete, CheckPhone, CompleteFails, CompletionRefused, NoCompletion,
             Completion
    <3> QED
      BY <3>1
  <2>2. comp[c].user \in registered /\ ~ users[comp[c].user].isGuest
    BY <1>0, <2>1 DEF CompInv, TypeInv, Holders
  <2>3. CASE \E d \in Completions : UpdateAccount(d) /\ comp[d].user = comp[c].user
    <3>1. PICK d \in Completions : UpdateAccount(d) /\ comp[d].user = comp[c].user
      BY <2>3
    <3>2. /\ comp[c].user \in Users
          /\ users'[comp[c].user] =
               [users[comp[c].user] EXCEPT !.phone = comp[d].phone, !.password = d,
                                           !.isGuest = FALSE]
      BY <1>0, <3>1, Updated DEF TypeInv, TypeOK, AccountsTypeOK
    <3> QED
      BY <1>0, <2>1, <3>2 DEF User
  <2>4. CASE ~ \E d \in Completions : UpdateAccount(d) /\ comp[d].user = comp[c].user
    <3>1. users'[comp[c].user].isGuest = users[comp[c].user].isGuest
      BY <1>0, <2>2, <2>4, GuestStays
    <3> QED
      BY <2>1, <2>2, <3>1
  <2> QED
    BY <2>3, <2>4
<1> QED
  BY <1>1, <1>2

\* However many completions follow each other, no more are accepted for an
\* account than were under way together: CompletionsBounded for every bound on
\* them, any requests and any failures.
THEOREM CompletionsBoundedCorrect == Spec => []CompletionsBounded
<1>1. Init => CompInv
  <2> SUFFICES ASSUME Init PROVE CompInv
    OBVIOUS
  <2>1. \A c \in Completions : comp[c].pc = "idle"
    BY DEF Init, AccountsInit, NoCompletion
  <2>2. \A u \in Users : Accepted(u) = {}
    BY <2>1 DEF Accepted
  <2>3. CompletionsBounded
    BY <2>2, AccountsAssumption, FS_EmptySet DEF CompletionsBounded
  <2> QED
    BY <2>1, <2>3, TypeInit DEF CompInv
<1>2. CompInv /\ [Next]_vars => CompInv'
  <2> SUFFICES ASSUME CompInv, [Next]_vars PROVE CompInv'
    OBVIOUS
  <2>1. TypeInv'
    BY TypeStep DEF CompInv
  <2>2. CompletionsBounded'
    BY AcceptStep DEF CompletionsBounded
  <2>3. \A c \in Completions : comp'[c].pc = "done" => ~ users'[comp'[c].user].isGuest
    BY DoneStays
  <2> QED
    BY <2>1, <2>2, <2>3 DEF CompInv
<1>3. CompInv => CompletionsBounded
  BY DEF CompInv
<1> QED
  BY <1>1, <1>2, <1>3, PTL DEF Spec

-----------------------------------------------------------------------------
(* The names of bots                                                       *)

\* The name a fill looks up is none of its bots'.
NameInv ==
  /\ TypeInv
  /\ BotsToldApart
  /\ \A f \in Fills : candidate[f] # NONE => candidate[f] \notin Range(named[f])

LEMMA InjectiveAppend ==
  ASSUME NEW S, NEW s \in Seq(S), NEW x \in S, IsInjective(s), x \notin Range(s)
  PROVE  IsInjective(Append(s, x))
<1> DEFINE t == Append(s, x)
<1>1. /\ DOMAIN s = 1..Len(s) /\ DOMAIN t = 1..(Len(s) + 1) /\ Len(s) \in Nat
      /\ \A i \in 1..Len(s) : t[i] = s[i]
      /\ t[Len(s) + 1] = x
  OBVIOUS
<1> HIDE DEF t
<1>2. \A i \in 1..Len(s) : s[i] # x
  BY <1>1 DEF Range
<1> QED
  BY <1>1, <1>2 DEF IsInjective, t

LEMMA NameStep == NameInv /\ [Next]_vars => NameInv'
<1> SUFFICES ASSUME NameInv, [Next]_vars
             PROVE  /\ BotsToldApart'
                    /\ \A f \in Fills :
                         candidate'[f] # NONE => candidate'[f] \notin Range(named'[f])
  BY TypeStep DEF NameInv
<1>0. candidate \in [Fills -> Names \cup {NONE}] /\ named \in [Fills -> Seq(Names)]
  BY DEF NameInv, TypeInv, TypeOK
<1>1. ASSUME NEW f \in Fills, BuildUsername(f)
      PROVE  /\ BotsToldApart'
             /\ \A g \in Fills :
                  candidate'[g] # NONE => candidate'[g] \notin Range(named'[g])
  <2>1. PICK name \in Names \ activeUsernames : candidate' = [candidate EXCEPT ![f] = name]
    BY <1>1 DEF BuildUsername
  <2>2. name \notin Range(named[f])
    BY <2>1 DEF activeUsernames
  <2>3. named' = named
    BY <1>1 DEF BuildUsername
  <2> QED
    BY <1>0, <2>1, <2>2, <2>3 DEF NameInv, BotsToldApart
<1>2. ASSUME NEW f \in Fills, CreateRandomBot(f)
      PROVE  /\ BotsToldApart'
             /\ \A g \in Fills :
                  candidate'[g] # NONE => candidate'[g] \notin Range(named'[g])
  <2>1. /\ candidate[f] \in Names /\ candidate[f] \notin Range(named[f])
        /\ IsInjective(named[f]) /\ named[f] \in Seq(Names)
    BY <1>0, <1>2 DEF CreateRandomBot, NameInv, BotsToldApart
  <2>2. IsInjective(Append(named[f], candidate[f]))
    BY <2>1, InjectiveAppend
  <2>3. /\ named'[f] = named[f] \/ named'[f] = Append(named[f], candidate[f])
        /\ \A g \in Fills \ {f} : named'[g] = named[g] /\ candidate'[g] = candidate[g]
        /\ candidate'[f] = NONE
    BY <1>0, <1>2 DEF CreateRandomBot
  <2> QED
    BY <2>1, <2>2, <2>3 DEF NameInv, BotsToldApart
<1>3. CASE UNCHANGED botVars
  BY <1>3 DEF botVars, NameInv, BotsToldApart
<1> QED
  BY <1>1, <1>2, <1>3 DEF Next, vars

\* However many fills look for names at once, the bots of one of them have
\* names of their own.
THEOREM BotsToldApartCorrect == Spec => []BotsToldApart
<1>1. Init => NameInv
  <2> SUFFICES ASSUME Init PROVE NameInv
    OBVIOUS
  <2>1. \A f \in Fills : candidate[f] = NONE /\ named[f] = <<>>
    BY DEF Init
  <2>2. IsInjective(<<>>)
    BY DEF IsInjective
  <2> QED
    BY <2>1, <2>2, TypeInit DEF NameInv, BotsToldApart
<1>2. Spec => []NameInv
  BY <1>1, NameStep, PTL DEF Spec
<1> QED
  BY <1>2, PTL DEF NameInv

-----------------------------------------------------------------------------
(* Who invites whom                                                        *)

Gift(table, i, u) == table[i].type = "GIFT" /\ table[i].user = u

\* A referrer is registered, and whoever is registered has his gift.
ReferrerInv ==
  /\ TypeInv
  /\ \A q \in Registrations : reg[q].referrer \in registered \cup {NONE}
  /\ \A i \in DOMAIN ledger : ledger[i].type = "GIFT" => ledger[i].user \in registered
  /\ \A u \in registered : \E i \in DOMAIN ledger : Gift(ledger, i, u)
  /\ ReferrerFirst

LEMMA ReferrerInit == Init => ReferrerInv
<1> SUFFICES ASSUME Init PROVE ReferrerInv
  OBVIOUS
<1>1. /\ registered = {} /\ referrals = {} /\ ledger = <<>>
      /\ \A q \in Registrations : reg[q].referrer = NONE
  BY DEF Init, AccountsInit, NoRegistration
<1>2. DOMAIN ledger = {}
  BY <1>1
<1> QED
  BY <1>1, <1>2, TypeInit DEF ReferrerInv, ReferrerFirst

\* A row at the end of the ledger leaves the others where they are.
LEMMA Appended ==
  ASSUME TypeInv, NEW r \in Row, ledger' = Append(ledger, r)
  PROVE  /\ DOMAIN ledger = 1..Len(ledger) /\ Len(ledger) \in Nat
         /\ DOMAIN ledger' = 1..(Len(ledger) + 1)
         /\ \A i \in DOMAIN ledger : ledger'[i] = ledger[i]
         /\ ledger'[Len(ledger) + 1] = r
<1>1. ledger \in Seq(Row)
  BY DEF TypeInv, TypeOK, AccountsTypeOK
<1> QED
  BY <1>1

LEMMA ReferrerCreate ==
  ASSUME ReferrerInv, NEW q \in Registrations, CreateUser(q), [Next]_vars
  PROVE  ReferrerInv'
<1> DEFINE n == Len(ledger) + 1
           row == LedgerRow(q, "GIFT", GIFT_AMOUNT, 0)
           boss == reg[q].referrer
<1>0. /\ TypeInv /\ TypeInv' /\ registered \subseteq Users
      /\ q \notin registered /\ registered' = registered \cup {q}
      /\ \A u \in registered : users'[u] = users[u]
  BY TypeStep, Created DEF ReferrerInv, TypeInv, TypeOK, AccountsTypeOK
<1>1. users'[q].referrer = boss /\ boss \in registered \cup {NONE}
  <2>1. NewUser(q).referrer = boss
    BY DEF NewUser, Unwritten
  <2> QED
    BY <1>0, <2>1, Created DEF ReferrerInv
<1>2. row \in Row /\ row.type = "GIFT" /\ row.user = q
  BY <1>0, RowType, AccountsAssumption DEF LedgerRow
<1>3. ledger' = Append(ledger, row)
  BY DEF CreateUser
<1> HIDE DEF row
<1>4. /\ DOMAIN ledger = 1..Len(ledger) /\ Len(ledger) \in Nat
      /\ DOMAIN ledger' = 1..n
      /\ \A i \in DOMAIN ledger : ledger'[i] = ledger[i]
      /\ ledger'[n] = row
  BY <1>0, <1>2, <1>3, Appended
<1>5. \A r \in Registrations : reg'[r].referrer = reg[r].referrer
  BY <1>0 DEF CreateUser, TypeInv, TypeOK, AccountsTypeOK, Registration
<1>6. \A i \in DOMAIN ledger' : ledger'[i].type = "GIFT" => ledger'[i].user \in registered'
  BY <1>0, <1>2, <1>4 DEF ReferrerInv
<1>7. \A u \in registered' : \E i \in DOMAIN ledger' : Gift(ledger', i, u)
  <2>1. Gift(ledger', n, q) /\ n \in DOMAIN ledger'
    BY <1>2, <1>4 DEF Gift
  <2>2. ASSUME NEW u \in registered PROVE \E i \in DOMAIN ledger' : Gift(ledger', i, u)
    <3>1. PICK i \in DOMAIN ledger : Gift(ledger, i, u)
      BY DEF ReferrerInv
    <3>2. i \in DOMAIN ledger' /\ Gift(ledger', i, u)
      BY <1>4, <3>1 DEF Gift
    <3> QED
      BY <3>2
  <2> QED
    BY <1>0, <2>1, <2>2
<1>8. referrals' = {<<users'[u].referrer, u>> :
                      u \in {v \in registered' : users'[v].referrer # NONE}}
  <2> DEFINE invited == {v \in registered : users[v].referrer # NONE}
             invited2 == {v \in registered' : users'[v].referrer # NONE}
  <2>1. referrals = {<<users[u].referrer, u>> : u \in invited}
    BY DEF ReferrerInv, ReferrerFirst
  <2>2. \A u \in invited : users'[u].referrer = users[u].referrer
    BY <1>0
  <2>3. CASE boss = NONE
    <3>1. referrals' = referrals
      BY <2>3 DEF CreateUser
    <3>2. invited2 = invited
      BY <1>0, <1>1, <2>3
    <3>3. {<<users'[u].referrer, u>> : u \in invited} = {<<users[u].referrer, u>> : u \in invited}
      BY <2>2
    <3> QED
      BY <2>1, <3>1, <3>2, <3>3, Zenon
  <2>4. CASE boss # NONE
    <3>1. referrals' = referrals \cup {<<boss, q>>}
      BY <2>4 DEF CreateUser
    <3>2. invited2 = invited \cup {q}
      BY <1>0, <1>1, <2>4
    <3>3. {<<users'[u].referrer, u>> : u \in invited} = {<<users[u].referrer, u>> : u \in invited}
      BY <2>2
    <3>4. {<<users'[u].referrer, u>> : u \in invited \cup {q}}
            = {<<users'[u].referrer, u>> : u \in invited} \cup {<<users'[q].referrer, q>>}
      OBVIOUS
    <3> QED
      BY <1>1, <2>1, <3>1, <3>2, <3>3, <3>4, Zenon
  <2> QED
    BY <2>3, <2>4
<1>9. ASSUME NEW i \in DOMAIN ledger', ledger'[i].type = "GIFT",
             users'[ledger'[i].user].referrer # NONE
      PROVE  \E k \in 1..(i - 1) : Gift(ledger', k, users'[ledger'[i].user].referrer)
  <2>1. CASE i = n
    <3>1. boss \in registered /\ users'[ledger'[i].user].referrer = boss
      BY <1>1, <1>2, <1>4, <1>9, <2>1
    <3>2. PICK k \in DOMAIN ledger : Gift(ledger, k, boss)
      BY <3>1 DEF ReferrerInv
    <3>3. k \in 1..(i - 1) /\ Gift(ledger', k, boss)
      BY <1>4, <2>1, <3>2 DEF Gift
    <3> QED
      BY <3>1, <3>3
  <2>2. CASE i # n
    <3>1. i \in DOMAIN ledger /\ ledger'[i] = ledger[i]
      BY <1>4, <2>2
    <3>2. users'[ledger[i].user] = users[ledger[i].user]
      BY <1>0, <1>9, <3>1 DEF ReferrerInv
    <3>3. PICK k \in 1..(i - 1) : Gift(ledger, k, users[ledger[i].user].referrer)
      BY <1>9, <3>1, <3>2 DEF ReferrerInv, ReferrerFirst, Gift
    <3>4. ledger'[k] = ledger[k]
      BY <1>4, <3>1
    <3> QED
      BY <3>1, <3>2, <3>3, <3>4 DEF Gift
  <2> QED
    BY <2>1, <2>2
<1>10. ReferrerFirst'
  BY <1>8, <1>9 DEF ReferrerFirst, Gift
<1> QED
  BY <1>0, <1>5, <1>6, <1>7, <1>10 DEF ReferrerInv

\* A payment or a prize adds a row that is no gift, and changes no referrer.
LEMMA ReferrerTransfer ==
  ASSUME ReferrerInv, TypeInv', NEW r \in Row, r.type # "GIFT", ledger' = Append(ledger, r),
         UNCHANGED <<registered, referrals, reg>>,
         \A u \in Users : users'[u].referrer = users[u].referrer
  PROVE  ReferrerInv'
<1> DEFINE n == Len(ledger) + 1
<1>1. /\ DOMAIN ledger = 1..Len(ledger) /\ Len(ledger) \in Nat
      /\ DOMAIN ledger' = 1..n
      /\ \A i \in DOMAIN ledger : ledger'[i] = ledger[i]
      /\ ledger'[n] = r
  BY Appended DEF ReferrerInv
<1>2. registered \subseteq Users
  BY DEF ReferrerInv, TypeInv, TypeOK, AccountsTypeOK
<1>3. ASSUME NEW i \in DOMAIN ledger', ledger'[i].type = "GIFT"
      PROVE  i \in DOMAIN ledger /\ ledger'[i] = ledger[i] /\ ledger[i].user \in registered
  BY <1>1, <1>3 DEF ReferrerInv
<1>4. ASSUME NEW u \in registered PROVE \E i \in DOMAIN ledger' : Gift(ledger', i, u)
  <2>1. PICK i \in DOMAIN ledger : Gift(ledger, i, u)
    BY DEF ReferrerInv
  <2>2. i \in DOMAIN ledger' /\ Gift(ledger', i, u)
    BY <1>1, <2>1 DEF Gift
  <2> QED
    BY <2>2
<1>5. referrals' = {<<users'[u].referrer, u>> :
                      u \in {v \in registered' : users'[v].referrer # NONE}}
  <2>1. \A u \in registered : users'[u].referrer = users[u].referrer
    BY <1>2
  <2>2. {v \in registered' : users'[v].referrer # NONE}
          = {v \in registered : users[v].referrer # NONE}
    BY <2>1
  <2> QED
    BY <2>1, <2>2 DEF ReferrerInv, ReferrerFirst
<1>6. ASSUME NEW i \in DOMAIN ledger', ledger'[i].type = "GIFT",
             users'[ledger'[i].user].referrer # NONE
      PROVE  \E k \in 1..(i - 1) : Gift(ledger', k, users'[ledger'[i].user].referrer)
  <2>1. /\ i \in DOMAIN ledger /\ ledger'[i] = ledger[i]
        /\ users'[ledger[i].user].referrer = users[ledger[i].user].referrer
    BY <1>2, <1>3, <1>6
  <2>2. PICK k \in 1..(i - 1) : Gift(ledger, k, users[ledger[i].user].referrer)
    BY <1>6, <2>1 DEF ReferrerInv, ReferrerFirst, Gift
  <2>3. ledger'[k] = ledger[k]
    BY <1>1, <2>1
  <2> QED
    BY <2>1, <2>2, <2>3 DEF Gift
<1>7. ReferrerFirst'
  BY <1>5, <1>6 DEF ReferrerFirst, Gift
<1> QED
  BY <1>3, <1>4, <1>7 DEF ReferrerInv

\* A referrer is looked up among the registered.
LEMMA ReferrerReg ==
  ASSUME ReferrerInv, [Next]_vars, NEW q \in Registrations
  PROVE  reg'[q].referrer \in registered \cup {NONE}
<1>0. reg \in [Registrations -> Registration] /\ reg[q].referrer \in registered \cup {NONE}
  BY DEF ReferrerInv, TypeInv, TypeOK, AccountsTypeOK
<1>1. CASE AccountsNext
  <2>1. ASSUME NEW p \in Registrations, Register(p) PROVE reg'[q].referrer = reg[q].referrer
    BY <1>0, <2>1 DEF Register, Registration
  <2>2. ASSUME NEW p \in Registrations, DrawCode(p) \/ CreateFails(p)
        PROVE  reg'[q].referrer \in {reg[q].referrer, NONE}
    <3>1. CASE RegistrationRefused(p)
      BY <1>0, <3>1 DEF RegistrationRefused, NoRegistration
    <3>2. ASSUME NEW code \in Codes,
                 reg' = [reg EXCEPT ![p].code = code,
                           ![p].pc = IF reg[p].invite = NONE THEN "create" ELSE "referrer"]
          PROVE  reg'[q].referrer = reg[q].referrer
      BY <1>0, <3>2 DEF Registration
    <3> QED
      BY <2>2, <3>1, <3>2 DEF DrawCode, CreateFails
  <2>3. ASSUME NEW p \in Registrations, ValidateReferrer(p)
        PROVE  reg'[q].referrer \in registered \cup {NONE}
    <3>1. CASE RegistrationRefused(p)
      BY <1>0, <3>1 DEF RegistrationRefused, NoRegistration
    <3>2. ASSUME NEW u \in registered,
                 reg' = [reg EXCEPT ![p].referrer = u, ![p].pc = "create"]
          PROVE  reg'[q].referrer \in registered \cup {NONE}
      BY <1>0, <3>2 DEF Registration
    <3> QED
      BY <2>3, <3>1, <3>2 DEF ValidateReferrer
  <2>4. ASSUME NEW p \in Registrations, CreateUser(p) PROVE reg'[q].referrer = reg[q].referrer
    BY <1>0, <2>4 DEF CreateUser, Registration
  <2>5. ASSUME NEW c \in Completions,
               Complete(c) \/ CheckPhone(c) \/ UpdateAccount(c) \/ CompleteFails(c)
        PROVE  reg' = reg
    BY <2>5 DEF Complete, CheckPhone, UpdateAccount, CompleteFails
  <2>6. ASSUME NEW s \in SignIns, SignIn(s) \/ Compare(s) PROVE reg' = reg
    BY <2>6 DEF SignIn, Compare
  <2> QED
    BY <1>0, <1>1, <2>1, <2>2, <2>3, <2>4, <2>5, <2>6 DEF AccountsNext
<1>2. CASE WalletNext
  BY <1>0, <1>2 DEF WalletNext, ReadBalance, Charge, ChargeFails, ReadCredit, Settle,
              SettleFails, accountVars
<1>3. CASE \E f \in Fills : BuildUsername(f) \/ CreateRandomBot(f)
  BY <1>0, <1>3 DEF BuildUsername, CreateRandomBot, accountVars
<1>4. CASE UNCHANGED vars
  BY <1>0, <1>4 DEF vars, accountVars
<1> QED
  BY <1>1, <1>2, <1>3, <1>4 DEF Next

\* The referral rows change with the users only.
LEMMA ReferralsStay ==
  ASSUME [Next]_vars, \A q \in Registrations : ~ CreateUser(q)
  PROVE  referrals' = referrals
<1>1. ASSUME NEW q \in Registrations,
             Register(q) \/ DrawCode(q) \/ ValidateReferrer(q) \/ CreateFails(q)
      PROVE  referrals' = referrals
  BY <1>1 DEF Register, DrawCode, ValidateReferrer, CreateFails
<1>2. ASSUME NEW c \in Completions,
             Complete(c) \/ CheckPhone(c) \/ UpdateAccount(c) \/ CompleteFails(c)
      PROVE  referrals' = referrals
  BY <1>2 DEF Complete, CheckPhone, UpdateAccount, CompleteFails
<1>3. ASSUME NEW s \in SignIns, SignIn(s) \/ Compare(s) PROVE referrals' = referrals
  BY <1>3 DEF SignIn, Compare
<1>4. CASE AccountsNext
  BY <1>1, <1>2, <1>3, <1>4 DEF AccountsNext
<1>5. CASE WalletNext
  BY <1>5 DEF WalletNext, ReadBalance, Charge, ChargeFails, ReadCredit, Settle,
              SettleFails, accountVars
<1>6. CASE \E f \in Fills : BuildUsername(f) \/ CreateRandomBot(f)
  BY <1>6 DEF BuildUsername, CreateRandomBot, accountVars
<1>7. CASE UNCHANGED vars
  BY <1>7 DEF vars, accountVars
<1> QED
  BY <1>4, <1>5, <1>6, <1>7 DEF Next

LEMMA ReferrerStep == ReferrerInv /\ [Next]_vars => ReferrerInv'
<1> SUFFICES ASSUME ReferrerInv, [Next]_vars PROVE ReferrerInv'
  OBVIOUS
<1>0. TypeInv /\ TypeInv'
  BY TypeStep DEF ReferrerInv
<1>1. ASSUME NEW q \in Registrations, CreateUser(q) PROVE ReferrerInv'
  BY <1>1, ReferrerCreate
<1>2. ASSUME NEW p \in Payments, Charge(p) PROVE ReferrerInv'
  <2>1. PICK r : r = LedgerRow(pay[p].user, "GAME_ENTRY", 0 - pay[p].amount, pay[p].read)
    OBVIOUS
  <2>2. pay[p] \in Transfer /\ pay[p].user \in Users
    BY <1>0, <1>2 DEF Charge, TypeInv, TypeOK, AccountsTypeOK, WalletTypeOK, Holders
  <2>3. 0 - pay[p].amount \in Int /\ pay[p].read \in Int
    BY <2>2 DEF Transfer
  <2>4. r \in Row /\ r.type # "GIFT"
    <3>1. r \in Row
      BY <1>0, <2>1, <2>2, <2>3, RowType
    <3> QED
      BY <2>1, <3>1 DEF LedgerRow
  <2>5. ledger' = Append(ledger, r) /\ UNCHANGED <<registered, referrals, reg>>
    BY <1>2, <2>1 DEF Charge
  <2> QED
    BY <1>0, <1>2, <2>4, <2>5, MoneyOnly, ReferrerTransfer
<1>3. ASSUME NEW w \in Prizes, Settle(w) PROVE ReferrerInv'
  <2>1. PICK r : r = LedgerRow(prize[w].user, "WINNING", prize[w].amount, prize[w].read)
    OBVIOUS
  <2>2. prize[w] \in Transfer /\ prize[w].user \in Users
    BY <1>0, <1>3 DEF Settle, TypeInv, TypeOK, AccountsTypeOK, WalletTypeOK, Holders
  <2>3. prize[w].amount \in Int /\ prize[w].read \in Int
    BY <2>2 DEF Transfer
  <2>4. r \in Row /\ r.type # "GIFT"
    <3>1. r \in Row
      BY <1>0, <2>1, <2>2, <2>3, RowType
    <3> QED
      BY <2>1, <3>1 DEF LedgerRow
  <2>5. ledger' = Append(ledger, r) /\ UNCHANGED <<registered, referrals, reg>>
    BY <1>3, <2>1 DEF Settle
  <2> QED
    BY <1>0, <1>3, <2>4, <2>5, MoneyOnly, ReferrerTransfer
\* Otherwise the ledger, and who invited whom, stay as they are.
<1>4. ASSUME UNCHANGED <<registered, ledger, referrals>>,
             \A u \in Users : users'[u].referrer = users[u].referrer
      PROVE  ReferrerInv'
  <2>0. registered \subseteq Users /\ \A i \in DOMAIN ledger : ledger[i] \in Row
    BY <1>0 DEF TypeInv, TypeOK, AccountsTypeOK
  <2>1. \A q \in Registrations : reg'[q].referrer \in registered' \cup {NONE}
    BY <1>4, ReferrerReg
  <2>2. {v \in registered' : users'[v].referrer # NONE}
          = {v \in registered : users[v].referrer # NONE}
    BY <1>4, <2>0
  <2>3. referrals' = {<<users'[u].referrer, u>> :
                        u \in {v \in registered' : users'[v].referrer # NONE}}
    BY <1>4, <2>0, <2>2 DEF ReferrerInv, ReferrerFirst
  <2>4. \A i \in DOMAIN ledger : users'[ledger[i].user].referrer = users[ledger[i].user].referrer
    BY <1>4, <2>0 DEF Row
  <2>5. ReferrerFirst'
    BY <1>4, <2>3, <2>4 DEF ReferrerInv, ReferrerFirst
  <2> QED
    BY <1>0, <1>4, <2>1, <2>5 DEF ReferrerInv, Gift
<1>5. ASSUME NEW c \in Completions, UpdateAccount(c) PROVE ReferrerInv'
  <2>1. UNCHANGED <<registered, ledger, referrals>>
    BY <1>5 DEF UpdateAccount
  <2>2. \A u \in Users : users'[u].referrer = users[u].referrer
    <3>1. \A u \in Users : users[u] \in User
      BY <1>0 DEF TypeInv, TypeOK, AccountsTypeOK
    <3>2. /\ comp[c].user \in registered /\ registered \subseteq Users
          /\ users'[comp[c].user] = [users[comp[c].user] EXCEPT !.phone = comp[c].phone,
                                       !.password = c, !.isGuest = FALSE]
          /\ \A v \in Users \ {comp[c].user} : users'[v] = users[v]
      BY <1>0, <1>5, Updated DEF TypeInv, TypeOK, AccountsTypeOK
    <3>3. users'[comp[c].user].referrer = users[comp[c].user].referrer
      BY <3>1, <3>2 DEF User
    <3> QED
      BY <3>2, <3>3
  <2> QED
    BY <1>4, <2>1, <2>2
<1>6. CASE /\ UNCHANGED <<registered, users, ledger>>
           /\ \A q \in Registrations : ~ CreateUser(q)
  BY <1>4, <1>6, ReferralsStay
<1> QED
  BY <1>0, <1>1, <1>2, <1>3, <1>5, <1>6, Writers

\* Nobody is invited by someone who was not registered before him, and the
\* referral rows are those of the users registered, however many registrations
\* overlap.
THEOREM ReferrerCorrect == Spec => []ReferrerFirst
<1>1. Spec => []ReferrerInv
  BY ReferrerInit, ReferrerStep, PTL DEF Spec
<1> QED
  BY <1>1, PTL DEF ReferrerInv

=============================================================================
