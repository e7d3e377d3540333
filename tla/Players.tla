------------------------------ MODULE Players ------------------------------
(***************************************************************************)
(* Everybody who plays: accounts with their money (Accounts, Wallet), and  *)
(* the names under which bots sit down between them (src/src/bot/services/ *)
(* bot.service.ts). A user name and the name of a bot come from one pool:  *)
(* a bot looks its name up in User, a user never looks for bots.           *)
(***************************************************************************)
EXTENDS Wallet

CONSTANTS
  Fills,          \* bot fills under way, each creating one bot after another
  MaxBots         \* bound: bots a fill creates

ASSUME BotsAssumption == MaxBots \in Nat

VARIABLES
  candidate, \* Fills -> the name being looked up, NONE when there is none
  named      \* Fills -> the names of the bots it has created, in order

botVars == <<candidate, named>>
vars == <<accountVars, walletVars, botVars>>

TypeOK ==
  /\ AccountsTypeOK
  /\ WalletTypeOK
  /\ candidate \in [Fills -> Names \cup {NONE}]
  /\ named \in [Fills -> Seq(Names)]

\* Mutant: createRandomBot forgets to keep the name.
NothingActive == {}

\* Nothing calls releaseUsername: a name once given stays in use.
activeUsernames == UNION {Range(named[f]) : f \in Fills}

Init ==
  /\ AccountsInit /\ WalletInit
  /\ candidate = [f \in Fills |-> NONE]
  /\ named = [f \in Fills |-> <<>>]

\* buildUsername, and the in-memory half of isAvailable.
BuildUsername(f) ==
  /\ candidate[f] = NONE /\ Len(named[f]) < MaxBots
  /\ \E name \in Names \ activeUsernames : candidate' = [candidate EXCEPT ![f] = name]
  /\ UNCHANGED <<accountVars, walletVars, named>>

NameFree(name) == ~ NameTaken(name)

\* Mutant: out of attempts, the bot gets an undefined name.
CreateRandomBotUnnamed(f) ==
  /\ candidate[f] # NONE
  /\ named' = [named EXCEPT ![f] =
                 Append(@, IF NameFree(candidate[f]) THEN candidate[f] ELSE NONE)]
  /\ candidate' = [candidate EXCEPT ![f] = NONE]
  /\ UNCHANGED <<accountVars, walletVars>>

\* The database answered; the memory is not looked at again.
CreateRandomBot(f) ==
  /\ candidate[f] # NONE
  /\ named' = IF NameFree(candidate[f])
              THEN [named EXCEPT ![f] = Append(@, candidate[f])] ELSE named
  /\ candidate' = [candidate EXCEPT ![f] = NONE]
  /\ UNCHANGED <<accountVars, walletVars>>

Next ==
  \/ AccountsNext /\ UNCHANGED <<walletVars, botVars>>
  \/ WalletNext /\ UNCHANGED botVars
  \/ \E f \in Fills : BuildUsername(f) \/ CreateRandomBot(f)

Spec == Init /\ [][Next]_vars

-----------------------------------------------------------------------------
(* Properties                                                              *)

\* The bots of one fill have names of their own, although a name is kept only
\* after the look-up and other fills and registrations run meanwhile.
BotsToldApart == \A f \in Fills : IsInjective(named[f])

=============================================================================
