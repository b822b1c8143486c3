---------------------------- MODULE TokenLedger -----------------------------
(***************************************************************************)
(* The enforcement contract together with what it protects: confidential   *)
(* tokens that call a hook before every operation and let its failure      *)
(* fail the operation, a policy contract whose answers change over time,   *)
(* and SACs whose issuers authorize and deauthorize accounts.  The token,  *)
(* the policy and the SAC are external; they are modelled from what the    *)
(* hooks' documentation asks of them (docs/integration.md) and from the    *)
(* meaning of the operations in hook-core.                                 *)
(*                                                                         *)
(* An operation and its hook are one transaction, and so one step.         *)
(* Proofs, signatures and allowances are the token's own and left out: any *)
(* spender may try to move any account's balance.                          *)
(***************************************************************************)
EXTENDS ComplianceHooks

CONSTANT
  Supply     \* the units of underlying asset each account starts with

ASSUME SupplyAssumption == Supply \in Nat

VARIABLES
  registered,   \* the (token, account) pairs with a confidential account
  underlying,   \* [token, account]: the asset outside the wrapper
  pending,      \* [token, account]: received, not merged yet
  spendable,    \* [token, account]: what transfers and withdrawals spend
  policySays,   \* [policy, token, account]: the answer a policy gives now
  sacSays       \* [sac, account]: the answer a SAC gives now

ledger == <<registered, underlying, pending, spendable>>

world == <<policySays, sacSays>>

systemVars == <<vars, ledger, world>>

Balances == [Tokens \X Accounts -> Nat]

LedgerTypeOK ==
  /\ TypeOK
  /\ registered \subseteq Tokens \X Accounts
  /\ underlying \in Balances
  /\ pending \in Balances
  /\ spendable \in Balances
  /\ policySays \in [Policies \X Tokens \X Accounts -> Answers]
  /\ sacSays \in [Sacs \X Accounts -> Answers]

LedgerInit ==
  /\ Init
  /\ registered = {}
  /\ underlying = [h \in Tokens \X Accounts |-> Supply]
  /\ pending = [h \in Tokens \X Accounts |-> 0]
  /\ spendable = [h \in Tokens \X Accounts |-> 0]
  /\ policySays \in [Policies \X Tokens \X Accounts -> Answers]
  /\ sacSays \in [Sacs \X Accounts -> Answers]

-----------------------------------------------------------------------------
(* The answers the hook gets for the parties of an operation on a token. *)

PolicyAnswerFor(token, account) ==
  IF config # None /\ config.policy # None
  THEN policySays[<<config.policy, token, account>>] ELSE "yes"

SacAnswerFor(token, account) ==
  IF binding[token] # None /\ binding[token].sac # None
  THEN sacSays[<<binding[token].sac, account>>] ELSE "yes"

PolicyAnswersFor(token, parties) ==
  [j \in DOMAIN parties |-> PolicyAnswerFor(token, parties[j])]

SacAnswersFor(token, parties) ==
  [j \in DOMAIN parties |-> SacAnswerFor(token, parties[j])]

-----------------------------------------------------------------------------
(* Token operations: the hook, and the token's own change if it allows. *)

\* A failed hook call fails the operation.
Applies(change) ==
  \/ tx'.result = Allow /\ change
  \/ tx'.result # Allow /\ UNCHANGED ledger

Credit(balances, token, account, amount) ==
  [balances EXCEPT ![<<token, account>>] = @ + amount]

Debit(balances, token, account, amount) ==
  [balances EXCEPT ![<<token, account>>] = @ - amount]

Register(token, account) ==
  LET parties == <<account>>
  IN  /\ BeforeRegister(token, account,
           PolicyAnswersFor(token, parties), SacAnswersFor(token, parties))
      /\ Applies(/\ registered' = registered \cup {<<token, account>>}
                 /\ UNCHANGED <<underlying, pending, spendable>>)

Deposit(token, from, to, amount) ==
  LET parties == <<from, to>>
  IN  /\ <<token, to>> \in registered
      /\ amount <= underlying[<<token, from>>]
      /\ BeforeDeposit(token, from, to,
           PolicyAnswersFor(token, parties), SacAnswersFor(token, parties))
      /\ Applies(/\ underlying' = Debit(underlying, token, from, amount)
                 /\ pending' = Credit(pending, token, to, amount)
                 /\ UNCHANGED <<registered, spendable>>)

\* What a direct and a delegated transfer do to the balances.
MoveSpendable(token, from, to, amount) ==
  /\ spendable' = Debit(spendable, token, from, amount)
  /\ pending' = Credit(pending, token, to, amount)
  /\ UNCHANGED <<registered, underlying>>

Transfer(token, from, to, amount) ==
  LET parties == <<from, to>>
  IN  /\ {<<token, from>>, <<token, to>>} \subseteq registered
      /\ amount <= spendable[<<token, from>>]
      /\ BeforeTransfer(token, from, to,
           PolicyAnswersFor(token, parties), SacAnswersFor(token, parties))
      /\ Applies(MoveSpendable(token, from, to, amount))

TransferFrom(token, spender, from, to, amount) ==
  LET parties == <<spender, from, to>>
  IN  /\ {<<token, from>>, <<token, to>>} \subseteq registered
      /\ amount <= spendable[<<token, from>>]
      /\ BeforeTransferFrom(token, spender, from, to,
           PolicyAnswersFor(token, parties), SacAnswersFor(token, parties))
      /\ Applies(MoveSpendable(token, from, to, amount))

Withdraw(token, account, amount) ==
  LET parties == <<account, account>>
  IN  /\ <<token, account>> \in registered
      /\ amount <= spendable[<<token, account>>]
      /\ BeforeWithdraw(token, account,
           PolicyAnswersFor(token, parties), SacAnswersFor(token, parties))
      /\ Applies(/\ spendable' = Debit(spendable, token, account, amount)
                 /\ underlying' = Credit(underlying, token, account, amount)
                 /\ UNCHANGED <<registered, pending>>)

\* Mutant: a merge takes a unit more than is pending.
Merge_OneTooMany(token, account) ==
  LET parties == <<account>>
  IN  /\ <<token, account>> \in registered
      /\ BeforeMerge(token, account,
           PolicyAnswersFor(token, parties), SacAnswersFor(token, parties))
      /\ Applies(/\ spendable' = Credit(spendable, token, account, 1)
                 /\ pending' = Debit(pending, token, account, 1)
                 /\ UNCHANGED <<registered, underlying>>)

Merge(token, account) ==
  LET parties == <<account>>
  IN  /\ <<token, account>> \in registered
      /\ BeforeMerge(token, account,
           PolicyAnswersFor(token, parties), SacAnswersFor(token, parties))
      /\ Applies(/\ spendable' = Credit(spendable, token, account, pending[<<token, account>>])
                 /\ pending' = [pending EXCEPT ![<<token, account>>] = 0]
                 /\ UNCHANGED <<registered, underlying>>)

-----------------------------------------------------------------------------
(* The policy's registries and the issuer's authorizations change freely. *)

PolicyChanges(policy, token, account, answer) ==
  /\ policySays' = [policySays EXCEPT ![<<policy, token, account>>] = answer]
  /\ UNCHANGED <<vars, ledger, sacSays>>

SacChanges(sac, account, answer) ==
  /\ sacSays' = [sacSays EXCEPT ![<<sac, account>>] = answer]
  /\ UNCHANGED <<vars, ledger, policySays>>

-----------------------------------------------------------------------------
TokenNext ==
  \E t \in Tokens, x \in Accounts :
    \/ Register(t, x)
    \/ Merge(t, x)
    \/ \E n \in 1 .. spendable[<<t, x>>] :
         \/ Withdraw(t, x, n)
         \/ \E y \in Accounts :
              \/ Transfer(t, x, y, n)
              \/ \E z \in Accounts : TransferFrom(t, z, x, y, n)
    \/ \E y \in Accounts, n \in 1 .. underlying[<<t, x>>] : Deposit(t, x, y, n)

WorldNext ==
  \E a \in Accounts, answer \in Answers :
    \/ \E p \in Policies, t \in Tokens : PolicyChanges(p, t, a, answer)
    \/ \E s \in Sacs : SacChanges(s, a, answer)

LedgerNext ==
  \/ AdminNext /\ UNCHANGED <<upgraded, ledger, world>>
  \/ TokenNext /\ UNCHANGED <<upgraded, world>>
  \/ WorldNext

LedgerSpec == LedgerInit /\ [][LedgerNext]_systemVars

-----------------------------------------------------------------------------
(* Properties. *)

\* All an account has on a token.
Holdings(token, account) ==
  [registered |-> <<token, account>> \in registered,
   underlying |-> underlying[<<token, account>>],
   pending    |-> pending[<<token, account>>],
   spendable  |-> spendable[<<token, account>>]]

(***************************************************************************)
(* Enforcement is on for the token, and every gate that applies to a       *)
(* fund-holder would let the account through.                              *)
(***************************************************************************)
Cleared(token, account) ==
  /\ config # None
  /\ binding[token] # None
  /\ <<token, account>> \notin frozen
  /\ config.policy # None => policySays[<<config.policy, token, account>>] = "yes"
  /\ config.sacPassthrough /\ binding[token].sac # None =>
       sacSays[<<binding[token].sac, account>>] = "yes"

(***************************************************************************)
(* What the enforcement layer is for.  Whatever operation is tried, by     *)
(* whom and in which role, and however the administration, the policy and  *)
(* the issuer interleave with it: a step changes an account's holdings on  *)
(* a token only while that account is cleared there.  A frozen, denied or  *)
(* deauthorized holder neither sends, receives, deposits, merges nor       *)
(* exits, and nothing moves on a token that is unbound or on a contract    *)
(* that is unconfigured.                                                   *)
(***************************************************************************)
OnlyClearedFundsMove ==
  [][\A t \in Tokens, a \in Accounts :
       Holdings(t, a)' # Holdings(t, a) => Cleared(t, a)]_systemVars
=============================================================================
