------------------------- MODULE TokenLedgerProofs --------------------------
(***************************************************************************)
(* Proofs about the enforcement contract together with the tokens it       *)
(* protects, for all sets of tokens, accounts, policies and SACs, whatever *)
(* the external contracts answer and whenever they change their answers.   *)
(***************************************************************************)
EXTENDS TokenLedger, ComplianceHooksProofs

\* The external contracts answer about every party of an operation.
LEMMA AnswersFor ==
  ASSUME LedgerTypeOK, NEW t \in Tokens, NEW parties,
         \A j \in DOMAIN parties : parties[j] \in Accounts
  PROVE  \A j \in DOMAIN parties :
           /\ PolicyAnswersFor(t, parties)[j] = PolicyAnswerFor(t, parties[j])
           /\ SacAnswersFor(t, parties)[j] = SacAnswerFor(t, parties[j])
           /\ PolicyAnswerFor(t, parties[j]) \in Answers
           /\ SacAnswerFor(t, parties[j]) \in Answers
<1> SUFFICES ASSUME NEW j \in DOMAIN parties
             PROVE  /\ PolicyAnswersFor(t, parties)[j] = PolicyAnswerFor(t, parties[j])
                    /\ SacAnswersFor(t, parties)[j] = SacAnswerFor(t, parties[j])
                    /\ PolicyAnswerFor(t, parties[j]) \in Answers
                    /\ SacAnswerFor(t, parties[j]) \in Answers
  OBVIOUS
<1>1. PolicyAnswersFor(t, parties)[j] = PolicyAnswerFor(t, parties[j])
  BY DEF PolicyAnswersFor
<1>2. SacAnswersFor(t, parties)[j] = SacAnswerFor(t, parties[j])
  BY DEF SacAnswersFor
<1>3. PolicyAnswerFor(t, parties[j]) \in Answers
  <2>1. "yes" \in Answers
    BY DEF Answers
  <2>2. CASE config # None /\ config.policy # None
    <3>1. config.policy \in Policies
      BY <2>2 DEF LedgerTypeOK, TypeOK, Configs
    <3> QED  BY <2>2, <3>1 DEF PolicyAnswerFor, LedgerTypeOK
  <2> QED  BY <2>1, <2>2 DEF PolicyAnswerFor
<1>4. SacAnswerFor(t, parties[j]) \in Answers
  <2>1. "yes" \in Answers
    BY DEF Answers
  <2>2. CASE binding[t] # None /\ binding[t].sac # None
    <3>1. binding[t].sac \in Sacs
      BY <2>2 DEF LedgerTypeOK, TypeOK, Bindings
    <3> QED  BY <2>2, <3>1 DEF SacAnswerFor, LedgerTypeOK
  <2> QED  BY <2>1, <2>2 DEF SacAnswerFor
<1> QED  BY <1>1, <1>2, <1>3, <1>4

(***************************************************************************)
(* A hook decides, and when it allows an operation every fund-holding      *)
(* party of it is cleared on the token.                                    *)
(***************************************************************************)
LEMMA HookClears ==
  ASSUME LedgerTypeOK, NEW op \in Operations, NEW t \in Tokens, NEW parties,
         DOMAIN parties = 1 .. Len(Parties(op)), Len(parties) = Len(Parties(op)),
         \A j \in DOMAIN parties : parties[j] \in Accounts,
         Enforce(op, t, parties, PolicyAnswersFor(t, parties), SacAnswersFor(t, parties))
  PROVE  /\ UNCHANGED store
         /\ tx' \in [fn : Operations, result : Decisions, event : {None}]
         /\ tx'.result = Allow =>
              \A j \in DOMAIN parties :
                HoldsFunds(Parties(op)[j]) => Cleared(t, parties[j])
<1> DEFINE frozenHere == {a \in Accounts : IsFrozen(t, a)}
           pa == PolicyAnswersFor(t, parties)
           sa == SacAnswersFor(t, parties)
           decision == Evaluate(config, binding[t], frozenHere, op, parties, pa, sa)
<1>1. \A j \in DOMAIN parties :
        /\ pa[j] = PolicyAnswerFor(t, parties[j]) /\ pa[j] \in Answers
        /\ sa[j] = SacAnswerFor(t, parties[j]) /\ sa[j] \in Answers
  BY AnswersFor
<1>2. /\ decision \in Decisions
      /\ decision = Allow =>
           /\ config # None
           /\ binding[t] # None
           /\ \A j \in DOMAIN parties :
                ScreenParty(config, binding[t].sac, Parties(op)[j],
                            parties[j] \in frozenHere, pa[j], sa[j]) = Allow
  <2> HIDE DEF pa, sa, frozenHere
  <2>1. \A j \in DOMAIN parties : pa[j] \in Answers /\ sa[j] \in Answers
    BY <1>1
  <2> QED  BY <2>1, EvaluateDecides, Zenon
<1>3. UNCHANGED store /\ tx' = [fn |-> op, result |-> decision, event |-> None]
  BY DEF Enforce, Leaves
<1>4. ASSUME decision = Allow, NEW j \in DOMAIN parties, HoldsFunds(Parties(op)[j])
      PROVE  Cleared(t, parties[j])
  <2> DEFINE role == Parties(op)[j]
             sac == binding[t].sac
             isFrozen == parties[j] \in frozenHere
  <2>1. config # None /\ binding[t] # None
    BY <1>2, <1>4
  <2>2. ScreenParty(config, sac, role, isFrozen, pa[j], sa[j]) = Allow
    BY <1>2, <1>4
  <2>3. /\ ~ isFrozen
        /\ config.policy # None => pa[j] = "yes"
        /\ SacApplies(config.sacPassthrough, sac, role) => sa[j] = "yes"
    <3> HIDE DEF pa, sa, role, sac, isFrozen
    <3>1. pa[j] \in Answers /\ sa[j] \in Answers
      BY <1>1
    <3>2. HoldsFunds(role)
      BY <1>4 DEF role
    <3> QED  BY <2>2, <3>1, <3>2, ScreenPartyAllows
  <2>4. <<t, parties[j]>> \notin frozen
    BY <2>3 DEF IsFrozen
  <2>5. config.policy # None => policySays[<<config.policy, t, parties[j]>>] = "yes"
    BY <1>1, <2>1, <2>3 DEF PolicyAnswerFor
  <2>6. config.sacPassthrough /\ sac # None => sacSays[<<sac, parties[j]>>] = "yes"
    BY <1>1, <1>4, <2>1, <2>3 DEF SacAnswerFor, SacApplies
  <2> QED  BY <2>1, <2>4, <2>5, <2>6 DEF Cleared
<1> HIDE DEF decision
<1> QED  BY <1>2, <1>3, <1>4
-----------------------------------------------------------------------------
(* What the token's own changes touch. *)

\* A credit changes one balance.
LEMMA CreditOne ==
  ASSUME NEW balances \in Balances, NEW t \in Tokens, NEW a \in Accounts, NEW n \in Nat
  PROVE  /\ Credit(balances, t, a, n) \in Balances
         /\ \A h \in Tokens \X Accounts :
              h # <<t, a>> => Credit(balances, t, a, n)[h] = balances[h]
<1>1. <<t, a>> \in Tokens \X Accounts
  OBVIOUS
<1> QED  BY <1>1 DEF Credit, Balances

\* A debit that the balance covers changes that balance, and to a natural number.
LEMMA DebitOne ==
  ASSUME NEW balances \in Balances, NEW t \in Tokens, NEW a \in Accounts, NEW n \in Nat,
         n <= balances[<<t, a>>]
  PROVE  /\ Debit(balances, t, a, n) \in Balances
         /\ \A h \in Tokens \X Accounts :
              h # <<t, a>> => Debit(balances, t, a, n)[h] = balances[h]
<1>1. <<t, a>> \in Tokens \X Accounts /\ balances[<<t, a>>] \in Nat
  BY DEF Balances
<1> QED  BY <1>1 DEF Debit, Balances

\* An account whose entries stay the same has the same holdings.
LEMMA SameHoldings ==
  ASSUME NEW t, NEW a,
         <<t, a>> \in registered' <=> <<t, a>> \in registered,
         underlying'[<<t, a>>] = underlying[<<t, a>>],
         pending'[<<t, a>>] = pending[<<t, a>>],
         spendable'[<<t, a>>] = spendable[<<t, a>>]
  PROVE  Holdings(t, a)' = Holdings(t, a)
<1>1. (<<t, a>> \in registered') = (<<t, a>> \in registered)
  OBVIOUS
<1> QED  BY <1>1, Zenon DEF Holdings

LedgerShape ==
  /\ registered \subseteq Tokens \X Accounts
  /\ underlying \in Balances
  /\ pending \in Balances
  /\ spendable \in Balances

\* The step leaves the entries of every account outside `touched' on t alone.
Touches(t, touched) ==
  \A h \in Tokens \X Accounts :
    h \notin {t} \X touched =>
      /\ h \in registered' <=> h \in registered
      /\ underlying'[h] = underlying[h]
      /\ pending'[h] = pending[h]
      /\ spendable'[h] = spendable[h]

(***************************************************************************)
(* An operation that keeps the shape of the ledger and touches fund-holders*)
(* only, applied if its hook allows it, changes only cleared holdings.     *)
(***************************************************************************)
LEMMA GuardedChange ==
  ASSUME LedgerTypeOK, NEW op \in Operations, NEW t \in Tokens, NEW parties,
         DOMAIN parties = 1 .. Len(Parties(op)), Len(parties) = Len(Parties(op)),
         \A j \in DOMAIN parties : parties[j] \in Accounts,
         Enforce(op, t, parties, PolicyAnswersFor(t, parties), SacAnswersFor(t, parties)),
         NEW touched \in SUBSET Accounts,
         \A a \in touched :
           \E j \in DOMAIN parties : parties[j] = a /\ HoldsFunds(Parties(op)[j]),
         \/ tx'.result = Allow /\ LedgerShape' /\ Touches(t, touched)
         \/ tx'.result # Allow /\ UNCHANGED ledger
  PROVE  /\ UNCHANGED store
         /\ tx' \in [fn : Operations, result : Decisions, event : {None}]
         /\ LedgerShape'
         /\ \A u \in Tokens, a \in Accounts :
              Holdings(u, a)' # Holdings(u, a) => Cleared(u, a)
<1>1. /\ UNCHANGED store
      /\ tx' \in [fn : Operations, result : Decisions, event : {None}]
      /\ tx'.result = Allow =>
           \A j \in DOMAIN parties : HoldsFunds(Parties(op)[j]) => Cleared(t, parties[j])
  BY HookClears, Zenon
<1>2. CASE tx'.result # Allow /\ UNCHANGED ledger
  <2>1. LedgerShape'
    BY <1>2 DEF LedgerTypeOK, LedgerShape, ledger
  <2>2. \A u, a : Holdings(u, a)' = Holdings(u, a)
    BY <1>2, SameHoldings DEF ledger
  <2> QED  BY <1>1, <2>1, <2>2
<1>3. CASE tx'.result = Allow /\ LedgerShape' /\ Touches(t, touched)
  <2> SUFFICES ASSUME NEW u \in Tokens, NEW a \in Accounts,
                      Holdings(u, a)' # Holdings(u, a)
               PROVE  Cleared(u, a)
    BY <1>1, <1>3
  <2>1. <<u, a>> \in {t} \X touched
    <3>1. ASSUME <<u, a>> \notin {t} \X touched
          PROVE  Holdings(u, a)' = Holdings(u, a)
      <4>1. <<u, a>> \in Tokens \X Accounts
        OBVIOUS
      <4>2. /\ <<u, a>> \in registered' <=> <<u, a>> \in registered
            /\ underlying'[<<u, a>>] = underlying[<<u, a>>]
            /\ pending'[<<u, a>>] = pending[<<u, a>>]
            /\ spendable'[<<u, a>>] = spendable[<<u, a>>]
        BY <1>3, <3>1, <4>1 DEF Touches
      <4> QED  BY <4>2, SameHoldings
    <3> QED  BY <3>1
  <2>2. u = t /\ a \in touched
    BY <2>1
  <2>3. PICK j \in DOMAIN parties : parties[j] = a /\ HoldsFunds(Parties(op)[j])
    BY <2>2
  <2> QED  BY <1>1, <1>3, <2>2, <2>3
<1> QED  BY <1>2, <1>3
-----------------------------------------------------------------------------
(* Operation by operation. *)

\* What every operation of a token does.
Guarded ==
  /\ UNCHANGED store
  /\ tx' \in [fn : Operations, result : Decisions, event : {None}]
  /\ LedgerShape'
  /\ \A u \in Tokens, a \in Accounts :
       Holdings(u, a)' # Holdings(u, a) => Cleared(u, a)

\* A registration is guarded: it touches the registering account.
LEMMA RegisterGuarded ==
  ASSUME LedgerTypeOK, NEW t \in Tokens, NEW x \in Accounts, Register(t, x)
  PROVE  Guarded
<1>1. "register" \in Operations /\ Parties("register") = <<"account">>
  BY DEF Operations, Parties
<1>2. HoldsFunds("account")
  BY DEF HoldsFunds, GateClass
<1>3. \/ tx'.result = Allow /\ LedgerShape' /\ Touches(t, {x})
      \/ tx'.result # Allow /\ UNCHANGED ledger
  BY DEF Register, Applies, LedgerTypeOK, LedgerShape, Touches
<1> DEFINE parties == <<x>>
<1>4. Enforce("register", t, parties, PolicyAnswersFor(t, parties), SacAnswersFor(t, parties))
  BY DEF Register, BeforeRegister
<1>5. /\ DOMAIN parties = 1 .. Len(Parties("register"))
      /\ Len(parties) = Len(Parties("register"))
      /\ \A j \in DOMAIN parties : parties[j] \in Accounts
      /\ \A a \in {x} :
           \E j \in DOMAIN parties : parties[j] = a /\ HoldsFunds(Parties("register")[j])
  BY <1>1, <1>2
<1>6. {x} \in SUBSET Accounts
  OBVIOUS
<1> HIDE DEF parties
<1> QED  BY <1>1, <1>3, <1>4, <1>5, <1>6, GuardedChange DEF Guarded

\* A merge is guarded: it touches the merging account.
LEMMA MergeGuarded ==
  ASSUME LedgerTypeOK, NEW t \in Tokens, NEW x \in Accounts, Merge(t, x)
  PROVE  Guarded
<1>1. "merge" \in Operations /\ Parties("merge") = <<"account">>
  BY DEF Operations, Parties
<1>2. HoldsFunds("account")
  BY DEF HoldsFunds, GateClass
<1>3. \/ tx'.result = Allow /\ LedgerShape' /\ Touches(t, {x})
      \/ tx'.result # Allow /\ UNCHANGED ledger
  <2>1. CASE tx'.result = Allow
    <3>1. /\ spendable' = Credit(spendable, t, x, pending[<<t, x>>])
          /\ pending' = [pending EXCEPT ![<<t, x>>] = 0]
          /\ UNCHANGED <<registered, underlying>>
      BY <2>1 DEF Merge, Applies
    <3>2. <<t, x>> \in Tokens \X Accounts /\ pending[<<t, x>>] \in Nat
      BY DEF LedgerTypeOK, Balances
    <3>3. /\ spendable' \in Balances
          /\ \A h \in Tokens \X Accounts : h # <<t, x>> => spendable'[h] = spendable[h]
      <4>1. spendable \in Balances
        BY DEF LedgerTypeOK
      <4> DEFINE merged == pending[<<t, x>>]
                 after  == Credit(spendable, t, x, merged)
      <4>2. /\ after \in Balances
            /\ \A h \in Tokens \X Accounts : h # <<t, x>> => after[h] = spendable[h]
        <5>1. merged \in Nat
          BY <3>2
        <5> HIDE DEF merged
        <5> QED  BY <4>1, <5>1, CreditOne
      <4> QED  BY <3>1, <4>2, Zenon
    <3>4. /\ pending' \in Balances
          /\ \A h \in Tokens \X Accounts : h # <<t, x>> => pending'[h] = pending[h]
      BY <3>1, <3>2 DEF LedgerTypeOK, Balances
    <3> QED  BY <2>1, <3>1, <3>3, <3>4 DEF LedgerTypeOK, LedgerShape, Touches
  <2> QED  BY <2>1 DEF Merge, Applies
<1> DEFINE parties == <<x>>
<1>4. Enforce("merge", t, parties, PolicyAnswersFor(t, parties), SacAnswersFor(t, parties))
  BY DEF Merge, BeforeMerge
<1>5. /\ DOMAIN parties = 1 .. Len(Parties("merge"))
      /\ Len(parties) = Len(Parties("merge"))
      /\ \A j \in DOMAIN parties : parties[j] \in Accounts
      /\ \A a \in {x} :
           \E j \in DOMAIN parties : parties[j] = a /\ HoldsFunds(Parties("merge")[j])
  BY <1>1, <1>2
<1>6. {x} \in SUBSET Accounts
  OBVIOUS
<1> HIDE DEF parties
<1> QED  BY <1>1, <1>3, <1>4, <1>5, <1>6, GuardedChange DEF Guarded

\* A deposit is guarded: it touches the depositor and the receiver.
LEMMA DepositGuarded ==
  ASSUME LedgerTypeOK, NEW t \in Tokens, NEW x \in Accounts, NEW y \in Accounts,
         NEW n \in Nat, Deposit(t, x, y, n)
  PROVE  Guarded
<1>1. "deposit" \in Operations /\ Parties("deposit") = <<"from", "to">>
  BY DEF Operations, Parties
<1>2. HoldsFunds("from") /\ HoldsFunds("to")
  BY DEF HoldsFunds, GateClass
<1>3. \/ tx'.result = Allow /\ LedgerShape' /\ Touches(t, {x, y})
      \/ tx'.result # Allow /\ UNCHANGED ledger
  <2>1. CASE tx'.result = Allow
    <3>1. /\ underlying' = Debit(underlying, t, x, n)
          /\ pending' = Credit(pending, t, y, n)
          /\ UNCHANGED <<registered, spendable>>
          /\ n <= underlying[<<t, x>>]
      BY <2>1 DEF Deposit, Applies
    <3>2. /\ underlying' \in Balances
          /\ \A h \in Tokens \X Accounts : h # <<t, x>> => underlying'[h] = underlying[h]
      BY <3>1, DebitOne DEF LedgerTypeOK
    <3>3. /\ pending' \in Balances
          /\ \A h \in Tokens \X Accounts : h # <<t, y>> => pending'[h] = pending[h]
      <4>1. pending \in Balances
        BY DEF LedgerTypeOK
      <4>2. LET after == Credit(pending, t, y, n)
            IN  /\ after \in Balances
                /\ \A h \in Tokens \X Accounts : h # <<t, y>> => after[h] = pending[h]
        BY <4>1, CreditOne
      <4> QED  BY <3>1, <4>2, Zenon
    <3> QED  BY <2>1, <3>1, <3>2, <3>3 DEF LedgerTypeOK, LedgerShape, Touches
  <2> QED  BY <2>1 DEF Deposit, Applies
<1> DEFINE parties == <<x, y>>
<1>4. Enforce("deposit", t, parties, PolicyAnswersFor(t, parties), SacAnswersFor(t, parties))
  BY DEF Deposit, BeforeDeposit
<1>5. /\ DOMAIN parties = 1 .. Len(Parties("deposit"))
      /\ Len(parties) = Len(Parties("deposit"))
      /\ \A j \in DOMAIN parties : parties[j] \in Accounts
      /\ \A a \in {x, y} :
           \E j \in DOMAIN parties : parties[j] = a /\ HoldsFunds(Parties("deposit")[j])
  BY <1>1, <1>2
<1>6. {x, y} \in SUBSET Accounts
  OBVIOUS
<1> HIDE DEF parties
<1> QED  BY <1>1, <1>3, <1>4, <1>5, <1>6, GuardedChange DEF Guarded

\* Moving a covered amount touches the two ends of the transfer.
LEMMA MoveTouchesTwo ==
  ASSUME LedgerTypeOK, NEW t \in Tokens, NEW x \in Accounts, NEW y \in Accounts,
         NEW n \in Nat, n <= spendable[<<t, x>>], MoveSpendable(t, x, y, n)
  PROVE  LedgerShape' /\ Touches(t, {x, y})
<1>1. /\ spendable' \in Balances
      /\ \A h \in Tokens \X Accounts : h # <<t, x>> => spendable'[h] = spendable[h]
  BY DebitOne DEF MoveSpendable, LedgerTypeOK
<1>2. /\ pending' \in Balances
      /\ \A h \in Tokens \X Accounts : h # <<t, y>> => pending'[h] = pending[h]
  <2>1. pending \in Balances
    BY DEF LedgerTypeOK
  <2>2. /\ Credit(pending, t, y, n) \in Balances
        /\ \A h \in Tokens \X Accounts :
             h # <<t, y>> => Credit(pending, t, y, n)[h] = pending[h]
    BY <2>1, CreditOne
  <2>3. pending' = Credit(pending, t, y, n)
    BY DEF MoveSpendable
  <2> QED  BY <2>2, <2>3, Zenon
<1> QED  BY <1>1, <1>2 DEF MoveSpendable, LedgerTypeOK, LedgerShape, Touches

\* A transfer is guarded.
LEMMA TransferGuarded ==
  ASSUME LedgerTypeOK, NEW t \in Tokens, NEW x \in Accounts, NEW y \in Accounts,
         NEW n \in Nat, Transfer(t, x, y, n)
  PROVE  Guarded
<1>1. "transfer" \in Operations /\ Parties("transfer") = <<"from", "to">>
  BY DEF Operations, Parties
<1>2. HoldsFunds("from") /\ HoldsFunds("to")
  BY DEF HoldsFunds, GateClass
<1>3. \/ tx'.result = Allow /\ LedgerShape' /\ Touches(t, {x, y})
      \/ tx'.result # Allow /\ UNCHANGED ledger
  BY MoveTouchesTwo DEF Transfer, Applies
<1> DEFINE parties == <<x, y>>
<1>4. Enforce("transfer", t, parties, PolicyAnswersFor(t, parties), SacAnswersFor(t, parties))
  BY DEF Transfer, BeforeTransfer
<1>5. /\ DOMAIN parties = 1 .. Len(Parties("transfer"))
      /\ Len(parties) = Len(Parties("transfer"))
      /\ \A j \in DOMAIN parties : parties[j] \in Accounts
      /\ \A a \in {x, y} :
           \E j \in DOMAIN parties : parties[j] = a /\ HoldsFunds(Parties("transfer")[j])
  BY <1>1, <1>2
<1>6. {x, y} \in SUBSET Accounts
  OBVIOUS
<1> HIDE DEF parties
<1> QED  BY <1>1, <1>3, <1>4, <1>5, <1>6, GuardedChange DEF Guarded

\* A delegated transfer is guarded: the spender's own holdings are not touched.
LEMMA TransferFromGuarded ==
  ASSUME LedgerTypeOK, NEW t \in Tokens, NEW x \in Accounts, NEW y \in Accounts,
         NEW z \in Accounts, NEW n \in Nat, TransferFrom(t, z, x, y, n)
  PROVE  Guarded
<1>1. /\ "transfer_from" \in Operations
      /\ Parties("transfer_from") = <<"spender", "from", "to">>
  BY DEF Operations, Parties
<1>2. HoldsFunds("from") /\ HoldsFunds("to")
  BY DEF HoldsFunds, GateClass
<1>3. \/ tx'.result = Allow /\ LedgerShape' /\ Touches(t, {x, y})
      \/ tx'.result # Allow /\ UNCHANGED ledger
  BY MoveTouchesTwo DEF TransferFrom, Applies
<1> DEFINE parties == <<z, x, y>>
<1>4. Enforce("transfer_from", t, parties, PolicyAnswersFor(t, parties), SacAnswersFor(t, parties))
  BY DEF TransferFrom, BeforeTransferFrom
<1>5. /\ DOMAIN parties = 1 .. Len(Parties("transfer_from"))
      /\ Len(parties) = Len(Parties("transfer_from"))
      /\ \A j \in DOMAIN parties : parties[j] \in Accounts
      /\ \A a \in {x, y} :
           \E j \in DOMAIN parties : parties[j] = a /\ HoldsFunds(Parties("transfer_from")[j])
  BY <1>1, <1>2
<1>6. {x, y} \in SUBSET Accounts
  OBVIOUS
<1> HIDE DEF parties
<1> QED  BY <1>1, <1>3, <1>4, <1>5, <1>6, GuardedChange DEF Guarded

\* A withdrawal is guarded, both its roles being the same account.
LEMMA WithdrawGuarded ==
  ASSUME LedgerTypeOK, NEW t \in Tokens, NEW x \in Accounts, NEW n \in Nat,
         Withdraw(t, x, n)
  PROVE  Guarded
<1>1. "withdraw" \in Operations /\ Parties("withdraw") = <<"from", "to">>
  BY DEF Operations, Parties
<1>2. HoldsFunds("from") /\ HoldsFunds("to")
  BY DEF HoldsFunds, GateClass
<1>3. \/ tx'.result = Allow /\ LedgerShape' /\ Touches(t, {x})
      \/ tx'.result # Allow /\ UNCHANGED ledger
  <2>1. CASE tx'.result = Allow
    <3>1. /\ spendable' = Debit(spendable, t, x, n)
          /\ underlying' = Credit(underlying, t, x, n)
          /\ UNCHANGED <<registered, pending>>
          /\ n <= spendable[<<t, x>>]
      BY <2>1 DEF Withdraw, Applies
    <3>2. /\ spendable' \in Balances
          /\ \A h \in Tokens \X Accounts : h # <<t, x>> => spendable'[h] = spendable[h]
      BY <3>1, DebitOne DEF LedgerTypeOK
    <3>3. /\ underlying' \in Balances
          /\ \A h \in Tokens \X Accounts : h # <<t, x>> => underlying'[h] = underlying[h]
      <4>1. underlying \in Balances
        BY DEF LedgerTypeOK
      <4>2. LET after == Credit(underlying, t, x, n)
            IN  /\ after \in Balances
                /\ \A h \in Tokens \X Accounts : h # <<t, x>> => after[h] = underlying[h]
        BY <4>1, CreditOne
      <4> QED  BY <3>1, <4>2, Zenon
    <3> QED  BY <2>1, <3>1, <3>2, <3>3 DEF LedgerTypeOK, LedgerShape, Touches
  <2> QED  BY <2>1 DEF Withdraw, Applies
<1> DEFINE parties == <<x, x>>
<1>4. Enforce("withdraw", t, parties, PolicyAnswersFor(t, parties), SacAnswersFor(t, parties))
  BY DEF Withdraw, BeforeWithdraw
<1>5. /\ DOMAIN parties = 1 .. Len(Parties("withdraw"))
      /\ Len(parties) = Len(Parties("withdraw"))
      /\ \A j \in DOMAIN parties : parties[j] \in Accounts
      /\ \A a \in {x} :
           \E j \in DOMAIN parties : parties[j] = a /\ HoldsFunds(Parties("withdraw")[j])
  BY <1>1, <1>2
<1>6. {x} \in SUBSET Accounts
  OBVIOUS
<1> HIDE DEF parties
<1> QED  BY <1>1, <1>3, <1>4, <1>5, <1>6, GuardedChange DEF Guarded

\* Every operation of every token is guarded.
LEMMA TokenStepGuarded ==
  ASSUME LedgerTypeOK, TokenNext
  PROVE  Guarded
<1>1. \A h \in Tokens \X Accounts : underlying[h] \in Nat /\ spendable[h] \in Nat
  BY DEF LedgerTypeOK, Balances
<1>2. PICK t \in Tokens, x \in Accounts :
        \/ Register(t, x)
        \/ Merge(t, x)
        \/ \E n \in Nat :
             \/ Withdraw(t, x, n)
             \/ \E y \in Accounts :
                  \/ Deposit(t, x, y, n)
                  \/ Transfer(t, x, y, n)
                  \/ \E z \in Accounts : TransferFrom(t, z, x, y, n)
  <2>1. PICK t \in Tokens, x \in Accounts :
          \/ Register(t, x)
          \/ Merge(t, x)
          \/ \E n \in 1 .. spendable[<<t, x>>] :
               \/ Withdraw(t, x, n)
               \/ \E y \in Accounts :
                    \/ Transfer(t, x, y, n)
                    \/ \E z \in Accounts : TransferFrom(t, z, x, y, n)
          \/ \E y \in Accounts, n \in 1 .. underlying[<<t, x>>] : Deposit(t, x, y, n)
    BY DEF TokenNext
  <2>2. \A n : n \in 1 .. spendable[<<t, x>>] \/ n \in 1 .. underlying[<<t, x>>] => n \in Nat
    BY <1>1
  <2> QED  BY <2>1, <2>2
<1> QED  BY <1>2, RegisterGuarded, MergeGuarded, DepositGuarded, TransferGuarded,
            TransferFromGuarded, WithdrawGuarded

-----------------------------------------------------------------------------
(* The system. *)

\* The system starts well typed.
LEMMA InitLedgerTypeOK ==
  ASSUME LedgerInit
  PROVE  LedgerTypeOK
<1>1. TypeOK
  BY InitTypeOK DEF LedgerInit
<1>2. underlying \in Balances /\ pending \in Balances /\ spendable \in Balances
  BY SupplyAssumption DEF LedgerInit, Balances
<1> QED  BY <1>1, <1>2 DEF LedgerInit, LedgerTypeOK

\* Every step of the system keeps the types and moves cleared holdings only.
LEMMA StepLedger ==
  ASSUME LedgerTypeOK, [LedgerNext]_systemVars
  PROVE  /\ LedgerTypeOK'
         /\ \A t \in Tokens, a \in Accounts :
              Holdings(t, a)' # Holdings(t, a) => Cleared(t, a)
<1>1. ASSUME UNCHANGED ledger
      PROVE  LedgerShape' /\ \A t, a : Holdings(t, a)' = Holdings(t, a)
  <2>1. LedgerShape'
    BY <1>1 DEF LedgerTypeOK, LedgerShape, ledger
  <2> QED  BY <1>1, <2>1, SameHoldings DEF ledger
<1>2. ASSUME UNCHANGED world
      PROVE  /\ policySays' \in [Policies \X Tokens \X Accounts -> Answers]
             /\ sacSays' \in [Sacs \X Accounts -> Answers]
  BY <1>2 DEF LedgerTypeOK, world
<1>3. CASE UNCHANGED systemVars
  <2>1. TypeOK'
    BY <1>3, StepTypeOK DEF systemVars, LedgerTypeOK
  <2> QED  BY <1>1, <1>2, <1>3, <2>1 DEF systemVars, LedgerTypeOK, LedgerShape
<1>4. CASE AdminNext /\ UNCHANGED <<upgraded, ledger, world>>
  <2>1. TypeOK'
    BY <1>4, StepTypeOK DEF Next, LedgerTypeOK
  <2> QED  BY <1>1, <1>2, <1>4, <2>1 DEF LedgerTypeOK, LedgerShape
<1>5. CASE TokenNext /\ UNCHANGED <<upgraded, world>>
  <2>1. Guarded
    BY <1>5, TokenStepGuarded
  <2>2. TypeOK'
    BY <1>5, <2>1 DEF Guarded, LedgerTypeOK, TypeOK, store, Results
  <2> QED  BY <1>2, <1>5, <2>1, <2>2 DEF Guarded, LedgerTypeOK, LedgerShape
<1>6. CASE WorldNext
  <2>1. UNCHANGED <<vars, ledger>>
    BY <1>6 DEF WorldNext, PolicyChanges, SacChanges
  <2>2. /\ policySays' \in [Policies \X Tokens \X Accounts -> Answers]
        /\ sacSays' \in [Sacs \X Accounts -> Answers]
    BY <1>6 DEF WorldNext, PolicyChanges, SacChanges, LedgerTypeOK
  <2>3. TypeOK'
    BY <2>1, StepTypeOK DEF LedgerTypeOK
  <2> QED  BY <1>1, <2>1, <2>2, <2>3 DEF LedgerTypeOK, LedgerShape
<1> QED  BY <1>3, <1>4, <1>5, <1>6 DEF LedgerNext

(***************************************************************************)
(* The contract, the tokens and the external contracts together keep their *)
(* types: in particular no operation ever overdraws a balance.             *)
(***************************************************************************)
THEOREM LedgerTypeCorrect == LedgerSpec => []LedgerTypeOK
  BY InitLedgerTypeOK, StepLedger, PTL DEF LedgerSpec

(***************************************************************************)
(* What the enforcement layer is for, at any number of tokens, accounts,   *)
(* policies and SACs: holdings change only where their owner is cleared.   *)
(***************************************************************************)
THEOREM Enforcement == LedgerSpec => OnlyClearedFundsMove
<1>1. LedgerTypeOK /\ [LedgerNext]_systemVars =>
        [\A t \in Tokens, a \in Accounts :
           Holdings(t, a)' # Holdings(t, a) => Cleared(t, a)]_systemVars
  BY StepLedger
<1> QED  BY <1>1, LedgerTypeCorrect, PTL DEF LedgerSpec, OnlyClearedFundsMove
-----------------------------------------------------------------------------
\* What external contracts answer an operation are answers.
LEMMA AnswersAreAnswers ==
  ASSUME LedgerTypeOK, NEW t \in Tokens, NEW n \in Nat,
         NEW parties, DOMAIN parties = 1 .. n, \A j \in 1 .. n : parties[j] \in Accounts
  PROVE  /\ PolicyAnswersFor(t, parties) \in [1 .. n -> Answers]
         /\ SacAnswersFor(t, parties) \in [1 .. n -> Answers]
<1>1. \A j \in DOMAIN parties :
        PolicyAnswerFor(t, parties[j]) \in Answers /\ SacAnswerFor(t, parties[j]) \in Answers
  BY AnswersFor
<1> QED  BY <1>1 DEF PolicyAnswersFor, SacAnswersFor

(***************************************************************************)
(* A token reaches the contract through its hook and nowhere else: behind  *)
(* any number of tokens, whatever the external contracts answer, the       *)
(* contract runs as it does alone, and what is proved of it holds here.    *)
(***************************************************************************)
THEOREM TokensOnlyCallHooks == LedgerSpec => Spec
<1>1. LedgerInit => Init
  BY DEF LedgerInit
<1>2. ASSUME LedgerTypeOK, TokenNext
      PROVE  HookNext
  <2>1. TypeOK
    BY <1>2 DEF LedgerTypeOK
  <2>2. PICK t \in Tokens, x \in Accounts :
          \/ Register(t, x)
          \/ Merge(t, x)
          \/ \E n \in 1 .. spendable[<<t, x>>] :
               \/ Withdraw(t, x, n)
               \/ \E y \in Accounts :
                    \/ Transfer(t, x, y, n)
                    \/ \E z \in Accounts : TransferFrom(t, z, x, y, n)
          \/ \E y \in Accounts, n \in 1 .. underlying[<<t, x>>] : Deposit(t, x, y, n)
    BY <1>2 DEF TokenNext
  <2>3. CASE Register(t, x) \/ Merge(t, x)
    <3>1. /\ PolicyAnswersFor(t, <<x>>) \in [1 .. 1 -> Answers]
          /\ SacAnswersFor(t, <<x>>) \in [1 .. 1 -> Answers]
      <4>1. 1 \in Nat /\ DOMAIN <<x>> = 1 .. 1 /\ \A j \in 1 .. 1 : <<x>>[j] \in Accounts
        OBVIOUS
      <4> QED  BY <1>2, <4>1, AnswersAreAnswers
    <3> QED  BY <2>1, <2>3, <3>1, AnyAnswersWillDo DEF Register, Merge
  <2>4. ASSUME NEW n, NEW y \in Accounts,
               \/ Withdraw(t, x, n)
               \/ Transfer(t, x, y, n)
               \/ Deposit(t, x, y, n)
        PROVE  HookNext
    <3>1. \A to \in Accounts :
            /\ PolicyAnswersFor(t, <<x, to>>) \in [1 .. 2 -> Answers]
            /\ SacAnswersFor(t, <<x, to>>) \in [1 .. 2 -> Answers]
      <4>1. \A to \in Accounts : /\ 2 \in Nat /\ DOMAIN <<x, to>> = 1 .. 2
                                /\ \A j \in 1 .. 2 : <<x, to>>[j] \in Accounts
        OBVIOUS
      <4> QED  BY <1>2, <4>1, AnswersAreAnswers
    <3>2. \/ BeforeWithdraw(t, x, PolicyAnswersFor(t, <<x, x>>), SacAnswersFor(t, <<x, x>>))
          \/ BeforeTransfer(t, x, y, PolicyAnswersFor(t, <<x, y>>), SacAnswersFor(t, <<x, y>>))
          \/ BeforeDeposit(t, x, y, PolicyAnswersFor(t, <<x, y>>), SacAnswersFor(t, <<x, y>>))
      BY <2>4, Zenon DEF Withdraw, Transfer, Deposit
    <3> QED  BY <2>1, <3>1, <3>2, AnyAnswersWillDo
  <2>5. ASSUME NEW n, NEW y \in Accounts, NEW z \in Accounts, TransferFrom(t, z, x, y, n)
        PROVE  HookNext
    <3>1. /\ PolicyAnswersFor(t, <<z, x, y>>) \in [1 .. 3 -> Answers]
          /\ SacAnswersFor(t, <<z, x, y>>) \in [1 .. 3 -> Answers]
      <4>1. /\ 3 \in Nat /\ DOMAIN <<z, x, y>> = 1 .. 3
            /\ \A j \in 1 .. 3 : <<z, x, y>>[j] \in Accounts
        OBVIOUS
      <4> QED  BY <1>2, <4>1, AnswersAreAnswers
    <3> QED  BY <2>1, <2>5, <3>1, AnyAnswersWillDo DEF TransferFrom
  <2> QED  BY <2>2, <2>3, <2>4, <2>5
<1>3. ASSUME LedgerTypeOK, [LedgerNext]_systemVars
      PROVE  [Next]_vars
  <2>1. CASE AdminNext /\ UNCHANGED <<upgraded, ledger, world>>
    BY <2>1 DEF Next
  <2>2. CASE TokenNext /\ UNCHANGED <<upgraded, world>>
    BY <1>2, <1>3, <2>2 DEF Next
  <2>3. CASE WorldNext
    BY <2>3 DEF WorldNext, PolicyChanges, SacChanges
  <2> QED  BY <1>3, <2>1, <2>2, <2>3 DEF LedgerNext, systemVars
<1> QED  BY <1>1, <1>3, LedgerTypeCorrect, PTL DEF LedgerSpec, Spec
=============================================================================
