----------------------------- MODULE Evaluator ------------------------------
(***************************************************************************)
(* One evaluation as the contract runs it (crates/compliance): the party   *)
(* loop, gate by gate, with each cross-contract call to the policy         *)
(* (crates/policy-client) and to the SAC (compliance/src/sac.rs) a step of *)
(* its own.  The evaluator reads the contract's storage, which cannot      *)
(* change under it: the host forbids re-entry and runs one transaction at  *)
(* a time.  What the external contracts answer is theirs to choose, for    *)
(* each call anew.                                                         *)
(***************************************************************************)
EXTENDS Compliance

CONSTANTS Accounts, Policies, Sacs

Configs  == [policy : Policies \cup {None}, sacPassthrough : BOOLEAN]
Bindings == [sac : Sacs \cup {None}]

\* None is neither a configuration nor a binding nor a contract.
ASSUME NoneAssumption ==
  None \notin Configs /\ None \notin Bindings /\ None \notin Policies /\ None \notin Sacs

VARIABLES
  op, parties,         \* the operation, and the account in each of its roles
  config, binding,     \* the contract's configuration and the token's binding
  frozenHere,          \* the accounts frozen on the token
  policyAnswer,        \* what the policy answers when asked for the i-th party
  sacAnswer,           \* what the SAC answers when asked for the i-th party
  pc,                  \* the next step: structure, freeze, policy, sac, done
  i,                   \* the party being screened
  decision,            \* the decision so far
  calls                \* history: the cross-contract calls made, in order

request == <<op, parties, config, binding, frozenHere, policyAnswer, sacAnswer>>

vars == <<request, pc, i, decision, calls>>

\* The parties the six entry points pass; a withdrawal passes one account twice.
PartyLists(o) ==
  {p \in [1 .. Len(Parties(o)) -> Accounts] : o = "withdraw" => p[1] = p[2]}

EvaluationTypeOK ==
  /\ op \in Operations
  /\ parties \in PartyLists(op)
  /\ config \in Configs \cup {None}
  /\ binding \in Bindings \cup {None}
  /\ frozenHere \subseteq Accounts
  /\ policyAnswer \in [1 .. Len(Parties(op)) -> Answers]
  /\ sacAnswer \in [1 .. Len(Parties(op)) -> Answers]
  /\ pc \in {"structure", "freeze", "policy", "sac", "done"}
  /\ i \in 1 .. Len(Parties(op)) + 1
  /\ decision \in Decisions
  /\ calls \in Seq([to : {"policy", "sac"}, party : 1 .. 3])

Init ==
  /\ op \in Operations
  /\ parties \in PartyLists(op)
  /\ config \in Configs \cup {None}
  /\ binding \in Bindings \cup {None}
  /\ frozenHere \in SUBSET Accounts
  /\ policyAnswer \in [1 .. Len(Parties(op)) -> Answers]
  /\ sacAnswer \in [1 .. Len(Parties(op)) -> Answers]
  /\ pc = "structure"
  /\ i = 1
  /\ decision = Allow
  /\ calls = <<>>

-----------------------------------------------------------------------------
(* Steps. *)

Role == Parties(op)[i]

\* Mutant: a denial is recorded and the loop goes on with the next party.
Deny_LoopGoesOn(reason) ==
  /\ pc' = IF pc = "structure" \/ i = Len(parties) THEN "done" ELSE "freeze"
  /\ decision' = reason
  /\ i' = i + 1

\* A denial ends the loop with its reason.
Deny(reason) ==
  /\ pc' = "done"
  /\ decision' = reason
  /\ UNCHANGED i

Continue(next) ==
  /\ pc' = next
  /\ UNCHANGED <<i, decision>>

\* Mutant: the loop ends one party early.
NextParty_SkipsLast ==
  /\ i' = i + 1
  /\ pc' = IF i + 1 >= Len(parties) THEN "done" ELSE "freeze"
  /\ UNCHANGED decision

\* Where the loop stands once a party is through.
NextParty ==
  /\ i' = i + 1
  /\ pc' = IF i = Len(parties) THEN "done" ELSE "freeze"
  /\ UNCHANGED decision

\* A gate that denies ends the evaluation, one that allows moves it on.
Through(gate, onward) ==
  \/ gate # Allow /\ Deny(gate)
  \/ gate = Allow /\ onward

\* Mutant: parties are counted from zero.
Asks_ZeroBased(contract) == calls' = Append(calls, [to |-> contract, party |-> i - 1])

Asks(contract) == calls' = Append(calls, [to |-> contract, party |-> i])

CheckStructure ==
  /\ pc = "structure"
  /\ Through(StructuralGate(config, binding, op, parties), Continue("freeze"))
  /\ UNCHANGED <<request, calls>>

CheckFreeze ==
  /\ pc = "freeze"
  /\ Through(FreezeGate(Role, parties[i] \in frozenHere), Continue("policy"))
  /\ UNCHANGED <<request, calls>>

AskPolicy ==
  /\ pc = "policy"
  /\ config.policy # None
  /\ Asks("policy")
  /\ Through(PolicyGate(config.policy, Role, policyAnswer[i]), Continue("sac"))
  /\ UNCHANGED request

SkipPolicy ==
  /\ pc = "policy"
  /\ config.policy = None
  /\ Continue("sac")
  /\ UNCHANGED <<request, calls>>

AskSac ==
  /\ pc = "sac"
  /\ SacApplies(config.sacPassthrough, binding.sac, Role)
  /\ Asks("sac")
  /\ Through(SacGate(config.sacPassthrough, binding.sac, Role, sacAnswer[i]), NextParty)
  /\ UNCHANGED request

SkipSac ==
  /\ pc = "sac"
  /\ ~ SacApplies(config.sacPassthrough, binding.sac, Role)
  /\ NextParty
  /\ UNCHANGED <<request, calls>>

Next ==
  CheckStructure \/ CheckFreeze \/ AskPolicy \/ SkipPolicy \/ AskSac \/ SkipSac

\* The host runs a transaction it has started to its end.
Spec == Init /\ [][Next]_vars

-----------------------------------------------------------------------------
(* Properties. *)

(***************************************************************************)
(* The loop, with its early exits, computes the decision of Evaluate: the  *)
(* first denial in the canonical order of parties and gates, for every     *)
(* answer the external contracts may give, even two different ones for the *)
(* same account.                                                           *)
(***************************************************************************)
LoopMatchesEvaluate ==
  pc = "done" =>
    decision = Evaluate(config, binding, frozenHere, op, parties, policyAnswer, sacAnswer)

\* The external contracts answer by account: the same question, the same answer.
PureAnswers ==
  \A j, k \in DOMAIN parties :
    parties[j] = parties[k] =>
      policyAnswer[j] = policyAnswer[k] /\ sacAnswer[j] = sacAnswer[k]

(***************************************************************************)
(* The prediction oracle of the test suites (tests/common/mod.rs), which   *)
(* screens the account of a withdrawal once and knows a policy only by the *)
(* accounts it blocks.                                                     *)
(***************************************************************************)
OracleParties == IF op = "withdraw" THEN {1} ELSE DOMAIN parties

OracleReason(j) ==
  LET holdsFunds == op # "transfer_from" \/ j # 1
  IN  CASE holdsFunds /\ parties[j] \in frozenHere -> "account_frozen"
        [] ~ (holdsFunds /\ parties[j] \in frozenHere)
           /\ config.policy # None /\ policyAnswer[j] = "no" ->
             IF holdsFunds THEN "policy_denied" ELSE "spender_not_authorized"
        [] OTHER ->
             IF holdsFunds /\ config.sacPassthrough /\ binding.sac # None
                /\ sacAnswer[j] # "yes"
             THEN "sac_authorization_failed" ELSE Allow

Oracle ==
  CASE config = None -> "invalid_configuration"
    [] config # None /\ binding = None -> "unbound_token"
    [] OTHER ->
         LET denied == {j \in OracleParties : OracleReason(j) # Allow}
         IN  IF denied = {} THEN Allow
             ELSE OracleReason(CHOOSE j \in denied : \A k \in denied : j <= k)

(***************************************************************************)
(* With external contracts that answer by account and are never down, the  *)
(* evaluator decides as the tests' oracle predicts: in particular the      *)
(* second pass over the account of a withdrawal changes nothing.           *)
(***************************************************************************)
OracleParity ==
  pc = "done" /\ PureAnswers /\ (\A j \in DOMAIN parties : policyAnswer[j] # "fault") =>
    decision = Oracle

\* The calls a full screening of the parties makes, in order.
CallsFor(j) ==
     (IF config.policy # None THEN <<[to |-> "policy", party |-> j]>> ELSE <<>>)
  \o (IF SacApplies(config.sacPassthrough, binding.sac, Parties(op)[j])
      THEN <<[to |-> "sac", party |-> j]>> ELSE <<>>)

FullScreening ==
  CASE Len(parties) = 1 -> CallsFor(1)
    [] Len(parties) = 2 -> CallsFor(1) \o CallsFor(2)
    [] Len(parties) = 3 -> CallsFor(1) \o CallsFor(2) \o CallsFor(3)

(***************************************************************************)
(* An Allow is earned: every external gate the configuration turns on was  *)
(* asked about every party it applies to, once each and in order, the      *)
(* answers were all yes, and no fund-holder is frozen.                     *)
(***************************************************************************)
AllowIsEarned ==
  pc = "done" /\ decision = Allow =>
    /\ calls = FullScreening
    /\ \A k \in DOMAIN calls :
         LET j == calls[k].party
         IN  (IF calls[k].to = "policy" THEN policyAnswer[j] ELSE sacAnswer[j]) = "yes"
    /\ \A j \in DOMAIN parties : HoldsFunds(Parties(op)[j]) => parties[j] \notin frozenHere

(***************************************************************************)
(* A denial is cheap: whatever was called is a prefix of the full          *)
(* screening, every answer but the last was a yes, and a party that is     *)
(* stopped by its freeze has cost no call of its own.                      *)
(***************************************************************************)
DenialIsCheap ==
  pc = "done" /\ decision # Allow =>
    /\ calls # <<>> => calls = SubSeq(FullScreening, 1, Len(calls))
    /\ \A k \in 1 .. Len(calls) - 1 :
         LET j == calls[k].party
         IN  (IF calls[k].to = "policy" THEN policyAnswer[j] ELSE sacAnswer[j]) = "yes"
    /\ decision = "account_frozen" => \A k \in DOMAIN calls : calls[k].party < i
=============================================================================
