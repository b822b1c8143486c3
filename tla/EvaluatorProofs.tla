-------------------------- MODULE EvaluatorProofs ---------------------------
(***************************************************************************)
(* Proofs about the evaluation as a loop, for every operation, list of     *)
(* parties, configuration, binding and list of answers.                    *)
(***************************************************************************)
EXTENDS Evaluator, ComplianceProofs, SequenceTheorems

-----------------------------------------------------------------------------
(* Type correctness. *)

\* The parties and the answers go with the roles.
LEMMA RequestTypes ==
  ASSUME EvaluationTypeOK
  PROVE  /\ Len(Parties(op)) \in 1 .. 3
         /\ DOMAIN parties = 1 .. Len(Parties(op))
         /\ Len(parties) = Len(Parties(op))
         /\ \A j \in 1 .. Len(parties) : policyAnswer[j] \in Answers /\ sacAnswer[j] \in Answers
<1>1. Len(Parties(op)) \in 1 .. 3
  BY PartiesCount DEF EvaluationTypeOK
<1>2. parties \in [1 .. Len(Parties(op)) -> Accounts]
  BY DEF EvaluationTypeOK, PartyLists
<1>3. Len(parties) = Len(Parties(op))
  <2>1. Len(Parties(op)) \in Nat
    BY <1>1
  <2> HIDE DEF Parties
  <2> QED  BY <1>2, <2>1
<1> QED  BY <1>1, <1>2, <1>3 DEF EvaluationTypeOK

LEMMA InitTypeOK ==
  ASSUME Init
  PROVE  EvaluationTypeOK
<1>1. Len(Parties(op)) \in 1 .. 3
  BY PartiesCount DEF Init
<1>2. i \in 1 .. Len(Parties(op)) + 1
  BY <1>1 DEF Init
<1>3. calls \in Seq([to : {"policy", "sac"}, party : 1 .. 3])
  BY DEF Init
<1> QED  BY <1>2, <1>3 DEF Init, EvaluationTypeOK, Decisions

\* The gates decide.
LEMMA GateDecisions ==
  /\ \A role, isFrozen : FreezeGate(role, isFrozen) \in Decisions
  /\ \A policy, role : \A answer \in Answers : PolicyGate(policy, role, answer) \in Decisions
  /\ \A passthrough, sac, role, answer :
       SacGate(passthrough, sac, role, answer) \in Decisions
  /\ StructuralGate(config, binding, op, parties) \in Decisions
BY DEF FreezeGate, PolicyGate, SacGate, StructuralGate, Decisions, RejectionReasons, Answers

-----------------------------------------------------------------------------
(* The first denial, and when the loop has found it. *)

LEMMA FirstDenialIs ==
  ASSUME NEW n \in 1 .. 3, NEW ds, DOMAIN ds = 1 .. n,
         NEW m \in 1 .. n, ds[m] # Allow, \A j \in 1 .. m - 1 : ds[j] = Allow
  PROVE  FirstDenial(ds) = ds[m]
<1> DEFINE denied == {j \in DOMAIN ds : ds[j] # Allow}
           least  == CHOOSE j \in denied : \A k \in denied : j <= k
<1>1. m \in denied
  OBVIOUS
<1>2. \A k \in denied : m <= k
  <2> SUFFICES ASSUME NEW k \in 1 .. n, k < m
               PROVE  ds[k] = Allow
    OBVIOUS
  <2> QED  OBVIOUS
<1>3. least \in denied /\ \A k \in denied : least <= k
  BY <1>1, <1>2
<1>4. least = m
  <2>1. least <= m /\ m <= least
    BY <1>1, <1>2, <1>3
  <2>2. least \in Nat /\ m \in Nat
    BY <1>3
  <2> HIDE DEF least
  <2> QED  BY <2>1, <2>2
<1>5. FirstDenial(ds) = ds[least]
  BY <1>1 DEF FirstDenial
<1> QED  BY <1>4, <1>5

LEMMA NoDenialIs ==
  ASSUME NEW ds, \A j \in DOMAIN ds : ds[j] = Allow
  PROVE  FirstDenial(ds) = Allow
  BY DEF FirstDenial

\* What the gates say of the j-th party.
Screened(j) ==
  ScreenParty(config, binding.sac, Parties(op)[j], parties[j] \in frozenHere,
              policyAnswer[j], sacAnswer[j])

Structure == StructuralGate(config, binding, op, parties)

Decided == Evaluate(config, binding, frozenHere, op, parties, policyAnswer, sacAnswer)

LEMMA DecidedForm ==
  ASSUME EvaluationTypeOK
  PROVE  /\ Structure # Allow => Decided = Structure
         /\ \A m \in 1 .. Len(parties) :
              /\ Structure = Allow /\ Screened(m) # Allow
              /\ \A j \in 1 .. m - 1 : Screened(j) = Allow
              => Decided = Screened(m)
         /\ Structure = Allow /\ (\A j \in 1 .. Len(parties) : Screened(j) = Allow)
              => Decided = Allow
<1> DEFINE ds == [j \in DOMAIN parties |->
                    ScreenParty(config, binding.sac, Parties(op)[j],
                                parties[j] \in frozenHere, policyAnswer[j], sacAnswer[j])]
<1>1. Decided = AndThen(Structure, FirstDenial(ds))
  BY Zenon DEF Decided, Evaluate, Structure
<1>2. DOMAIN ds = 1 .. Len(parties) /\ Len(parties) \in 1 .. 3
  BY RequestTypes
<1>3. \A j \in 1 .. Len(parties) : ds[j] = Screened(j)
  BY RequestTypes, Zenon DEF Screened
<1> HIDE DEF ds
<1>4. ASSUME NEW m \in 1 .. Len(parties), Structure = Allow, Screened(m) # Allow,
             \A j \in 1 .. m - 1 : Screened(j) = Allow
      PROVE  Decided = Screened(m)
  <2>1. ds[m] # Allow /\ \A j \in 1 .. m - 1 : ds[j] = Allow
    BY <1>2, <1>3, <1>4
  <2>2. FirstDenial(ds) = ds[m]
    BY <1>2, <2>1, FirstDenialIs
  <2> QED  BY <1>1, <1>3, <1>4, <2>2 DEF AndThen
<1>5. ASSUME Structure = Allow, \A j \in 1 .. Len(parties) : Screened(j) = Allow
      PROVE  Decided = Allow
  BY <1>1, <1>2, <1>3, <1>5, NoDenialIs DEF AndThen
<1>6. Structure # Allow => Decided = Structure
  BY <1>1 DEF AndThen
<1> QED  BY <1>4, <1>5, <1>6

-----------------------------------------------------------------------------
(***************************************************************************)
(* The loop.  The inductive invariant says where a party stands in it: all *)
(* before it are let through, it has passed the gates before the one it is *)
(* at, and once the loop has ended the decision is that of Evaluate.       *)
(***************************************************************************)
AtGates == pc \in {"freeze", "policy", "sac"}

LoopInv ==
  /\ ~ AtGates => pc \in {"structure", "done"}
  /\ pc = "structure" => i = 1 /\ decision = Allow
  /\ AtGates => /\ i \in 1 .. Len(parties)
                /\ decision = Allow
                /\ Structure = Allow
                /\ \A j \in 1 .. i - 1 : Screened(j) = Allow
  /\ pc \in {"policy", "sac"} => FreezeGate(Role, parties[i] \in frozenHere) = Allow
  /\ pc = "sac" => PolicyGate(config.policy, Role, policyAnswer[i]) = Allow
  /\ pc = "done" => decision = Decided

\* The request stays the same while it is evaluated.
LEMMA SameRequest ==
  ASSUME UNCHANGED request
  PROVE  /\ op' = op /\ parties' = parties /\ config' = config /\ binding' = binding
         /\ frozenHere' = frozenHere /\ policyAnswer' = policyAnswer /\ sacAnswer' = sacAnswer
         /\ Structure' = Structure
         /\ Decided' = Decided
         /\ \A j : Screened(j)' = Screened(j)
<1>1. /\ op' = op /\ parties' = parties /\ config' = config /\ binding' = binding
      /\ frozenHere' = frozenHere /\ policyAnswer' = policyAnswer /\ sacAnswer' = sacAnswer
  BY DEF request
<1> QED  BY <1>1, Zenon DEF Structure, Decided, Screened

\* A party's three gates, once the ones before have let it through.
LEMMA GatesInTurn ==
  ASSUME NEW m
  PROVE  LET freeze == FreezeGate(Parties(op)[m], parties[m] \in frozenHere)
             policy == PolicyGate(config.policy, Parties(op)[m], policyAnswer[m])
             sac == SacGate(config.sacPassthrough, binding.sac, Parties(op)[m], sacAnswer[m])
         IN  /\ freeze # Allow => Screened(m) = freeze
             /\ freeze = Allow /\ policy # Allow => Screened(m) = policy
             /\ freeze = Allow /\ policy = Allow => Screened(m) = sac
  BY DEF Screened, ScreenParty, AndThen

\* A denial at a gate is the evaluation's.
LEMMA DenyKeeps ==
  ASSUME EvaluationTypeOK, LoopInv, UNCHANGED request, AtGates,
         NEW reason \in Decisions, reason # Allow, reason = Screened(i), Deny(reason)
  PROVE  LoopInv'
<1>1. Decided = Screened(i)
  BY DecidedForm DEF LoopInv
<1>2. pc' = "done" /\ decision' = Decided'
  BY <1>1, SameRequest DEF Deny
<1> QED  BY <1>2 DEF LoopInv, AtGates

\* A party through its last gate is through, and the last of them ends the loop.
LEMMA NextPartyKeeps ==
  ASSUME EvaluationTypeOK, LoopInv, UNCHANGED request, AtGates, Screened(i) = Allow, NextParty
  PROVE  LoopInv' /\ i' \in 1 .. Len(Parties(op)) + 1 /\ pc' \in {"freeze", "done"}
<1>1. /\ i \in 1 .. Len(parties) /\ i' = i + 1 /\ decision' = Allow /\ decision = Allow
      /\ Structure = Allow /\ \A j \in 1 .. i - 1 : Screened(j) = Allow
  BY DEF LoopInv, NextParty
<1>2. Len(parties) \in 1 .. 3 /\ Len(parties) = Len(Parties(op))
  BY RequestTypes
<1>3. \A j \in 1 .. i : Screened(j) = Allow
  <2> SUFFICES ASSUME NEW j \in 1 .. i
               PROVE  Screened(j) = Allow
    OBVIOUS
  <2>1. j = i \/ j \in 1 .. i - 1
    BY <1>1, <1>2
  <2> QED  BY <1>1, <2>1
<1>4. i' - 1 = i
  BY <1>1, <1>2
<1>5. \A j \in 1 .. i' - 1 : Screened(j)' = Allow
  BY <1>3, <1>4, SameRequest
<1>6. CASE i = Len(parties)
  <2>1. pc' = "done"
    BY <1>6 DEF NextParty
  <2>2. Decided' = Allow
    BY <1>1, <1>3, <1>6, DecidedForm, SameRequest
  <2> QED  BY <1>1, <1>2, <2>1, <2>2 DEF LoopInv, AtGates
<1>7. CASE i # Len(parties)
  <2>1. pc' = "freeze" /\ i' \in 1 .. Len(parties)
    BY <1>1, <1>2, <1>7 DEF NextParty
  <2>2. i' \in 1 .. Len(parties') /\ Structure' = Allow
    BY <1>1, <2>1, SameRequest
  <2> QED  BY <1>1, <1>2, <1>5, <2>1, <2>2 DEF LoopInv, AtGates
<1> QED  BY <1>6, <1>7

\* A gate that lets the party through moves it to the next gate.
LEMMA ContinueKeeps ==
  ASSUME EvaluationTypeOK, LoopInv, UNCHANGED request, AtGates,
         NEW next \in {"policy", "sac"}, Continue(next),
         FreezeGate(Role, parties[i] \in frozenHere) = Allow,
         next = "sac" => PolicyGate(config.policy, Role, policyAnswer[i]) = Allow
  PROVE  LoopInv'
<1>1. pc' = next /\ i' = i /\ decision' = decision
  BY DEF Continue
<1>2. Role' = Role
  BY <1>1, SameRequest, Zenon DEF Role
<1>3. /\ FreezeGate(Role, parties[i] \in frozenHere)' = Allow
      /\ next = "sac" => PolicyGate(config.policy, Role, policyAnswer[i])' = Allow
  BY <1>1, <1>2, SameRequest, Zenon
<1>4. /\ i' \in 1 .. Len(parties') /\ decision' = Allow /\ Structure' = Allow
      /\ \A j \in 1 .. i' - 1 : Screened(j)' = Allow
  BY <1>1, SameRequest, Zenon DEF LoopInv
<1> QED  BY <1>1, <1>3, <1>4 DEF LoopInv, AtGates

\* The types of what a step writes.
Moves ==
  /\ pc' \in {"structure", "freeze", "policy", "sac", "done"}
  /\ i' \in 1 .. Len(Parties(op)) + 1
  /\ decision' \in Decisions

LEMMA StructureKeeps ==
  ASSUME EvaluationTypeOK, LoopInv, CheckStructure
  PROVE  LoopInv' /\ Moves
<1>1. UNCHANGED request /\ pc = "structure" /\ i = 1 /\ decision = Allow
  BY DEF CheckStructure, LoopInv
<1>2. Len(parties) \in 1 .. 3 /\ Len(parties) = Len(Parties(op))
  BY RequestTypes
<1>3. CASE Structure # Allow /\ Deny(Structure)
  <2>1. pc' = "done" /\ decision' = Structure /\ i' = i
    BY <1>3 DEF Deny
  <2>2. decision' = Decided'
    BY <1>1, <1>3, <2>1, DecidedForm, SameRequest
  <2>3. decision' \in Decisions
    BY <2>1, GateDecisions DEF Structure
  <2> QED  BY <1>1, <1>2, <2>1, <2>2, <2>3 DEF LoopInv, AtGates, Moves
<1>4. CASE Structure = Allow /\ Continue("freeze")
  <2>1. pc' = "freeze" /\ i' = 1 /\ decision' = Allow
    BY <1>1, <1>4 DEF Continue
  <2>2. Structure' = Allow /\ i' \in 1 .. Len(parties')
    BY <1>1, <1>2, <1>4, <2>1, SameRequest
  <2>3. 1 .. i' - 1 = {}
    BY <2>1
  <2> QED  BY <1>2, <2>1, <2>2, <2>3 DEF LoopInv, AtGates, Moves, Decisions
<1> QED  BY <1>3, <1>4 DEF CheckStructure, Through, Structure

LEMMA GatesKeep ==
  ASSUME EvaluationTypeOK, LoopInv, CheckFreeze \/ AskPolicy \/ SkipPolicy \/ AskSac \/ SkipSac
  PROVE  LoopInv' /\ Moves
<1>1. UNCHANGED request /\ AtGates
  BY DEF CheckFreeze, AskPolicy, SkipPolicy, AskSac, SkipSac, AtGates
<1>2. i \in 1 .. Len(parties) /\ decision = Allow
  BY <1>1 DEF LoopInv
<1>3. /\ Len(parties) \in 1 .. 3 /\ Len(parties) = Len(Parties(op))
      /\ policyAnswer[i] \in Answers /\ sacAnswer[i] \in Answers
  BY <1>2, RequestTypes
<1> DEFINE freeze == FreezeGate(Role, parties[i] \in frozenHere)
           policy == PolicyGate(config.policy, Role, policyAnswer[i])
           sac == SacGate(config.sacPassthrough, binding.sac, Role, sacAnswer[i])
<1>4. freeze \in Decisions /\ policy \in Decisions /\ sac \in Decisions
  BY <1>3, GateDecisions
<1>5. /\ freeze # Allow => Screened(i) = freeze
      /\ freeze = Allow /\ policy # Allow => Screened(i) = policy
      /\ freeze = Allow /\ policy = Allow => Screened(i) = sac
  BY GatesInTurn, Zenon DEF Role
<1>6. /\ pc \in {"policy", "sac"} => freeze = Allow
      /\ pc = "sac" => policy = Allow
  BY DEF LoopInv
<1> HIDE DEF freeze, policy, sac
<1>7. ASSUME NEW gate \in Decisions, gate # Allow, gate = Screened(i), Deny(gate)
      PROVE  LoopInv' /\ Moves
  <2>1. LoopInv'
    BY <1>1, <1>7, DenyKeeps
  <2>2. pc' = "done" /\ i' = i /\ decision' = gate
    BY <1>7 DEF Deny
  <2> QED  BY <1>2, <1>3, <1>7, <2>1, <2>2 DEF Moves
<1>8. ASSUME NEW next \in {"policy", "sac"}, Continue(next), freeze = Allow,
             next = "sac" => policy = Allow
      PROVE  LoopInv' /\ Moves
  <2>1. LoopInv'
    BY <1>1, <1>8, ContinueKeeps DEF freeze, policy
  <2>2. pc' = next /\ i' = i /\ decision' = Allow
    BY <1>2, <1>8 DEF Continue
  <2> QED  BY <1>2, <1>3, <1>8, <2>1, <2>2 DEF Moves, Decisions
<1>9. ASSUME Screened(i) = Allow, NextParty
      PROVE  LoopInv' /\ Moves
  <2>1. LoopInv' /\ i' \in 1 .. Len(Parties(op)) + 1 /\ pc' \in {"freeze", "done"}
    BY <1>1, <1>9, NextPartyKeeps
  <2>2. decision' = Allow
    BY <1>2, <1>9 DEF NextParty
  <2> QED  BY <2>1, <2>2 DEF Moves, Decisions
<1>10. CASE CheckFreeze
  <2>1. \/ freeze # Allow /\ Deny(freeze)
        \/ freeze = Allow /\ Continue("policy")
    BY <1>10 DEF CheckFreeze, Through, freeze
  <2> QED  BY <1>4, <1>5, <1>7, <1>8, <2>1
<1>11. CASE AskPolicy
  <2>1. freeze = Allow
    BY <1>6, <1>11 DEF AskPolicy
  <2>2. \/ policy # Allow /\ Deny(policy)
        \/ policy = Allow /\ Continue("sac")
    BY <1>11 DEF AskPolicy, Through, policy
  <2> QED  BY <1>4, <1>5, <1>7, <1>8, <2>1, <2>2
<1>12. CASE SkipPolicy
  <2>1. freeze = Allow /\ Continue("sac")
    BY <1>6, <1>12 DEF SkipPolicy
  <2>2. policy = Allow
    BY <1>3, <1>12 DEF SkipPolicy, policy, PolicyGate
  <2> QED  BY <1>8, <2>1, <2>2
<1>13. CASE AskSac
  <2>1. freeze = Allow /\ policy = Allow
    BY <1>6, <1>13 DEF AskSac
  <2>2. \/ sac # Allow /\ Deny(sac)
        \/ sac = Allow /\ NextParty
    BY <1>13 DEF AskSac, Through, sac
  <2> QED  BY <1>4, <1>5, <1>7, <1>9, <2>1, <2>2
<1>14. CASE SkipSac
  <2>1. freeze = Allow /\ policy = Allow /\ NextParty
    BY <1>6, <1>14 DEF SkipSac
  <2>2. sac = Allow
    BY <1>14 DEF SkipSac, sac, SacGate
  <2> QED  BY <1>5, <1>9, <2>1, <2>2
<1> QED  BY <1>10, <1>11, <1>12, <1>13, <1>14

\* The calls recorded are calls.
LEMMA CallsKeepType ==
  ASSUME EvaluationTypeOK, LoopInv, Next
  PROVE  calls' \in Seq([to : {"policy", "sac"}, party : 1 .. 3])
<1>1. CASE UNCHANGED calls
  BY <1>1 DEF EvaluationTypeOK
<1>2. ASSUME NEW contract \in {"policy", "sac"}, Asks(contract), AtGates
      PROVE  calls' \in Seq([to : {"policy", "sac"}, party : 1 .. 3])
  <2>1. i \in 1 .. 3
    BY <1>2, RequestTypes DEF LoopInv
  <2>2. [to |-> contract, party |-> i] \in [to : {"policy", "sac"}, party : 1 .. 3]
    BY <2>1
  <2> QED  BY <1>2, <2>2 DEF Asks, EvaluationTypeOK
<1> QED  BY <1>1, <1>2 DEF Next, CheckStructure, CheckFreeze, AskPolicy, SkipPolicy, AskSac,
            SkipSac, AtGates

LEMMA StepKeeps ==
  ASSUME EvaluationTypeOK, LoopInv, [Next]_vars
  PROVE  EvaluationTypeOK' /\ LoopInv'
<1>1. CASE UNCHANGED vars
  <2>1. UNCHANGED request /\ pc' = pc /\ i' = i /\ decision' = decision /\ calls' = calls
    BY <1>1 DEF vars
  <2>2. EvaluationTypeOK'
    BY <2>1, SameRequest DEF EvaluationTypeOK
  <2>3. Role' = Role
    BY <2>1, SameRequest, Zenon DEF Role
  <2>4. LoopInv'
    BY <2>1, <2>3, SameRequest, Zenon DEF LoopInv, AtGates
  <2> QED  BY <2>2, <2>4
<1>2. CASE Next
  <2>1. LoopInv' /\ Moves
    BY <1>2, StructureKeeps, GatesKeep DEF Next
  <2>2. UNCHANGED request
    BY <1>2 DEF Next, CheckStructure, CheckFreeze, AskPolicy, SkipPolicy, AskSac, SkipSac
  <2>3. calls' \in Seq([to : {"policy", "sac"}, party : 1 .. 3])
    BY <1>2, CallsKeepType
  <2>4. EvaluationTypeOK'
    BY <2>1, <2>2, <2>3, SameRequest DEF EvaluationTypeOK, Moves
  <2> QED  BY <2>1, <2>4
<1> QED  BY <1>1, <1>2

LEMMA InitLoop ==
  ASSUME Init
  PROVE  LoopInv
  BY DEF Init, LoopInv, AtGates

(***************************************************************************)
(* EvaluationTypeOK holds throughout every evaluation: no gate is passed a *)
(* party past the last, and the decision is always one.                    *)
(***************************************************************************)
THEOREM EvaluationTypeCorrect == Spec => []EvaluationTypeOK
  BY InitTypeOK, InitLoop, StepKeeps, PTL DEF Spec

(***************************************************************************)
(* The loop with its early exits computes Evaluate, for every operation,   *)
(* list of parties, configuration, binding and answers.                    *)
(***************************************************************************)
THEOREM LoopComputesEvaluate == Spec => []LoopMatchesEvaluate
<1>1. LoopInv => LoopMatchesEvaluate
  BY DEF LoopInv, LoopMatchesEvaluate, Decided
<1> QED  BY <1>1, InitTypeOK, InitLoop, StepKeeps, PTL DEF Spec

-----------------------------------------------------------------------------
(* The oracle of the tests. *)

\* The oracle tells a spender by its place.
LEMMA FundsByPlace ==
  ASSUME NEW o \in Operations, NEW j \in 1 .. Len(Parties(o))
  PROVE  HoldsFunds(Parties(o)[j]) <=> o # "transfer_from" \/ j # 1
<1>1. CASE o \in {"register", "merge"}
  <2>1. Parties(o) = <<"account">>
    BY <1>1 DEF Parties
  <2> QED  BY <1>1, <2>1 DEF HoldsFunds, GateClass
<1>2. CASE o \in {"deposit", "transfer", "withdraw"}
  <2>1. Parties(o) = <<"from", "to">>
    BY <1>2 DEF Parties
  <2> QED  BY <1>2, <2>1 DEF HoldsFunds, GateClass
<1>3. CASE o = "transfer_from"
  <2>1. Parties(o) = <<"spender", "from", "to">>
    BY <1>3 DEF Parties
  <2> QED  BY <1>3, <2>1 DEF HoldsFunds, GateClass
<1> QED  BY <1>1, <1>2, <1>3 DEF Operations

\* Party by party the oracle predicts the gates, as long as the policy is up.
LEMMA OracleScreens ==
  ASSUME EvaluationTypeOK, NEW j \in 1 .. Len(parties), policyAnswer[j] # "fault"
  PROVE  OracleReason(j) = Screened(j)
<1> DEFINE role == Parties(op)[j]
           isFrozen == parties[j] \in frozenHere
<1>1. HoldsFunds(role) <=> op # "transfer_from" \/ j # 1
  BY RequestTypes, FundsByPlace DEF EvaluationTypeOK
<1>2. HoldsFunds(role) <=> role # "spender"
  BY DEF HoldsFunds, GateClass
<1>3. policyAnswer[j] \in {"yes", "no"} /\ sacAnswer[j] \in Answers
  BY RequestTypes DEF Answers
<1>4. CASE HoldsFunds(role) /\ isFrozen
  <2>1. Screened(j) = "account_frozen"
    BY <1>4 DEF Screened, ScreenParty, FreezeGate, AndThen, Allow
  <2>2. OracleReason(j) = "account_frozen"
    BY <1>1, <1>4, Zenon DEF OracleReason
  <2> QED  BY <2>1, <2>2
<1>5. CASE /\ ~ (HoldsFunds(role) /\ isFrozen)
           /\ config.policy # None /\ policyAnswer[j] = "no"
  <2>1. Screened(j) = IF role = "spender" THEN "spender_not_authorized" ELSE "policy_denied"
    BY <1>5 DEF Screened, ScreenParty, FreezeGate, PolicyGate, AndThen, Allow
  <2>2. OracleReason(j) = IF HoldsFunds(role) THEN "policy_denied" ELSE "spender_not_authorized"
    BY <1>1, <1>5, Zenon DEF OracleReason
  <2> HIDE DEF role
  <2> QED  BY <1>2, <2>1, <2>2
<1>6. CASE /\ ~ (HoldsFunds(role) /\ isFrozen)
           /\ ~ (config.policy # None /\ policyAnswer[j] = "no")
  <2>1. PolicyGate(config.policy, role, policyAnswer[j]) = Allow
    BY <1>3, <1>6 DEF PolicyGate
  <2>2. Screened(j) = SacGate(config.sacPassthrough, binding.sac, role, sacAnswer[j])
    BY <1>6, <2>1 DEF Screened, ScreenParty, FreezeGate, AndThen
  <2>3. OracleReason(j) = IF HoldsFunds(role) /\ config.sacPassthrough /\ binding.sac # None
                             /\ sacAnswer[j] # "yes"
                          THEN "sac_authorization_failed" ELSE Allow
    BY <1>1, <1>6, Zenon DEF OracleReason
  <2> QED  BY <2>2, <2>3 DEF SacGate, SacApplies
<1> QED  BY <1>4, <1>5, <1>6

(***************************************************************************)
(* An account named twice is screened twice alike when the contracts       *)
(* answer by account, which is why the oracle may screen a withdrawal once.*)
(***************************************************************************)
LEMMA WithdrawalScreensAlike ==
  ASSUME EvaluationTypeOK, PureAnswers, op = "withdraw"
  PROVE  /\ DOMAIN parties = {1, 2}
         /\ Screened(1) = Screened(2)
<1>1. Parties(op) = <<"from", "to">>
  BY DEF Parties
<1>2. DOMAIN parties = {1, 2}
  <2>1. DOMAIN parties = 1 .. 2
    BY <1>1, RequestTypes
  <2> QED  BY <2>1
<1>3. parties[1] = parties[2]
  BY DEF EvaluationTypeOK, PartyLists
<1>4. policyAnswer[1] = policyAnswer[2] /\ sacAnswer[1] = sacAnswer[2]
  BY <1>2, <1>3 DEF PureAnswers
<1>5. HoldsFunds("from") /\ HoldsFunds("to")
  BY DEF HoldsFunds, GateClass
<1> DEFINE isFrozen == parties[1] \in frozenHere
           pa == policyAnswer[1]
           sa == sacAnswer[1]
<1>6. /\ Screened(1) = ScreenParty(config, binding.sac, "from", isFrozen, pa, sa)
      /\ Screened(2) = ScreenParty(config, binding.sac, "to", isFrozen, pa, sa)
  BY <1>1, <1>3, <1>4 DEF Screened
<1>7. /\ FreezeGate("from", isFrozen) = FreezeGate("to", isFrozen)
      /\ PolicyGate(config.policy, "from", pa) = PolicyGate(config.policy, "to", pa)
      /\ SacGate(config.sacPassthrough, binding.sac, "from", sa)
           = SacGate(config.sacPassthrough, binding.sac, "to", sa)
  BY <1>5 DEF FreezeGate, PolicyGate, SacGate, SacApplies
<1> QED  BY <1>2, <1>6, <1>7, Zenon DEF ScreenParty

LEMMA OraclePredicts ==
  ASSUME EvaluationTypeOK, PureAnswers, \A j \in DOMAIN parties : policyAnswer[j] # "fault"
  PROVE  Oracle = Decided
<1>1. /\ DOMAIN parties = 1 .. Len(parties) /\ Len(parties) \in 1 .. 3
      /\ Len(parties) = Len(Parties(op))
  BY RequestTypes
<1>2. CASE config = None
  <2>1. Oracle = "invalid_configuration"
    BY <1>2, Zenon DEF Oracle
  <2>2. Structure = "invalid_configuration"
    BY <1>2 DEF Structure, StructuralGate
  <2> QED  BY <2>1, <2>2, DecidedForm DEF Allow
<1>3. CASE config # None /\ binding = None
  <2>1. Oracle = "unbound_token"
    BY <1>3, Zenon DEF Oracle
  <2>2. Structure = "unbound_token"
    BY <1>3 DEF Structure, StructuralGate
  <2> QED  BY <2>1, <2>2, DecidedForm DEF Allow
<1>4. CASE config # None /\ binding # None
  <2> DEFINE denied == {j \in OracleParties : OracleReason(j) # Allow}
             least == CHOOSE j \in denied : \A k \in denied : j <= k
  <2>1. Oracle = IF denied = {} THEN Allow ELSE OracleReason(least)
    BY <1>4, Zenon DEF Oracle
  <2>2. Structure = Allow
    BY <1>1, <1>4 DEF Structure, StructuralGate
  <2>3. \A j \in 1 .. Len(parties) : OracleReason(j) = Screened(j)
    BY <1>1, OracleScreens
  <2>4. OracleParties \subseteq 1 .. Len(parties)
    BY <1>1 DEF OracleParties
  <2>5. \A j \in 1 .. Len(parties) :
          Screened(j) # Allow => \E k \in OracleParties : k <= j /\ Screened(k) # Allow
    <3>1. CASE op = "withdraw"
      <4>1. DOMAIN parties = {1, 2} /\ Screened(1) = Screened(2) /\ OracleParties = {1}
        BY <3>1, WithdrawalScreensAlike DEF OracleParties
      <4>2. 1 .. Len(parties) = {1, 2}
        BY <1>1, <4>1, Zenon
      <4> QED  BY <4>1, <4>2
    <3>2. CASE op # "withdraw"
      BY <1>1, <3>2 DEF OracleParties
    <3> QED  BY <3>1, <3>2
  <2>6. CASE denied = {}
    <3>1. \A j \in 1 .. Len(parties) : Screened(j) = Allow
      BY <2>3, <2>4, <2>5, <2>6
    <3> QED  BY <2>1, <2>2, <2>6, <3>1, DecidedForm
  <2>7. CASE denied # {}
    <3>1. denied \subseteq 1 .. 3
      <4>1. denied \subseteq 1 .. Len(parties)
        BY <2>4, Zenon
      <4>2. 1 .. Len(parties) \subseteq 1 .. 3
        BY <1>1
      <4> QED  BY <4>1, <4>2, Zenon
    <3>2. \E j \in denied : \A k \in denied : j <= k
      <4> HIDE DEF denied
      <4>1. CASE 1 \in denied
        BY <3>1, <4>1
      <4>2. CASE 1 \notin denied /\ 2 \in denied
        BY <3>1, <4>2
      <4>3. CASE 1 \notin denied /\ 2 \notin denied
        <5>1. PICK j \in denied : TRUE
          BY <2>7
        <5>2. \A k \in denied : k = 3
          BY <3>1, <4>3
        <5> QED  BY <5>1, <5>2
      <4> QED  BY <4>1, <4>2, <4>3
    <3>3. least \in denied /\ \A k \in denied : least <= k
      BY <3>2
    <3>4. least \in 1 .. Len(parties) /\ Screened(least) # Allow
      BY <2>3, <2>4, <3>3
    <3>5. \A j \in 1 .. least - 1 : Screened(j) = Allow
      <4> SUFFICES ASSUME NEW j \in 1 .. least - 1, Screened(j) # Allow
                   PROVE  FALSE
        OBVIOUS
      <4>1. j \in 1 .. Len(parties)
        BY <1>1, <3>4
      <4>2. PICK k \in OracleParties : k <= j /\ Screened(k) # Allow
        BY <2>5, <4>1
      <4>3. k \in denied
        BY <2>3, <2>4, <4>2
      <4>4. least <= k /\ k \in Nat
        BY <2>4, <3>3, <4>2, <4>3
      <4> HIDE DEF least
      <4> QED  BY <1>1, <3>4, <4>2, <4>4
    <3>6. Decided = Screened(least)
      BY <2>2, <3>4, <3>5, DecidedForm
    <3> QED  BY <2>1, <2>3, <2>7, <3>4, <3>6
  <2> QED  BY <2>6, <2>7
<1> QED  BY <1>2, <1>3, <1>4

(***************************************************************************)
(* The tests' oracle predicts every evaluation whose external contracts    *)
(* answer by account and are up, whatever the request.                     *)
(***************************************************************************)
THEOREM OracleIsRight == Spec => []OracleParity
<1>1. EvaluationTypeOK /\ LoopInv => OracleParity
  BY OraclePredicts DEF LoopInv, OracleParity
<1> QED  BY <1>1, InitTypeOK, InitLoop, StepKeeps, PTL DEF Spec
-----------------------------------------------------------------------------
(***************************************************************************)
(* The calls.  What has been called and what a full screening still has to *)
(* call make up the full screening; all that was asked said yes, until the *)
(* answer that ends the loop.                                              *)
(***************************************************************************)
CallSet == [to : {"policy", "sac"}, party : 1 .. 3]

PolicyCall(j) ==
  IF config.policy # None THEN <<[to |-> "policy", party |-> j]>> ELSE <<>>

SacCall(j) ==
  IF SacApplies(config.sacPassthrough, binding.sac, Parties(op)[j])
  THEN <<[to |-> "sac", party |-> j]>> ELSE <<>>

\* The calls for the parties after the j-th.
After(j) ==
  CASE j >= Len(parties)    -> <<>>
    [] j = Len(parties) - 1 -> CallsFor(j + 1)
    [] j = Len(parties) - 2 -> CallsFor(j + 1) \o CallsFor(j + 2)

ToCall == (IF pc = "sac" THEN SacCall(i) ELSE CallsFor(i)) \o After(i)

SaidYes(call) ==
  (IF call.to = "policy" THEN policyAnswer[call.party] ELSE sacAnswer[call.party]) = "yes"

CallsInv ==
  /\ pc = "structure" => calls = <<>>
  /\ AtGates => /\ FullScreening = calls \o ToCall
                /\ \A k \in 1 .. Len(calls) : SaidYes(calls[k]) /\ calls[k].party <= i
  /\ pc = "freeze" => \A k \in 1 .. Len(calls) : calls[k].party < i
  /\ pc = "done" /\ decision = Allow =>
       /\ calls = FullScreening
       /\ \A k \in 1 .. Len(calls) : SaidYes(calls[k])
  /\ pc = "done" /\ decision # Allow =>
       /\ calls = <<>> \/ \E rest \in Seq(CallSet) : FullScreening = calls \o rest
       /\ \A k \in 1 .. Len(calls) - 1 : SaidYes(calls[k])
       /\ decision = "account_frozen" => \A k \in 1 .. Len(calls) : calls[k].party < i

\* Calls are joined in either order.
LEMMA JoinCalls ==
  ASSUME NEW a \in Seq(CallSet), NEW b \in Seq(CallSet), NEW c \in Seq(CallSet)
  PROVE  (a \o b) \o c = a \o (b \o c) /\ a \o b \in Seq(CallSet) /\ b \o c \in Seq(CallSet)
<1>1. (a \o b) \o c = a \o (b \o c)
  BY ConcatAssociative
<1> QED  BY <1>1, ConcatProperties

\* The calls of one screening are calls, and follow one another.
LEMMA CallsAreCalls ==
  ASSUME NEW j \in 1 .. 3
  PROVE  /\ PolicyCall(j) \in Seq(CallSet) /\ SacCall(j) \in Seq(CallSet)
         /\ CallsFor(j) \in Seq(CallSet)
         /\ CallsFor(j) = PolicyCall(j) \o SacCall(j)
<1>1. [to |-> "policy", party |-> j] \in CallSet /\ [to |-> "sac", party |-> j] \in CallSet
  BY DEF CallSet
<1>2. PolicyCall(j) \in Seq(CallSet) /\ SacCall(j) \in Seq(CallSet)
  BY <1>1 DEF PolicyCall, SacCall
<1>3. CallsFor(j) = PolicyCall(j) \o SacCall(j)
  BY Zenon DEF CallsFor, PolicyCall, SacCall
<1> QED  BY <1>2, <1>3, ConcatProperties

LEMMA AfterIsCalls ==
  ASSUME EvaluationTypeOK, NEW j \in 1 .. 3
  PROVE  /\ After(j) \in Seq(CallSet)
         /\ j = Len(parties) => After(j) = <<>>
         /\ j < Len(parties) => After(j) = CallsFor(j + 1) \o After(j + 1)
<1> DEFINE n == Len(parties)
<1>1. n \in 1 .. 3
  BY RequestTypes
<1>2. \A k : /\ k >= n => After(k) = <<>>
             /\ ~ k >= n /\ k = n - 1 => After(k) = CallsFor(k + 1)
             /\ ~ k >= n /\ k # n - 1 /\ k = n - 2 => After(k) = CallsFor(k + 1) \o CallsFor(k + 2)
  BY DEF After
<1> HIDE DEF n
<1>3. CASE j >= n
  <2>1. After(j) = <<>> /\ ~ j < n
    BY <1>1, <1>2, <1>3
  <2>2. <<>> \in Seq(CallSet)
    OBVIOUS
  <2> QED  BY <2>1, <2>2, Zenon DEF n
<1>4. CASE j = n - 1
  <2>1. After(j) = CallsFor(j + 1) /\ After(j + 1) = <<>>
    BY <1>1, <1>2, <1>4
  <2>2. j + 1 \in 1 .. 3
    BY <1>1, <1>4
  <2>3. CallsFor(j + 1) \in Seq(CallSet)
    BY <2>2, CallsAreCalls
  <2> QED  BY <1>1, <1>4, <2>1, <2>3, ConcatEmptySeq DEF n
<1>5. CASE j = n - 2
  <2>1. j + 1 \in 1 .. 3 /\ j + 2 \in 1 .. 3 /\ j + 1 = n - 1 /\ j + 1 + 1 = j + 2
        /\ ~ j >= n /\ j # n - 1 /\ ~ j + 1 >= n
    BY <1>1, <1>5
  <2>2. After(j) = CallsFor(j + 1) \o CallsFor(j + 2) /\ After(j + 1) = CallsFor(j + 2)
    BY <1>2, <1>5, <2>1
  <2>3. CallsFor(j + 1) \in Seq(CallSet) /\ CallsFor(j + 2) \in Seq(CallSet)
    BY <2>1, CallsAreCalls
  <2>4. CallsFor(j + 1) \o CallsFor(j + 2) \in Seq(CallSet)
    BY <2>3, ConcatProperties, Zenon
  <2>5. j # n
    BY <1>1, <1>5
  <2> QED  BY <2>1, <2>2, <2>4, <2>5, Zenon DEF n
<1>6. j >= n \/ j = n - 1 \/ j = n - 2
  BY <1>1
<1> QED  BY <1>3, <1>4, <1>5, <1>6

\* A full screening is that of the first party and of those after it.
LEMMA FullFromFirst ==
  ASSUME EvaluationTypeOK
  PROVE  FullScreening = CallsFor(1) \o After(1)
<1>1. Len(parties) \in 1 .. 3
  BY RequestTypes
<1>2. CallsFor(1) \in Seq(CallSet) /\ CallsFor(2) \in Seq(CallSet) /\ CallsFor(3) \in Seq(CallSet)
  BY CallsAreCalls
<1>3. CASE Len(parties) = 1
  BY <1>2, <1>3, ConcatEmptySeq DEF FullScreening, After
<1>4. CASE Len(parties) = 2
  <2>1. After(1) = CallsFor(2) /\ FullScreening = CallsFor(1) \o CallsFor(2)
    BY <1>4 DEF FullScreening, After
  <2> QED  BY <2>1
<1>5. CASE Len(parties) = 3
  <2>1. After(1) = CallsFor(2) \o CallsFor(3)
        /\ FullScreening = (CallsFor(1) \o CallsFor(2)) \o CallsFor(3)
    BY <1>5 DEF FullScreening, After
  <2>2. (CallsFor(1) \o CallsFor(2)) \o CallsFor(3) = CallsFor(1) \o (CallsFor(2) \o CallsFor(3))
    BY <1>2, JoinCalls, Zenon
  <2> QED  BY <2>1, <2>2, Zenon
<1> QED  BY <1>1, <1>3, <1>4, <1>5

LEMMA SameScreening ==
  ASSUME UNCHANGED request
  PROVE  /\ FullScreening' = FullScreening
         /\ \A j : After(j)' = After(j)
         /\ \A j : CallsFor(j)' = CallsFor(j) /\ SacCall(j)' = SacCall(j)
         /\ \A c : SaidYes(c)' <=> SaidYes(c)
  BY SameRequest, Zenon DEF FullScreening, After, CallsFor, SacCall, SaidYes

\* The party a step is about.
LEMMA PartyAt ==
  ASSUME EvaluationTypeOK, i \in 1 .. Len(parties)
  PROVE  i \in 1 .. 3 /\ (i = Len(parties) \/ i < Len(parties))
<1> DEFINE n == Len(parties)
<1>1. n \in 1 .. 3 /\ i \in 1 .. n
  BY RequestTypes
<1> HIDE DEF n
<1>2. i \in 1 .. 3 /\ (i = n \/ i < n)
  BY <1>1
<1> QED  BY <1>2 DEF n

\* A call more.
LEMMA OneMore ==
  ASSUME EvaluationTypeOK, LoopInv, CallsInv, AtGates,
         NEW contract \in {"policy", "sac"}, Asks(contract)
  PROVE  LET c == [to |-> contract, party |-> i]
         IN  /\ calls' = calls \o <<c>>
             /\ \A k \in 1 .. Len(calls') - 1 : SaidYes(calls'[k])
             /\ \A k \in 1 .. Len(calls') : calls'[k].party <= i
             /\ SaidYes(c) => \A k \in 1 .. Len(calls') : SaidYes(calls'[k])
<1> DEFINE c == [to |-> contract, party |-> i]
<1>1. i \in 1 .. 3
  BY PartyAt DEF LoopInv
<1>2. c \in CallSet /\ c.party = i
  BY <1>1 DEF CallSet
<1>3. calls \in Seq(CallSet) /\ calls' = Append(calls, c)
  BY DEF EvaluationTypeOK, CallSet, Asks
<1>4. \A k \in 1 .. Len(calls) : SaidYes(calls[k]) /\ calls[k].party <= i
  BY DEF CallsInv
<1> HIDE DEF c
<1>5. calls' = calls \o <<c>>
  BY <1>2, <1>3, AppendIsConcat
<1>6. /\ Len(calls') = Len(calls) + 1 /\ Len(calls) \in Nat
      /\ \A k \in 1 .. Len(calls) : calls'[k] = calls[k]
      /\ calls'[Len(calls) + 1] = c
  BY <1>2, <1>3, AppendProperties
<1>7. \A k \in 1 .. Len(calls') : k \in 1 .. Len(calls) \/ k = Len(calls) + 1
  BY <1>6
<1>8. \A k \in 1 .. Len(calls') - 1 : k \in 1 .. Len(calls)
  BY <1>6
<1>9. \A k \in 1 .. Len(calls') - 1 : SaidYes(calls'[k])
  BY <1>4, <1>6, <1>8, Zenon
<1>10. \A k \in 1 .. Len(calls') : calls'[k].party <= i
  BY <1>1, <1>2, <1>4, <1>6, <1>7
<1>11. SaidYes(c) => \A k \in 1 .. Len(calls') : SaidYes(calls'[k])
  BY <1>4, <1>6, <1>7, Zenon
<1> QED  BY <1>5, <1>9, <1>10, <1>11 DEF c

\* How a step may leave the calls: with a denial, or with a party through.
LEMMA DeniedCalls ==
  ASSUME UNCHANGED request, NEW reason, reason # Allow, Deny(reason),
         NEW rest \in Seq(CallSet), FullScreening = calls' \o rest,
         \A k \in 1 .. Len(calls') - 1 : SaidYes(calls'[k]),
         reason = "account_frozen" => \A k \in 1 .. Len(calls') : calls'[k].party < i
  PROVE  CallsInv'
<1>1. pc' = "done" /\ decision' = reason /\ i' = i
  BY DEF Deny
<1>2. FullScreening' = calls' \o rest
  BY SameScreening
<1>3. \A k \in 1 .. Len(calls') - 1 : SaidYes(calls[k])'
  BY SameScreening DEF SaidYes
<1> QED  BY <1>1, <1>2, <1>3 DEF CallsInv, AtGates

LEMMA ThroughCalls ==
  ASSUME EvaluationTypeOK, UNCHANGED request, i \in 1 .. Len(parties), NextParty, decision = Allow,
         FullScreening = calls' \o After(i), calls' \in Seq(CallSet),
         \A k \in 1 .. Len(calls') : SaidYes(calls'[k]) /\ calls'[k].party <= i
  PROVE  CallsInv'
<1>1. i' = i + 1 /\ decision' = Allow
  BY DEF NextParty
<1>2. i \in 1 .. 3 /\ (i = Len(parties) \/ i < Len(parties))
  BY PartyAt
<1>3. FullScreening' = FullScreening
      /\ \A k \in 1 .. Len(calls') : SaidYes(calls[k])'
  BY SameScreening DEF SaidYes
<1>4. CASE i = Len(parties)
  <2>1. pc' = "done" /\ After(i) = <<>>
    BY <1>2, <1>4, AfterIsCalls DEF NextParty
  <2>2. calls' = FullScreening'
    BY <1>3, <2>1, ConcatEmptySeq
  <2> QED  BY <1>1, <1>3, <2>1, <2>2 DEF CallsInv, AtGates
<1>5. CASE i # Len(parties)
  <2>1. pc' = "freeze" /\ i < Len(parties)
    BY <1>2, <1>5 DEF NextParty
  <2>2. After(i) = CallsFor(i') \o After(i')
    BY <1>1, <1>2, <2>1, AfterIsCalls
  <2>3. ToCall' = CallsFor(i)' \o After(i)'
    BY <2>1 DEF ToCall
  <2>4. CallsFor(i)' = CallsFor(i') /\ After(i)' = After(i')
    BY SameRequest, Zenon DEF CallsFor, After
  <2>5. FullScreening' = calls' \o ToCall'
    BY <1>3, <2>2, <2>3, <2>4, Zenon
  <2>6. \A k \in 1 .. Len(calls') : calls'[k].party <= i' /\ calls'[k].party < i'
    <3>1. \A k \in 1 .. Len(calls') : calls'[k] \in CallSet
      OBVIOUS
    <3>2. \A c \in CallSet : c.party \in 1 .. 3
      BY DEF CallSet
    <3>3. \A p \in 1 .. 3 : p <= i => p <= i' /\ p < i'
      BY <1>1, <1>2
    <3> QED  BY <3>1, <3>2, <3>3, Zenon
  <2> QED  BY <1>1, <1>3, <2>1, <2>5, <2>6 DEF CallsInv, AtGates
<1> QED  BY <1>4, <1>5

\* The step that checks the structure calls nothing.
LEMMA StructureCalls ==
  ASSUME EvaluationTypeOK, LoopInv, CallsInv, CheckStructure
  PROVE  CallsInv'
<1>1. UNCHANGED request /\ i = 1 /\ calls = <<>> /\ calls' = <<>>
  BY DEF CheckStructure, LoopInv, CallsInv
<1>2. 1 .. Len(calls') = {} /\ 1 .. Len(calls') - 1 = {}
  BY <1>1
<1>3. CASE Structure # Allow /\ Deny(Structure)
  <2>1. pc' = "done" /\ decision' # Allow
    BY <1>3 DEF Deny
  <2> QED  BY <1>1, <1>2, <2>1 DEF CallsInv, AtGates
<1>4. CASE Continue("freeze")
  <2>1. pc' = "freeze" /\ i' = 1
    BY <1>1, <1>4 DEF Continue
  <2>2. ToCall' = CallsFor(i)' \o After(i)'
    BY <2>1 DEF ToCall
  <2>3. CallsFor(i)' = CallsFor(1) /\ After(i)' = After(1)
    BY <1>1, <2>1, SameRequest, Zenon DEF CallsFor, After
  <2>4. FullScreening' = ToCall'
    BY <1>1, <2>2, <2>3, FullFromFirst, SameScreening, Zenon
  <2>5. ToCall' \in Seq(CallSet)
    <3>1. CallsFor(1) \in Seq(CallSet) /\ After(1) \in Seq(CallSet)
      BY CallsAreCalls, AfterIsCalls
    <3> QED  BY <2>2, <2>3, <3>1, ConcatProperties
  <2>6. FullScreening' = calls' \o ToCall'
    BY <1>1, <2>4, <2>5, ConcatEmptySeq
  <2> QED  BY <1>2, <2>1, <2>6 DEF CallsInv, AtGates
<1> QED  BY <1>3, <1>4 DEF CheckStructure, Through, Structure

\* At a gate: what has been called, and what the party's gates and the others' still call.
LEMMA CallsAtGate ==
  ASSUME EvaluationTypeOK, LoopInv, CallsInv, AtGates
  PROVE  /\ calls \in Seq(CallSet) /\ PolicyCall(i) \in Seq(CallSet)
         /\ SacCall(i) \in Seq(CallSet) /\ After(i) \in Seq(CallSet)
         /\ pc # "sac" => ToCall = (PolicyCall(i) \o SacCall(i)) \o After(i)
         /\ pc = "sac" => ToCall = SacCall(i) \o After(i)
         /\ ToCall \in Seq(CallSet) /\ SacCall(i) \o After(i) \in Seq(CallSet)
         /\ FullScreening = calls \o ToCall
         /\ \A k \in 1 .. Len(calls) : SaidYes(calls[k]) /\ calls[k].party <= i
         /\ decision = Allow /\ i \in 1 .. Len(parties)
<1>1. decision = Allow /\ i \in 1 .. Len(parties) /\ i \in 1 .. 3
  BY PartyAt DEF LoopInv
<1>2. /\ calls \in Seq(CallSet) /\ PolicyCall(i) \in Seq(CallSet)
      /\ SacCall(i) \in Seq(CallSet) /\ After(i) \in Seq(CallSet)
      /\ CallsFor(i) = PolicyCall(i) \o SacCall(i) /\ CallsFor(i) \in Seq(CallSet)
  BY <1>1, CallsAreCalls, AfterIsCalls DEF EvaluationTypeOK, CallSet
<1>3. /\ pc # "sac" => ToCall = CallsFor(i) \o After(i)
      /\ pc = "sac" => ToCall = SacCall(i) \o After(i)
  BY Zenon DEF ToCall
<1>4. CallsFor(i) \o After(i) \in Seq(CallSet) /\ SacCall(i) \o After(i) \in Seq(CallSet)
  BY <1>2, ConcatProperties, Zenon
<1>5. ToCall \in Seq(CallSet)
  BY <1>3, <1>4, Zenon
<1>6. /\ FullScreening = calls \o ToCall
      /\ \A k \in 1 .. Len(calls) : SaidYes(calls[k]) /\ calls[k].party <= i
  BY Zenon DEF CallsInv
<1> QED  BY <1>1, <1>2, <1>3, <1>4, <1>5, <1>6, Zenon

\* A gate asked nobody, and lets the party on to the next one.
LEMMA OnwardCalls ==
  ASSUME EvaluationTypeOK, LoopInv, CallsInv, AtGates, UNCHANGED request,
         NEW next \in {"policy", "sac"}, Continue(next),
         \A k \in 1 .. Len(calls') : SaidYes(calls'[k]) /\ calls'[k].party <= i,
         next = "policy" => FullScreening = calls' \o (CallsFor(i) \o After(i)),
         next = "sac" => FullScreening = calls' \o (SacCall(i) \o After(i))
  PROVE  CallsInv'
<1>1. pc' = next /\ i' = i /\ AtGates'
  BY DEF Continue, AtGates
<1>2. /\ next = "policy" => ToCall' = CallsFor(i)' \o After(i)'
      /\ next = "sac" => ToCall' = SacCall(i)' \o After(i)'
  BY <1>1 DEF ToCall
<1>3. CallsFor(i)' = CallsFor(i) /\ After(i)' = After(i) /\ SacCall(i)' = SacCall(i)
  BY <1>1, SameRequest, Zenon DEF CallsFor, After, SacCall
<1>4. FullScreening' = FullScreening
  BY SameScreening
<1>5. FullScreening' = calls' \o ToCall'
  <2>1. CASE next = "policy"
    BY <1>2, <1>3, <1>4, <2>1, Zenon
  <2>2. CASE next = "sac"
    BY <1>2, <1>3, <1>4, <2>2, Zenon
  <2> QED  BY <2>1, <2>2
<1>6. \A k \in 1 .. Len(calls') : SaidYes(calls[k])' /\ calls'[k].party <= i'
  BY <1>1, SameScreening DEF SaidYes
<1> QED  BY <1>1, <1>5, <1>6 DEF CallsInv

LEMMA FreezeCalls ==
  ASSUME EvaluationTypeOK, LoopInv, CallsInv, CheckFreeze
  PROVE  CallsInv'
<1> DEFINE gate == FreezeGate(Role, parties[i] \in frozenHere)
<1>1. pc = "freeze" /\ AtGates /\ UNCHANGED request /\ calls' = calls
  BY DEF CheckFreeze, AtGates
<1>2. /\ calls \in Seq(CallSet) /\ ToCall \in Seq(CallSet)
      /\ FullScreening = calls \o ToCall
      /\ \A k \in 1 .. Len(calls) : SaidYes(calls[k]) /\ calls[k].party <= i
  BY <1>1, CallsAtGate
<1>3. \A k \in 1 .. Len(calls) : calls[k].party < i
  BY <1>1 DEF CallsInv
<1>4. \A k \in 1 .. Len(calls) - 1 : SaidYes(calls[k])
  BY <1>2
<1>5. CASE gate # Allow /\ Deny(gate)
  <2> HIDE DEF gate
  <2> QED  BY <1>1, <1>2, <1>3, <1>4, <1>5, DeniedCalls
<1>6. CASE Continue("policy")
  <2>1. ToCall = CallsFor(i) \o After(i)
    BY <1>1 DEF ToCall
  <2> QED  BY <1>1, <1>2, <1>6, <2>1, OnwardCalls
<1> QED  BY <1>5, <1>6 DEF CheckFreeze, Through

LEMMA AskPolicyCalls ==
  ASSUME EvaluationTypeOK, LoopInv, CallsInv, AskPolicy
  PROVE  CallsInv'
<1> DEFINE gate == PolicyGate(config.policy, Role, policyAnswer[i])
           c == [to |-> "policy", party |-> i]
           rest == SacCall(i) \o After(i)
<1>1. pc = "policy" /\ AtGates /\ UNCHANGED request /\ Asks("policy") /\ PolicyCall(i) = <<c>>
  BY DEF AskPolicy, AtGates, PolicyCall
<1>2. /\ calls \in Seq(CallSet) /\ <<c>> \in Seq(CallSet) /\ SacCall(i) \in Seq(CallSet)
      /\ After(i) \in Seq(CallSet) /\ rest \in Seq(CallSet)
      /\ FullScreening = calls \o ((<<c>> \o SacCall(i)) \o After(i))
      /\ i \in 1 .. Len(parties)
  BY <1>1, CallsAtGate
<1>3. /\ calls' = calls \o <<c>>
      /\ \A k \in 1 .. Len(calls') - 1 : SaidYes(calls'[k])
      /\ \A k \in 1 .. Len(calls') : calls'[k].party <= i
      /\ SaidYes(c) => \A k \in 1 .. Len(calls') : SaidYes(calls'[k])
  BY <1>1, OneMore
<1>4. FullScreening = calls' \o rest
  <2> HIDE DEF c
  <2>1. (<<c>> \o SacCall(i)) \o After(i) = <<c>> \o (SacCall(i) \o After(i))
    BY <1>2, JoinCalls
  <2>2. calls \o (<<c>> \o rest) = (calls \o <<c>>) \o rest
    <3>1. calls \in Seq(CallSet) /\ <<c>> \in Seq(CallSet) /\ rest \in Seq(CallSet)
      BY <1>2
    <3> HIDE DEF rest
    <3> QED  BY <3>1, JoinCalls
  <2> QED  BY <1>2, <1>3, <2>1, <2>2, Zenon
<1>5. policyAnswer[i] \in Answers
  BY <1>2, RequestTypes
<1>6. CASE gate # Allow /\ Deny(gate)
  <2>1. gate # "account_frozen"
    BY <1>5 DEF PolicyGate, Allow, Answers
  <2> HIDE DEF gate, c, rest
  <2> QED  BY <1>1, <1>2, <1>3, <1>4, <1>6, <2>1, DeniedCalls
<1>7. CASE gate = Allow /\ Continue("sac")
  <2>1. policyAnswer[i] = "yes"
    BY <1>5, <1>7 DEF PolicyGate, Allow, Answers, AskPolicy
  <2>2. SaidYes(c)
    BY <2>1 DEF SaidYes
  <2> HIDE DEF c
  <2>3. \A k \in 1 .. Len(calls') : SaidYes(calls'[k]) /\ calls'[k].party <= i
    BY <1>3, <2>2
  <2> QED  BY <1>1, <1>4, <1>7, <2>3, OnwardCalls
<1> QED  BY <1>6, <1>7 DEF AskPolicy, Through

LEMMA SkipPolicyCalls ==
  ASSUME EvaluationTypeOK, LoopInv, CallsInv, SkipPolicy
  PROVE  CallsInv'
<1>1. /\ pc = "policy" /\ AtGates /\ UNCHANGED request /\ calls' = calls
      /\ PolicyCall(i) = <<>> /\ Continue("sac")
  BY DEF SkipPolicy, AtGates, PolicyCall
<1>2. /\ SacCall(i) \in Seq(CallSet)
      /\ FullScreening = calls \o ((<<>> \o SacCall(i)) \o After(i))
      /\ \A k \in 1 .. Len(calls) : SaidYes(calls[k]) /\ calls[k].party <= i
  BY <1>1, CallsAtGate
<1>3. <<>> \o SacCall(i) = SacCall(i)
  BY <1>2, ConcatEmptySeq
<1> QED  BY <1>1, <1>2, <1>3, OnwardCalls

LEMMA AskSacCalls ==
  ASSUME EvaluationTypeOK, LoopInv, CallsInv, AskSac
  PROVE  CallsInv'
<1> DEFINE gate == SacGate(config.sacPassthrough, binding.sac, Role, sacAnswer[i])
           c == [to |-> "sac", party |-> i]
<1>1. pc = "sac" /\ AtGates /\ UNCHANGED request /\ Asks("sac") /\ SacCall(i) = <<c>>
  BY DEF AskSac, AtGates, SacCall, Role
<1>2. /\ calls \in Seq(CallSet) /\ <<c>> \in Seq(CallSet) /\ After(i) \in Seq(CallSet)
      /\ FullScreening = calls \o (<<c>> \o After(i))
      /\ i \in 1 .. Len(parties) /\ decision = Allow
  BY <1>1, CallsAtGate
<1>3. /\ calls' = calls \o <<c>>
      /\ \A k \in 1 .. Len(calls') - 1 : SaidYes(calls'[k])
      /\ \A k \in 1 .. Len(calls') : calls'[k].party <= i
      /\ SaidYes(c) => \A k \in 1 .. Len(calls') : SaidYes(calls'[k])
  BY <1>1, OneMore
<1>4. FullScreening = calls' \o After(i) /\ calls' \in Seq(CallSet)
  <2> HIDE DEF c
  <2> QED  BY <1>2, <1>3, JoinCalls, Zenon
<1>5. CASE gate # Allow /\ Deny(gate)
  <2>1. gate # "account_frozen"
    BY DEF SacGate, Allow
  <2> HIDE DEF gate, c
  <2> QED  BY <1>1, <1>2, <1>3, <1>4, <1>5, <2>1, DeniedCalls
<1>6. CASE gate = Allow /\ NextParty
  <2>1. sacAnswer[i] = "yes"
    BY <1>6 DEF SacGate, Allow, AskSac
  <2>2. SaidYes(c)
    BY <2>1 DEF SaidYes
  <2> HIDE DEF c
  <2>3. \A k \in 1 .. Len(calls') : SaidYes(calls'[k]) /\ calls'[k].party <= i
    BY <1>3, <2>2
  <2> QED  BY <1>1, <1>2, <1>4, <1>6, <2>3, ThroughCalls
<1> QED  BY <1>5, <1>6 DEF AskSac, Through

LEMMA SkipSacCalls ==
  ASSUME EvaluationTypeOK, LoopInv, CallsInv, SkipSac
  PROVE  CallsInv'
<1>1. /\ pc = "sac" /\ AtGates /\ UNCHANGED request /\ calls' = calls
      /\ SacCall(i) = <<>> /\ NextParty
  BY DEF SkipSac, AtGates, SacCall, Role
<1>2. /\ calls \in Seq(CallSet) /\ After(i) \in Seq(CallSet)
      /\ FullScreening = calls \o (<<>> \o After(i))
      /\ \A k \in 1 .. Len(calls) : SaidYes(calls[k]) /\ calls[k].party <= i
      /\ i \in 1 .. Len(parties) /\ decision = Allow
  BY <1>1, CallsAtGate
<1>3. <<>> \o After(i) = After(i)
  BY <1>2, ConcatEmptySeq
<1> QED  BY <1>1, <1>2, <1>3, ThroughCalls

LEMMA StepCalls ==
  ASSUME EvaluationTypeOK, LoopInv, CallsInv, [Next]_vars
  PROVE  CallsInv'
<1>1. CASE UNCHANGED vars
  <2>1. UNCHANGED request /\ pc' = pc /\ i' = i /\ decision' = decision /\ calls' = calls
    BY <1>1 DEF vars
  <2>2. /\ FullScreening' = FullScreening
        /\ ToCall' = ToCall
    BY <2>1, SameRequest, SameScreening, Zenon DEF ToCall, CallsFor, SacCall, After
  <2>3. \A k : SaidYes(calls[k])' <=> SaidYes(calls[k])
    BY <2>1, SameScreening, Zenon DEF SaidYes
  <2> QED  BY <2>1, <2>2, <2>3 DEF CallsInv, AtGates
<1>2. CASE Next
  BY <1>2, StructureCalls, FreezeCalls, AskPolicyCalls, SkipPolicyCalls, AskSacCalls,
     SkipSacCalls DEF Next
<1> QED  BY <1>1, <1>2

LEMMA InitCalls ==
  ASSUME Init
  PROVE  CallsInv
  BY DEF Init, CallsInv, AtGates

\* Evaluate allows only what every party's gates let through.
LEMMA AllowMeansScreened ==
  ASSUME EvaluationTypeOK, Decided = Allow
  PROVE  \A m \in 1 .. Len(parties) : Screened(m) = Allow
<1> DEFINE n == Len(parties)
           ok(m) == Screened(m) = Allow
<1>1. n \in 1 .. 3
  BY RequestTypes
<1>2. \A m \in 1 .. n : ~ (~ ok(m) /\ \A j \in 1 .. m - 1 : ok(j))
  BY DecidedForm
<1> HIDE DEF n, ok
<1>3. ok(1)
  BY <1>1, <1>2
<1>4. n >= 2 => ok(2)
  <2>1. \A j \in 1 .. 2 - 1 : j = 1
    OBVIOUS
  <2> QED  BY <1>1, <1>2, <1>3, <2>1
<1>5. n >= 3 => ok(3)
  <2>1. \A j \in 1 .. 3 - 1 : j = 1 \/ j = 2
    OBVIOUS
  <2> QED  BY <1>1, <1>2, <1>3, <1>4, <2>1
<1>6. ASSUME NEW m \in 1 .. n
      PROVE  ok(m)
  <2>1. m = 1 \/ m = 2 \/ m = 3
    BY <1>1
  <2>2. m <= n
    BY <1>1
  <2>3. CASE m = 1
    BY <1>3, <2>3
  <2>4. CASE m = 2
    BY <1>1, <1>4, <2>2, <2>4
  <2>5. CASE m = 3
    BY <1>1, <1>5, <2>2, <2>5
  <2> QED  BY <2>1, <2>3, <2>4, <2>5
<1>7. \A m \in 1 .. n : ok(m)
  BY <1>6, Zenon
<1> QED  BY <1>7 DEF n, ok

(***************************************************************************)
(* What the invariant says of a decision.  A prefix of the full screening  *)
(* is its first calls; and an Allow has passed every freeze gate, since    *)
(* Evaluate would otherwise have found the denial.                         *)
(***************************************************************************)
LEMMA PrefixIsCheap ==
  ASSUME NEW some \in Seq(CallSet), NEW rest \in Seq(CallSet), some # <<>>
  PROVE  some = SubSeq(some \o rest, 1, Len(some))
<1>1. Len(some) \in Nat /\ Len(some) # 0
  OBVIOUS
<1>2. 1 \in 1 .. Len(some) /\ Len(some) \in 1 .. Len(some)
  BY <1>1
<1>3. SubSeq(some \o rest, 1, Len(some)) = SubSeq(some, 1, Len(some))
  BY <1>2, SubSeqOfConcat1
<1>4. SubSeq(some, 1, Len(some)) = some
  BY SubSeqFull
<1> QED  BY <1>3, <1>4

LEMMA EarnedWhenAllowed ==
  ASSUME EvaluationTypeOK, LoopInv, CallsInv
  PROVE  AllowIsEarned
<1> SUFFICES ASSUME pc = "done", decision = Allow
             PROVE  AllowIsEarned
  BY DEF AllowIsEarned
<1>1. /\ calls = FullScreening /\ calls \in Seq(CallSet)
      /\ \A k \in 1 .. Len(calls) : SaidYes(calls[k])
  BY DEF CallsInv, EvaluationTypeOK, CallSet
<1>2. DOMAIN calls = 1 .. Len(calls)
  BY <1>1
<1>3. ASSUME NEW j \in DOMAIN parties, HoldsFunds(Parties(op)[j]), parties[j] \in frozenHere
      PROVE  FALSE
  <2>1. DOMAIN parties = 1 .. Len(parties) /\ Len(parties) \in 1 .. 3
    BY RequestTypes
  <2>2. Decided = Allow
    BY DEF LoopInv
  <2>3. \A m \in 1 .. Len(parties) : Screened(m) = Allow
    BY <2>1, <2>2, AllowMeansScreened
  <2>4. Screened(j) = "account_frozen"
    BY <1>3 DEF Screened, ScreenParty, FreezeGate, AndThen, Allow
  <2> QED  BY <2>1, <2>3, <2>4 DEF Allow
<1> QED  BY <1>1, <1>2, <1>3, Zenon DEF AllowIsEarned, SaidYes

LEMMA CheapWhenDenied ==
  ASSUME EvaluationTypeOK, LoopInv, CallsInv
  PROVE  DenialIsCheap
<1> SUFFICES ASSUME pc = "done", decision # Allow
             PROVE  DenialIsCheap
  BY DEF DenialIsCheap
<1>1. /\ calls = <<>> \/ \E rest \in Seq(CallSet) : FullScreening = calls \o rest
      /\ \A k \in 1 .. Len(calls) - 1 : SaidYes(calls[k])
      /\ decision = "account_frozen" => \A k \in 1 .. Len(calls) : calls[k].party < i
      /\ calls \in Seq(CallSet)
  BY DEF CallsInv, EvaluationTypeOK, CallSet
<1>2. DOMAIN calls = 1 .. Len(calls)
  BY <1>1
<1>3. calls # <<>> => calls = SubSeq(FullScreening, 1, Len(calls))
  BY <1>1, PrefixIsCheap
<1> QED  BY <1>1, <1>2, <1>3, Zenon DEF DenialIsCheap, SaidYes

(***************************************************************************)
(* AllowIsEarned for every request: no evaluation ends in Allow without    *)
(* asking each external contract the configuration turns on about each     *)
(* party it applies to, once and in order, with every answer a yes.        *)
(***************************************************************************)
THEOREM AllowsAreEarned == Spec => []AllowIsEarned
  BY InitTypeOK, InitLoop, InitCalls, StepKeeps, StepCalls, EarnedWhenAllowed, PTL DEF Spec

(***************************************************************************)
(* DenialIsCheap for every request: a denied evaluation has made only the  *)
(* first calls of the full screening, and none after the one that denied.  *)
(***************************************************************************)
THEOREM DenialsAreCheap == Spec => []DenialIsCheap
  BY InitTypeOK, InitLoop, InitCalls, StepKeeps, StepCalls, CheapWhenDenied, PTL DEF Spec
=============================================================================
