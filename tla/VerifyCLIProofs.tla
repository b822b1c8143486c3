-------------------------- MODULE VerifyCLIProofs ---------------------------
(***************************************************************************)
(* Proofs about the deployment smoke test, for every set of records, any   *)
(* number of listed tokens and any number of transactions of others while  *)
(* it runs.                                                                *)
(***************************************************************************)
EXTENDS VerifyCLI, ComplianceHooksProofs

-----------------------------------------------------------------------------
(* The record, and what a simulated transfer shows. *)

LEMMA CheckedFields ==
  ASSUME NEW r \in CheckedRecords
  PROVE  /\ r.admin \in Signers \cup {Placeholder}
         /\ r.admin # None
         /\ Len(r.tokens) \in Nat
         /\ DOMAIN r.tokens = 1 .. Len(r.tokens)
         /\ \A i \in DOMAIN r.tokens : r.tokens[i].id \in Tokens
<1>1. r \in Records({"here"}, Signers \cup {Placeholder}, Policies, Sacs, Tokens)
  BY VerifyAssumption
<1>2. r.admin \in Signers \cup {Placeholder} /\ r.tokens \in Seq(ListedTokens(Tokens, Sacs))
  BY <1>1 DEF Records
<1>3. r.admin # None
  BY <1>2, VerifyAssumption, NoneAssumption
<1>4. \A i \in DOMAIN r.tokens : r.tokens[i] \in ListedTokens(Tokens, Sacs)
  BY <1>2
<1> QED  BY <1>2, <1>3, <1>4 DEF ListedTokens

\* The CLI finds the reason of a denial in the code printed.
LEMMA OutcomeIsDecision ==
  ASSUME NEW d \in Decisions
  PROVE  GateOutcome(d) = d
<1>1. CASE d = Allow
  BY <1>1 DEF GateOutcome
<1>2. CASE d # Allow
  <2>1. d \in RejectionReasons
    BY <1>2 DEF Decisions
  <2>2. \A e \in RejectionReasons : Code(e) = Code(d) => e = d
    BY <2>1 DEF RejectionReasons, Code
  <2>3. FromCode(Code(d)) = d
    BY <2>1, <2>2 DEF FromCode
  <2> QED  BY <1>2, <2>3 DEF GateOutcome, ContractError
<1> QED  BY <1>1, <1>2

\* The transfer of an unbound token is refused for that, once configured.
LEMMA ProbeShows ==
  ASSUME NEW token, ~ IsTokenBound(token), NEW party, NEW sa \in Answers
  PROVE  SimulatedTransfer(token, party, sa) = "unbound_token" <=> config # None
<1> DEFINE frozenHere == {a \in Accounts : IsFrozen(token, a)}
           answer == PolicyAnswer(party)
           d == Evaluate(config, binding[token], frozenHere, "transfer",
                         <<party, party>>, <<answer, answer>>, <<sa, sa>>)
<1>1. StructuralGate(config, binding[token], "transfer", <<party, party>>)
        = IF config = None THEN "invalid_configuration" ELSE "unbound_token"
  BY DEF StructuralGate, IsTokenBound
<1>2. d = IF config = None THEN "invalid_configuration" ELSE "unbound_token"
  BY <1>1 DEF Evaluate, AndThen, Allow
<1>3. GateOutcome(d) = d
  BY <1>2, OutcomeIsDecision DEF Decisions, RejectionReasons
<1>4. SimulatedTransfer(token, party, sa) = GateOutcome(d)
  BY DEF SimulatedTransfer
<1> HIDE DEF d
<1> QED  BY <1>2, <1>3, <1>4

\* What the gate sample claims of one token.
Decides(token) ==
  \/ ~ IsTokenBound(token)
  \/ IsFrozen(token, account)
  \/ config.policy = None
  \/ policyUp

\* A transfer of the account to itself is decided unless the policy is asked
\* and cannot answer.
LEMMA SampleShows ==
  ASSUME NEW token \in Tokens, account \in Accounts, config # None,
         NEW sa \in Answers
  PROVE  IsDecision(SimulatedTransfer(token, account, sa)) <=> Decides(token)
<1> DEFINE frozenHere == {a \in Accounts : IsFrozen(token, a)}
           answer == PolicyAnswer(account)
           parties == <<account, account>>
           sac == binding[token].sac
           screened == ScreenParty(config, sac, "from", account \in frozenHere, answer, sa)
           all == [i \in DOMAIN parties |->
                     ScreenParty(config, sac, Parties("transfer")[i],
                                 parties[i] \in frozenHere, <<answer, answer>>[i],
                                 <<sa, sa>>[i])]
           d == Evaluate(config, binding[token], frozenHere, "transfer", parties,
                         <<answer, answer>>, <<sa, sa>>)
<1>1. SimulatedTransfer(token, account, sa) = GateOutcome(d)
  BY DEF SimulatedTransfer
<1>2. CASE ~ IsTokenBound(token)
  <2>1. StructuralGate(config, binding[token], "transfer", parties) = "unbound_token"
    BY <1>2 DEF StructuralGate, IsTokenBound
  <2>2. d = "unbound_token"
    BY <2>1 DEF Evaluate, AndThen, Allow
  <2>3. d \in Decisions
    BY <2>2 DEF Decisions, RejectionReasons
  <2>4. GateOutcome(d) = "unbound_token"
    BY <2>2, <2>3, OutcomeIsDecision
  <2>5. IsDecision("unbound_token")
    BY DEF IsDecision, Decisions, RejectionReasons
  <2> QED  BY <1>1, <1>2, <2>4, <2>5 DEF Decides
<1>3. CASE IsTokenBound(token)
  <2>1. StructuralGate(config, binding[token], "transfer", parties) = Allow
    BY <1>3 DEF StructuralGate, IsTokenBound, Parties
  <2>2. answer \in Answers /\ (answer = "fault" <=> ~ policyUp)
    BY DEF PolicyAnswer, SampleIsAuthorized, Answers
  <2>3. DOMAIN all = {1, 2}
    <3>1. DOMAIN parties = 1 .. 2
      OBVIOUS
    <3> QED  BY <3>1
  <2>4. all[1] = screened
    BY DEF Parties
  <2>5. all[2] = ScreenParty(config, sac, "to", account \in frozenHere, answer, sa)
    BY DEF Parties
  <2>6. ScreenParty(config, sac, "to", account \in frozenHere, answer, sa) = screened
    BY DEF ScreenParty, FreezeGate, PolicyGate, SacGate, SacApplies, HoldsFunds, GateClass
  <2>7. account \in frozenHere <=> IsFrozen(token, account)
    OBVIOUS
  <2>8. /\ screened \in Decisions
        /\ screened # "invalid_configuration"
        /\ screened = "policy_unavailable" <=> ~ Decides(token)
    BY <1>3, <2>2, <2>7 DEF Decides, ScreenParty, FreezeGate, PolicyGate, SacGate, SacApplies,
       HoldsFunds, GateClass, AndThen, Allow, Decisions, RejectionReasons, Answers
  <2>9. FirstDenial(all) = screened
    <3>1. \A i \in DOMAIN all : all[i] = screened
      BY <2>3, <2>4, <2>5, <2>6
    <3> HIDE DEF all, screened
    <3>2. CASE screened = Allow
      BY <3>1, <3>2 DEF FirstDenial
    <3>3. CASE screened # Allow
      <4>1. {i \in DOMAIN all : all[i] # Allow} = {1, 2}
        BY <2>3, <3>1, <3>3
      <4>2. \E i \in {1, 2} : \A j \in {1, 2} : i <= j
        OBVIOUS
      <4>3. (CHOOSE i \in {1, 2} : \A j \in {1, 2} : i <= j) \in DOMAIN all
        BY <2>3, <4>2
      <4> QED  BY <3>1, <4>1, <4>3 DEF FirstDenial
    <3> QED  BY <3>2, <3>3
  <2>10. d = screened
    BY <2>1, <2>9 DEF Evaluate, AndThen
  <2> HIDE DEF d, screened
  <2>11. GateOutcome(d) = screened
    BY <2>8, <2>10, OutcomeIsDecision
  <2> QED  BY <1>1, <2>8, <2>11 DEF IsDecision
<1> QED  BY <1>2, <1>3
-----------------------------------------------------------------------------
(* Type correctness. *)

\* Of the locals of verify.
LocalsOK ==
  /\ pc \in Stages
  /\ k \in 0 .. Len(record.tokens)
  /\ configured \in BOOLEAN
  /\ failures \subseteq Checks
  /\ faulted \in BOOLEAN
  /\ pc = "samples" => configured /\ account # None

LEMMA ReportsTypes ==
  ASSUME failures \subseteq Checks, faulted \in BOOLEAN,
         NEW check \in Checks, NEW holds, Reports(check, holds) \/ Faults(check)
  PROVE  failures' \subseteq Checks /\ faulted' \in BOOLEAN
  BY DEF Reports, Faults

LEMMA VerifyStepTypes ==
  ASSUME VerifyTypeOK, VerifyStep
  PROVE  ReadOnly /\ LocalsOK'
<1> USE DEF VerifyTypeOK
<1>1. Len(record.tokens) \in Nat
  BY CheckedFields
<1>2. record' = record /\ account' = account
      => (k' \in 0 .. Len(record.tokens) <=> k' \in 0 .. Len(record'.tokens))
  OBVIOUS
<1>3. ASSUME NEW sourceAccount, CheckArguments(sourceAccount)
      PROVE  ReadOnly /\ LocalsOK'
  BY <1>3 DEF CheckArguments, LocalsOK, ReadOnly, Stages
<1>4. CASE ReadInitialized
  <2>1. Reports("initialized", View.initialized) \/ Faults("contract reachable")
    BY <1>4 DEF ReadInitialized
  <2>2. failures' \subseteq Checks /\ faulted' \in BOOLEAN
    BY <2>1 DEF Reports, Faults, Checks
  <2> QED  BY <1>4, <2>2 DEF ReadInitialized, LocalsOK, ReadOnly, Stages
<1>5. CASE ReadAdmin \/ ReadConfigVersion \/ ReadStateVersion
  <2>1. failures' \subseteq Checks /\ faulted' \in BOOLEAN
    BY <1>5, ReportsTypes DEF ReadAdmin, ReadConfigVersion, ReadStateVersion,
                              ReadAndCheck, Checks
  <2> QED  BY <1>5, <2>1 DEF ReadAdmin, ReadConfigVersion, ReadStateVersion, ReadAndCheck,
                             LocalsOK, ReadOnly, Stages
<1>6. CASE ReadConfig
  <2>1. failures' \subseteq Checks /\ faulted' \in BOOLEAN
    BY <1>6, ReportsTypes DEF ReadConfig, Checks
  <2>2. configured' \in BOOLEAN
    BY <1>6 DEF ReadConfig
  <2> QED  BY <1>6, <2>1, <2>2 DEF ReadConfig, LocalsOK, ReadOnly, Stages
<1>7. CASE ReadBinding
  <2>1. failures' \subseteq Checks /\ faulted' \in BOOLEAN
    BY <1>7, ReportsTypes DEF ReadBinding, Checks
  <2>2. k' \in 0 .. Len(record.tokens)
    <3>1. k < Len(record.tokens) /\ k' = k + 1
      BY <1>7, Zenon DEF ReadBinding, Listed
    <3>2. k \in Nat
      BY <1>1
    <3> QED  BY <1>1, <3>1, <3>2
  <2> QED  BY <1>7, <2>1, <2>2 DEF ReadBinding, LocalsOK, ReadOnly, Stages
<1>8. CASE BindingsRead \/ SamplesRead
  BY <1>1, <1>8 DEF BindingsRead, SamplesRead, LocalsOK, ReadOnly, Stages
<1>9. CASE ProbeBinding
  <2>1. failures' \subseteq Checks /\ faulted' \in BOOLEAN
    BY <1>9, ReportsTypes DEF ProbeBinding, Checks
  <2>2. pc' \in {"probe_gate", AfterProbe}
    BY <1>9 DEF ProbeBinding
  <2> QED  BY <1>9, <2>1, <2>2 DEF ProbeBinding, AfterProbe, LocalsOK, ReadOnly, Stages
<1>10. CASE ProbeGate
  <2>1. failures' \subseteq Checks /\ faulted' \in BOOLEAN
    BY <1>10, ReportsTypes DEF ProbeGate, Checks
  <2> QED  BY <1>10, <2>1 DEF ProbeGate, AfterProbe, LocalsOK, ReadOnly, Stages
<1>11. CASE SampleGate
  <2>1. failures' \subseteq Checks /\ faulted' \in BOOLEAN
    BY <1>11, ReportsTypes DEF SampleGate, Checks
  <2>2. k' \in 0 .. Len(record.tokens)
    <3>1. k < Len(record.tokens) /\ k' = k + 1
      BY <1>11, Zenon DEF SampleGate, Listed
    <3>2. k \in Nat
      BY <1>1
    <3> QED  BY <1>1, <3>1, <3>2
  <2> QED  BY <1>11, <2>1, <2>2 DEF SampleGate, LocalsOK, ReadOnly, Stages
<1> QED  BY <1>3, <1>4, <1>5, <1>6, <1>7, <1>8, <1>9, <1>10, <1>11 DEF VerifyStep

LEMMA AdministersTypes ==
  ASSUME VerifyTypeOK, Administers
  PROVE  VerifyTypeOK'
<1>1. TypeOK'
  <2>1. Next
    BY DEF Administers, Next
  <2> QED  BY <2>1, StepTypeOK DEF VerifyTypeOK
<1>2. quiet' \in BOOLEAN /\ meanwhile' \in 0 .. MaxMeanwhile
  <2>1. MaxMeanwhile \in Nat
    BY VerifyAssumption
  <2>2. quiet' \in BOOLEAN
    BY DEF Administers, VerifyTypeOK
  <2>3. meanwhile' \in 0 .. MaxMeanwhile
    BY <2>1 DEF Administers, VerifyTypeOK
  <2> QED  BY <2>2, <2>3
<1> QED  BY <1>1, <1>2 DEF Administers, VerifyTypeOK

LEMMA StepVerifyTypeOK ==
  ASSUME VerifyTypeOK, [VerifyNext]_<<vars, verifyVars>>
  PROVE  VerifyTypeOK'
<1>1. CASE UNCHANGED <<vars, verifyVars>>
  BY <1>1 DEF VerifyTypeOK, TypeOK, vars, store, verifyVars
<1>2. CASE VerifyStep
  <2>1. ReadOnly /\ LocalsOK'
    BY <1>2, VerifyStepTypes
  <2>2. TypeOK'
    BY <2>1 DEF ReadOnly, VerifyTypeOK, TypeOK, vars, store
  <2> QED  BY <2>1, <2>2 DEF ReadOnly, LocalsOK, VerifyTypeOK
<1> QED  BY <1>1, <1>2, AdministersTypes DEF VerifyNext

LEMMA InitVerifyTypeOK ==
  ASSUME VerifyInit
  PROVE  VerifyTypeOK
<1>1. TypeOK
  BY InitTypeOK DEF VerifyInit
<1>2. Len(record.tokens) \in Nat /\ MaxMeanwhile \in Nat
  BY CheckedFields, VerifyAssumption DEF VerifyInit
<1>3. /\ quiet \in BOOLEAN /\ faulted \in BOOLEAN /\ configured \in BOOLEAN
      /\ policyUp \in BOOLEAN
  BY Zenon DEF VerifyInit
<1>4. k \in 0 .. Len(record.tokens) /\ meanwhile \in 0 .. MaxMeanwhile
  BY <1>2 DEF VerifyInit
<1>5. /\ record \in CheckedRecords
      /\ account \in Accounts \cup {Placeholder, None}
      /\ blocked \in Accounts \cup {None}
      /\ pc \in Stages /\ pc # "samples"
      /\ failures \subseteq Checks
  BY DEF VerifyInit, Stages
<1> QED  BY <1>1, <1>3, <1>4, <1>5 DEF VerifyTypeOK

\* VerifyTypeOK holds of every run of verify, whatever is answered.
THEOREM VerifyTypeCorrect == VerifySpec => []VerifyTypeOK
  BY InitVerifyTypeOK, StepVerifyTypeOK, PTL DEF VerifySpec

-----------------------------------------------------------------------------
(***************************************************************************)
(* What a pass says for good.  The inductive invariant keeps what the      *)
(* reads done so far found, as long as none failed: nobody undoes it.      *)
(***************************************************************************)
PastInitialized == Stages \ {"arguments", "refused", "initialized"}
PastAdmin == PastInitialized \ {"admin"}
PastConfig == PastAdmin \ {"config"}
PastConfigVersion == PastConfig \ {"config_version"}
PastStateVersion == PastConfigVersion \ {"state_version"}
PastBindings == PastStateVersion \ {"bindings"}
PastProbe == {"samples", "done"}

LastingInv ==
  failures = {} =>
    /\ pc \in PastAdmin => admin = record.admin
    /\ pc \in PastConfig => config # None
    /\ pc \in PastConfigVersion => configVersion >= 1
    /\ pc \in PastStateVersion => stateVersion >= 1

\* A check that runs and reports nothing held.
LEMMA NothingFails ==
  ASSUME NEW check, NEW holds, Reports(check, holds) \/ Faults(check), failures' = {}
  PROVE  failures = {} /\ holds
  BY Zenon DEF Reports, Faults

\* A read moves past its own check only, and leaves the contract alone.
LEMMA VerifyStepLasts ==
  ASSUME VerifyTypeOK, LastingInv, VerifyStep
  PROVE  LastingInv'
<1> SUFFICES ASSUME failures' = {}
             PROVE  LastingInv'
  BY DEF LastingInv
<1> USE DEF PastInitialized, PastAdmin, PastConfig, PastConfigVersion,
            PastStateVersion, Stages
<1>1. ReadOnly
  BY VerifyStepTypes
<1>2. /\ admin' = admin /\ config' = config /\ configVersion' = configVersion
      /\ stateVersion' = stateVersion /\ record' = record
  BY <1>1 DEF ReadOnly, vars, store
<1>3. ASSUME NEW sourceAccount, CheckArguments(sourceAccount)
      PROVE  LastingInv'
  <2>1. pc' \in {"initialized", "refused"}
    BY <1>3 DEF CheckArguments
  <2> QED  BY <2>1 DEF LastingInv
<1>4. CASE ReadInitialized
  <2>1. pc' = "admin"
    BY <1>4 DEF ReadInitialized, Faults
  <2> QED  BY <2>1 DEF LastingInv
<1>5. CASE ReadAdmin
  <2>1. View.admin = record.admin
    BY <1>5, NothingFails DEF ReadAdmin, ReadAndCheck
  <2>2. admin = record.admin
    BY <2>1 DEF View
  <2>3. pc' = "config"
    BY <1>5 DEF ReadAdmin, ReadAndCheck
  <2> QED  BY <1>2, <2>2, <2>3 DEF LastingInv
<1>6. CASE ReadConfig
  <2>1. failures = {}
    BY <1>6 DEF ReadConfig, Reports, Faults
  <2>2. View.config # None
    BY <1>6 DEF ReadConfig, Reports, Faults
  <2>3. config # None
    BY <2>2 DEF View
  <2>4. pc = "config" /\ pc' = "config_version"
    BY <1>6 DEF ReadConfig
  <2> QED  BY <1>2, <2>1, <2>3, <2>4 DEF LastingInv
<1>7. CASE ReadConfigVersion
  <2>1. failures = {} /\ View.config_version >= 1
    BY <1>7, Zenon DEF ReadConfigVersion, ReadAndCheck, Reports, Faults
  <2>2. configVersion >= 1
    BY <2>1 DEF View
  <2>3. pc = "config_version" /\ pc' = "state_version"
    BY <1>7 DEF ReadConfigVersion, ReadAndCheck
  <2> QED  BY <1>2, <2>1, <2>2, <2>3 DEF LastingInv
<1>8. CASE ReadStateVersion
  <2>1. failures = {} /\ View.state_version >= 1
    BY <1>8, Zenon DEF ReadStateVersion, ReadAndCheck, Reports, Faults
  <2>2. stateVersion >= 1
    BY <2>1 DEF View
  <2>3. pc = "state_version" /\ pc' = "bindings"
    BY <1>8 DEF ReadStateVersion, ReadAndCheck
  <2> QED  BY <1>2, <2>1, <2>2, <2>3 DEF LastingInv
<1>9. CASE ReadBinding \/ BindingsRead \/ ProbeBinding \/ ProbeGate \/ SampleGate \/ SamplesRead
  <2>1. failures = {}
    BY <1>9 DEF ReadBinding, BindingsRead, ProbeBinding, ProbeGate, SampleGate,
                SamplesRead, Reports, Faults
  <2>2. pc \in PastStateVersion
    BY <1>9 DEF ReadBinding, BindingsRead, ProbeBinding, ProbeGate, SampleGate, SamplesRead
  <2> QED  BY <1>2, <2>1, <2>2 DEF LastingInv
<1> QED  BY <1>3, <1>4, <1>5, <1>6, <1>7, <1>8, <1>9 DEF VerifyStep

\* What no transaction of anybody undoes.
Steady ==
  /\ admin # None => admin' = admin
  /\ config # None => config' # None
  /\ configVersion >= 1 => configVersion' >= 1
  /\ stateVersion >= 1 => stateVersion' >= 1

LEMMA AdministrationIsSteady ==
  ASSUME TypeOK, AdminNext
  PROVE  Steady
<1>1. Effect
  BY AdminStepHasEffect
<1>2. configVersion \in Nat /\ stateVersion \in Nat
  BY MaxU32Assumption DEF TypeOK
<1>3. CASE \E c \in Configs : Rewrites(c)
  BY <1>2, <1>3, NoneAssumption DEF Rewrites, SetComplianceConfig, BumpConfigVersion, Steady
<1>4. CASE ~ \E c \in Configs : Rewrites(c)
  <2>1. CASE \E a \in Signers : Claims(a)
    BY <2>1 DEF Claims, Steady, LayoutVersion
  <2>2. CASE ~ \E a \in Signers : Claims(a)
    <3>1. UNCHANGED <<admin, config, configVersion, stateVersion>>
      BY <1>1, <1>4, <2>2, Zenon DEF Effect, Quiet, Binds, Unbinds, Freezes, Thaws, store
    <3> QED  BY <3>1 DEF Steady
  <2> QED  BY <2>1, <2>2
<1> QED  BY <1>3, <1>4

LEMMA AdministersLasts ==
  ASSUME VerifyTypeOK, LastingInv, Administers
  PROVE  LastingInv'
<1>1. Steady
  BY AdministrationIsSteady DEF Administers, VerifyTypeOK
<1>2. record.admin # None
  BY CheckedFields DEF VerifyTypeOK
<1> QED  BY <1>1, <1>2 DEF Steady, Administers, LastingInv

(***************************************************************************)
(* What a pass says of the admin, the configuration and the versions holds *)
(* for good, for every number of tokens listed and of administrators'      *)
(* transactions between the reads and after them.                          *)
(***************************************************************************)
THEOREM PassingLasts == VerifySpec => []PassLasts
<1>1. VerifyInit => VerifyTypeOK /\ LastingInv
  BY InitVerifyTypeOK DEF VerifyInit, LastingInv, PastInitialized, PastAdmin, PastConfig,
                          PastConfigVersion, PastStateVersion
<1>2. ASSUME VerifyTypeOK, LastingInv, [VerifyNext]_<<vars, verifyVars>>
      PROVE  (VerifyTypeOK /\ LastingInv)'
  <2>1. CASE UNCHANGED <<vars, verifyVars>>
    BY <1>2, <2>1, StepVerifyTypeOK DEF LastingInv, vars, store, verifyVars
  <2> QED  BY <1>2, <2>1, StepVerifyTypeOK, VerifyStepLasts, AdministersLasts DEF VerifyNext
<1>3. LastingInv => PassLasts
  BY DEF LastingInv, PassLasts, Passes, PastInitialized, PastAdmin, PastConfig,
         PastConfigVersion, PastStateVersion, Stages
<1> QED  BY <1>1, <1>2, <1>3, PTL DEF VerifySpec

-----------------------------------------------------------------------------
(***************************************************************************)
(* What a failure and a pass say of a contract that nobody changed.  The   *)
(* inductive invariant tells, check by check, that the failures so far are *)
(* the claims read so far that do not hold.                                *)
(***************************************************************************)
BoundAt(i) == IsTokenBound(record.tokens[i].id)

DecidesAt(i) == Decides(record.tokens[i].id)

\* The recorded admin stands for a token that is not bound.
Probed == record.admin \in Tokens /\ ~ IsTokenBound(record.admin)

ProbeHolds == config # None /\ Probed

\* How many tokens the two loops have read.
BindingsSeen == IF pc \in PastBindings THEN Listed ELSE k

SamplesSeen ==
  IF pc = "samples" THEN k
  ELSE IF pc = "done" /\ account # None /\ configured THEN Listed ELSE 0

\* The single reads.
JudgedReads ==
  /\ "initialized" \in failures <=> pc \in PastInitialized /\ admin = None
  /\ "admin matches the config" \in failures <=> pc \in PastAdmin /\ admin # record.admin
  /\ "compliance configuration present" \in failures <=> pc \in PastConfig /\ config = None
  /\ "recorded policy matches the contract" \in failures
       <=> pc \in PastConfig /\ config # None /\ ~ PolicyAgrees(config)
  /\ "config_version" \in failures <=> pc \in PastConfigVersion /\ ~ configVersion >= 1
  /\ "state_version" \in failures <=> pc \in PastStateVersion /\ ~ stateVersion >= 1
  /\ "fail-closed probe" \in failures <=> pc \in PastProbe /\ ~ ProbeHolds

\* The loops.
JudgedTokens ==
  /\ "token bound" \in failures <=> \E i \in 1 .. BindingsSeen : ~ BoundAt(i)
  /\ "gate sample" \in failures <=> \E i \in 1 .. SamplesSeen : ~ DecidesAt(i)

JudgedInv ==
  /\ faulted => failures # {}
  /\ pc \notin {"bindings", "samples", "done"} => k = 0
  /\ account \in Accounts \cup {None} \/ pc \in {"arguments", "refused"}
  /\ pc \notin PastConfig => ~ configured
  /\ quiet /\ ~ faulted =>
       /\ "contract reachable" \notin failures
       /\ JudgedReads
       /\ JudgedTokens
       /\ pc \in PastConfig => (configured <=> config # None)
       /\ pc = "probe_gate" => Probed

\* What a check reports is added to what failed before, and nothing else.
LEMMA ReportAdds ==
  ASSUME NEW check, NEW holds \in BOOLEAN, Reports(check, holds)
  PROVE  /\ faulted' = faulted
         /\ failures \subseteq failures'
         /\ \A c \in Checks : c \in failures' <=> c \in failures \/ (c = check /\ ~ holds)
  BY DEF Reports

LEMMA FaultAdds ==
  ASSUME NEW check, Faults(check)
  PROVE  faulted' = TRUE /\ failures' # {}
  BY DEF Faults

\* What the claims are about.
Unchanged ==
  UNCHANGED <<admin, config, configVersion, stateVersion, binding, frozen, record, account,
              policyUp, quiet>>

LEMMA SameClaims ==
  ASSUME Unchanged
  PROVE  /\ admin' = admin /\ config' = config /\ configVersion' = configVersion
         /\ stateVersion' = stateVersion /\ record' = record /\ account' = account
         /\ quiet' = quiet /\ Listed' = Listed
         /\ PolicyAgrees(config)' <=> PolicyAgrees(config)
         /\ Probed' <=> Probed
         /\ ProbeHolds' <=> ProbeHolds
         /\ \A i : (BoundAt(i)' <=> BoundAt(i)) /\ (DecidesAt(i)' <=> DecidesAt(i))
<1>1. /\ admin' = admin /\ config' = config /\ configVersion' = configVersion
      /\ stateVersion' = stateVersion /\ binding' = binding /\ frozen' = frozen
      /\ record' = record /\ account' = account /\ policyUp' = policyUp /\ quiet' = quiet
  BY DEF Unchanged
<1>2. Listed' = Listed /\ (PolicyAgrees(config)' <=> PolicyAgrees(config))
  BY <1>1 DEF Listed, PolicyAgrees
<1>3. (Probed' <=> Probed) /\ (ProbeHolds' <=> ProbeHolds)
  BY <1>1 DEF Probed, ProbeHolds, IsTokenBound
<1>4. \A i : BoundAt(i)' <=> BoundAt(i)
  BY <1>1 DEF BoundAt, IsTokenBound
<1>5. \A i : DecidesAt(i)' <=> DecidesAt(i)
  BY <1>1 DEF DecidesAt, Decides, IsTokenBound, IsFrozen
<1> QED  BY <1>1, <1>2, <1>3, <1>4, <1>5

\* A read leaves all of it alone.
LEMMA ReadOnlyKeepsClaims ==
  ASSUME ReadOnly
  PROVE  /\ admin' = admin /\ config' = config /\ configVersion' = configVersion
         /\ stateVersion' = stateVersion /\ record' = record /\ account' = account
         /\ quiet' = quiet /\ Listed' = Listed
         /\ PolicyAgrees(config)' <=> PolicyAgrees(config)
         /\ Probed' <=> Probed
         /\ ProbeHolds' <=> ProbeHolds
         /\ \A i : (BoundAt(i)' <=> BoundAt(i)) /\ (DecidesAt(i)' <=> DecidesAt(i))
<1>1. Unchanged
  BY DEF ReadOnly, Unchanged, vars, store
<1> QED  BY <1>1, SameClaims

\* The loops are judged alike after a read that leaves them where they were.
LEMMA SameTokensJudged ==
  ASSUME JudgedTokens, ReadOnly,
         BindingsSeen' = BindingsSeen, SamplesSeen' = SamplesSeen,
         \A c \in {"token bound", "gate sample"} : c \in failures' <=> c \in failures
  PROVE  JudgedTokens'
  BY ReadOnlyKeepsClaims DEF JudgedTokens

\* The single reads are judged alike when none of them was made.
LEMMA SameReadsJudged ==
  ASSUME JudgedReads, ReadOnly,
         pc' \in PastProbe <=> pc \in PastProbe,
         pc \in PastStateVersion, pc' \in PastStateVersion,
         \A c \in Checks \ {"token bound", "gate sample"} : c \in failures' <=> c \in failures
  PROVE  JudgedReads'
  BY ReadOnlyKeepsClaims DEF JudgedReads, PastStateVersion, PastConfigVersion, PastConfig,
     PastAdmin, Checks

\* What each read has to show.
LEMMA Rejudged ==
  ASSUME JudgedInv, ReadOnly,
         faulted' => failures' # {},
         ~ faulted' => ~ faulted,
         pc' \notin {"bindings", "samples", "done"} => k' = 0,
         account \in Accounts \cup {None} \/ pc' \in {"arguments", "refused"},
         pc' \notin PastConfig => ~ configured',
         quiet /\ ~ faulted' =>
           /\ "contract reachable" \notin failures => "contract reachable" \notin failures'
           /\ JudgedReads => JudgedReads'
           /\ JudgedTokens => JudgedTokens',
         quiet /\ ~ faulted' /\ pc' \in PastConfig => (configured' <=> config # None),
         quiet /\ ~ faulted' /\ pc' = "probe_gate" => Probed
  PROVE  JudgedInv'
<1>1. /\ quiet' = quiet /\ account' = account /\ config' = config
      /\ Probed' <=> Probed
  BY ReadOnlyKeepsClaims
<1>2. quiet' /\ ~ faulted' =>
        /\ "contract reachable" \notin failures'
        /\ JudgedReads'
        /\ JudgedTokens'
        /\ pc' \in PastConfig => (configured' <=> config' # None)
        /\ pc' = "probe_gate" => Probed'
  BY <1>1, Zenon DEF JudgedInv
<1>3. account' \in Accounts \cup {None} \/ pc' \in {"arguments", "refused"}
  BY <1>1
<1> QED  BY <1>2, <1>3, Zenon DEF JudgedInv, PastConfig, PastAdmin, PastInitialized, Stages

\* One read and its check, before the loops.
LEMMA SingleReadJudges ==
  ASSUME NEW at \in Stages, NEW to \in Stages, NEW check \in Checks, NEW holds \in BOOLEAN,
         \/ /\ at = "admin" /\ to = "config" /\ check = "admin matches the config"
            /\ holds <=> admin = record.admin
         \/ /\ at = "config_version" /\ to = "state_version" /\ check = "config_version"
            /\ holds <=> configVersion >= 1
         \/ /\ at = "state_version" /\ to = "bindings" /\ check = "state_version"
            /\ holds <=> stateVersion >= 1,
         VerifyTypeOK, JudgedInv, ReadAndCheck(at, check, holds, to)
  PROVE  JudgedInv'
<1> USE DEF PastInitialized, PastAdmin, PastConfig, PastConfigVersion, PastStateVersion,
            PastBindings, PastProbe, Stages
<1>1. ReadOnly /\ k' = k /\ configured' = configured /\ pc = at /\ pc' = to
  BY DEF ReadAndCheck
<1>2. pc \in {"admin", "config_version", "state_version"}
      /\ pc' \in {"config", "state_version", "bindings"}
  BY <1>1
<1>3. CASE Faults(check)
  BY <1>1, <1>2, <1>3, FaultAdds, ReadOnlyKeepsClaims DEF JudgedInv
<1>4. CASE Reports(check, holds)
  <2>1. /\ faulted' = faulted
        /\ failures \subseteq failures'
        /\ \A c \in Checks : c \in failures' <=> c \in failures \/ (c = check /\ ~ holds)
    BY <1>4, ReportAdds
  <2>2. ASSUME JudgedReads
        PROVE  JudgedReads'
    <3>1. CASE at = "admin" /\ to = "config" /\ check = "admin matches the config"
               /\ (holds <=> admin = record.admin)
      BY <1>1, <2>1, <2>2, <3>1, ReadOnlyKeepsClaims DEF JudgedReads, Checks
    <3>2. CASE at = "config_version" /\ to = "state_version" /\ check = "config_version"
               /\ (holds <=> configVersion >= 1)
      BY <1>1, <2>1, <2>2, <3>2, ReadOnlyKeepsClaims DEF JudgedReads, Checks
    <3>3. CASE at = "state_version" /\ to = "bindings" /\ check = "state_version"
               /\ (holds <=> stateVersion >= 1)
      BY <1>1, <2>1, <2>2, <3>3, ReadOnlyKeepsClaims DEF JudgedReads, Checks
    <3> QED  BY <3>1, <3>2, <3>3
  <2>3. JudgedTokens => JudgedTokens'
    <3>1. BindingsSeen' = BindingsSeen /\ SamplesSeen' = SamplesSeen
      BY <1>1, <1>2 DEF BindingsSeen, SamplesSeen
    <3>2. \A c \in {"token bound", "gate sample"} : c \in failures' <=> c \in failures
      BY <2>1 DEF Checks
    <3> QED  BY <1>1, <3>1, <3>2, SameTokensJudged
  <2>4. "contract reachable" \notin failures => "contract reachable" \notin failures'
    BY <2>1 DEF Checks
  <2>5. faulted' => failures' # {}
    BY <2>1 DEF JudgedInv
  <2>6. /\ (pc \in PastConfig \/ (pc' \notin PastConfig /\ pc \notin PastConfig))
        /\ k' = 0 /\ (account' \in Accounts \cup {None})
    BY <1>1, <1>2, ReadOnlyKeepsClaims DEF JudgedInv
  <2>7. ASSUME quiet, ~ faulted, pc' \in PastConfig
        PROVE  configured' <=> config' # None
    <3>1. configured <=> config # None
      BY <2>6, <2>7 DEF JudgedInv
    <3> QED  BY <1>1, <3>1, ReadOnlyKeepsClaims, Zenon
  <2>8. quiet' = quiet
    BY <1>1, ReadOnlyKeepsClaims
  <2> QED  BY <1>1, <1>2, <2>1, <2>2, <2>3, <2>4, <2>5, <2>6, <2>7, <2>8 DEF JudgedInv
<1> QED  BY <1>3, <1>4 DEF ReadAndCheck

\* The arguments are checked before anything is read.
LEMMA ArgumentsJudge ==
  ASSUME VerifyTypeOK, JudgedInv, NEW sourceAccount, CheckArguments(sourceAccount)
  PROVE  JudgedInv'
<1> USE DEF PastInitialized, PastAdmin, PastConfig, PastConfigVersion, PastStateVersion,
            PastBindings, PastProbe, Stages
<1>1. /\ ReadOnly /\ k' = k /\ configured' = configured
      /\ failures' = failures /\ faulted' = faulted
      /\ pc = "arguments" /\ pc' \in {"initialized", "refused"}
  BY DEF CheckArguments
<1>2. account' \in Accounts \cup {None} \/ pc' = "refused"
  <2>1. CASE account \in Addresses \cup {None}
    BY <1>1, <2>1, VerifyAssumption, ReadOnlyKeepsClaims DEF VerifyTypeOK
  <2>2. CASE account \notin Addresses \cup {None}
    BY <2>2, Zenon DEF CheckArguments
  <2> QED  BY <2>1, <2>2
<1>3. JudgedReads => JudgedReads'
  BY <1>1, ReadOnlyKeepsClaims DEF JudgedReads
<1>4. JudgedTokens => JudgedTokens'
  <2>1. BindingsSeen' = BindingsSeen /\ SamplesSeen' = SamplesSeen
    BY <1>1 DEF BindingsSeen, SamplesSeen
  <2> QED  BY <1>1, <2>1, SameTokensJudged
<1>5. /\ pc' \notin PastConfig /\ ~ configured' /\ k' = 0
      /\ faulted' => failures' # {}
  BY <1>1 DEF JudgedInv
<1>6. account \in Accounts \cup {None} \/ pc' \in {"arguments", "refused"}
  BY <1>1, <1>2, ReadOnlyKeepsClaims
<1> QED  BY <1>1, <1>3, <1>4, <1>5, <1>6, Rejudged

\* The first read: without an answer nothing else is judged.
LEMMA InitializedJudges ==
  ASSUME VerifyTypeOK, JudgedInv, ReadInitialized
  PROVE  JudgedInv'
<1> USE DEF PastInitialized, PastAdmin, PastConfig, PastConfigVersion, PastStateVersion,
            PastBindings, PastProbe, Stages
<1>1. ReadOnly /\ k' = k /\ configured' = configured /\ pc = "initialized"
  BY DEF ReadInitialized
<1>2. account' \in Accounts \cup {None}
  BY <1>1, ReadOnlyKeepsClaims DEF JudgedInv
<1>3. CASE Faults("contract reachable") /\ pc' = "done"
  BY <1>1, <1>2, <1>3, FaultAdds DEF JudgedInv
<1>4. CASE Reports("initialized", View.initialized) /\ pc' = "admin"
  <2>1. Reports("initialized", admin # None)
    BY <1>4 DEF View
  <2>2. /\ faulted' = faulted
        /\ failures \subseteq failures'
        /\ \A c \in Checks : c \in failures' <=> c \in failures \/ (c = "initialized" /\ admin = None)
    BY <2>1 DEF Reports
  <2>3. JudgedReads => JudgedReads'
    BY <1>1, <1>4, <2>2, ReadOnlyKeepsClaims DEF JudgedReads, Checks
  <2>4. JudgedTokens => JudgedTokens'
    <3>1. BindingsSeen' = BindingsSeen /\ SamplesSeen' = SamplesSeen
      BY <1>1, <1>4 DEF BindingsSeen, SamplesSeen
    <3>2. \A c \in {"token bound", "gate sample"} : c \in failures' <=> c \in failures
      BY <2>2 DEF Checks
    <3> QED  BY <1>1, <3>1, <3>2, SameTokensJudged
  <2>5. "contract reachable" \notin failures => "contract reachable" \notin failures'
    BY <2>2 DEF Checks
  <2>6. faulted' => failures' # {}
    BY <2>2 DEF JudgedInv
  <2>7. pc' \notin PastConfig /\ ~ configured' /\ k' = 0 /\ account \in Accounts \cup {None}
    BY <1>1, <1>4 DEF JudgedInv
  <2> QED  BY <1>1, <2>2, <2>3, <2>4, <2>5, <2>6, <2>7, Rejudged
<1> QED  BY <1>3, <1>4 DEF ReadInitialized

\* The configuration: absent, or compared by its policy.
LEMMA ConfigJudges ==
  ASSUME VerifyTypeOK, JudgedInv, ReadConfig
  PROVE  JudgedInv'
<1> USE DEF PastInitialized, PastAdmin, PastConfig, PastConfigVersion, PastStateVersion,
            PastBindings, PastProbe, Stages
<1> DEFINE absent == "compliance configuration present"
           differs == "recorded policy matches the contract"
<1>1. ReadOnly /\ k' = k /\ pc = "config" /\ pc' = "config_version"
  BY DEF ReadConfig
<1>2. account' \in Accounts \cup {None} /\ k' = 0
  BY <1>1, ReadOnlyKeepsClaims DEF JudgedInv
<1>3. CASE Faults(absent)
  BY <1>1, <1>2, <1>3, FaultAdds DEF JudgedInv
<1>4. CASE ~ Faults(absent)
  <2>1. \/ config = None /\ Reports(absent, FALSE) /\ configured' = configured
        \/ config # None /\ Reports(differs, PolicyAgrees(config)) /\ configured' = TRUE
    BY <1>4 DEF ReadConfig, View
  <2>2. /\ faulted' = faulted
        /\ failures \subseteq failures'
        /\ \A c \in Checks :
             c \in failures' <=> \/ c \in failures
                                 \/ c = absent /\ config = None
                                 \/ c = differs /\ config # None /\ ~ PolicyAgrees(config)
    <3>1. CASE config = None
      BY <2>1, <3>1 DEF Reports
    <3>2. CASE config # None
      BY <2>1, <3>2 DEF Reports
    <3> QED  BY <3>1, <3>2
  <2>3. JudgedReads => JudgedReads'
    BY <1>1, <2>2, ReadOnlyKeepsClaims DEF JudgedReads, Checks
  <2>4. JudgedTokens => JudgedTokens'
    <3>1. BindingsSeen' = BindingsSeen /\ SamplesSeen' = SamplesSeen
      BY <1>1 DEF BindingsSeen, SamplesSeen
    <3>2. \A c \in {"token bound", "gate sample"} : c \in failures' <=> c \in failures
      BY <2>2 DEF Checks
    <3> QED  BY <1>1, <3>1, <3>2, SameTokensJudged
  <2>5. "contract reachable" \notin failures => "contract reachable" \notin failures'
    BY <2>2 DEF Checks
  <2>6. faulted' => failures' # {}
    BY <2>2 DEF JudgedInv
  <2>7. configured' <=> config # None
    <3>1. configured = FALSE
      BY <1>1 DEF JudgedInv, VerifyTypeOK
    <3>2. CASE config = None
      BY <2>1, <3>1, <3>2, Zenon
    <3>3. CASE config # None
      BY <2>1, <3>3, Zenon
    <3> QED  BY <3>2, <3>3
  <2>8. pc' \in PastConfig /\ k' = 0 /\ account \in Accounts \cup {None}
    BY <1>1 DEF JudgedInv
  <2> QED  BY <1>1, <2>2, <2>3, <2>4, <2>5, <2>6, <2>7, <2>8, Rejudged
<1> QED  BY <1>3, <1>4

\* A token of the first loop.
LEMMA BindingJudges ==
  ASSUME VerifyTypeOK, JudgedInv, ReadBinding
  PROVE  JudgedInv'
<1>1. ReadOnly /\ configured' = configured /\ pc = "bindings" /\ pc' = "bindings"
  BY DEF ReadBinding
<1>2. pc \in PastStateVersion /\ pc \in PastConfig /\ pc \notin PastProbe /\ pc \notin PastBindings
  BY <1>1 DEF PastInitialized, PastAdmin, PastConfig, PastConfigVersion, PastStateVersion,
              PastBindings, PastProbe, Stages
<1>3. k \in Nat /\ k' = k + 1
  <2>1. Len(record.tokens) \in Nat
    BY CheckedFields DEF VerifyTypeOK
  <2>2. k \in Nat
    BY <2>1 DEF VerifyTypeOK
  <2>3. k' = k + 1
    BY DEF ReadBinding
  <2> QED  BY <2>2, <2>3
<1>4. account \in Accounts \cup {None}
  BY <1>1 DEF JudgedInv
<1>5. CASE Faults("token bound")
  <2>1. faulted' = TRUE /\ failures' # {}
    BY <1>5, FaultAdds
  <2> QED  BY <1>1, <1>2, <1>4, <2>1, Rejudged
<1>6. CASE ~ Faults("token bound")
  <2>1. Reports("token bound", BoundAt(k + 1))
    BY <1>6 DEF ReadBinding, BoundAt
  <2>2. /\ faulted' = faulted
        /\ failures \subseteq failures'
        /\ \A c \in Checks : c \in failures' <=> c \in failures \/ (c = "token bound" /\ ~ BoundAt(k + 1))
    BY <2>1 DEF Reports
  <2>3. JudgedReads => JudgedReads'
    <3>1. \A c \in Checks \ {"token bound", "gate sample"} : c \in failures' <=> c \in failures
      BY <2>2
    <3> QED  BY <1>1, <1>2, <3>1, SameReadsJudged
  <2>4. ASSUME JudgedTokens
        PROVE  JudgedTokens'
    <3>1. BindingsSeen = k /\ BindingsSeen' = k + 1
      BY <1>1, <1>2, <1>3 DEF BindingsSeen
    <3>2. SamplesSeen = 0 /\ SamplesSeen' = 0
      BY <1>1 DEF SamplesSeen
    <3>3. "gate sample" \in failures' <=> "gate sample" \in failures
      BY <2>2 DEF Checks
    <3>4. "token bound" \in failures' <=> "token bound" \in failures \/ ~ BoundAt(k + 1)
      BY <2>2 DEF Checks
    <3>5. 1 .. (k + 1) = (1 .. k) \cup {k + 1}
      BY <1>3
    <3>6. "token bound" \in failures' <=> \E i \in 1 .. (k + 1) : ~ BoundAt(i)
      BY <2>4, <3>1, <3>4, <3>5 DEF JudgedTokens
    <3>7. "gate sample" \in failures' <=> \E i \in 1 .. 0 : ~ DecidesAt(i)
      BY <2>4, <3>2, <3>3 DEF JudgedTokens
    <3> QED  BY <1>1, <3>1, <3>2, <3>6, <3>7, ReadOnlyKeepsClaims DEF JudgedTokens
  <2>5. "contract reachable" \notin failures => "contract reachable" \notin failures'
    BY <2>2 DEF Checks
  <2>6. faulted' => failures' # {}
    BY <2>2 DEF JudgedInv
  <2>7. quiet /\ ~ faulted' => (configured' <=> config # None)
    BY <1>1, <1>2, <2>2, Zenon DEF JudgedInv
  <2> QED  BY <1>1, <1>2, <1>4, <2>2, <2>3, <2>4, <2>5, <2>6, <2>7, Rejudged
<1> QED  BY <1>5, <1>6

\* Between the loops, and after them.
LEMMA LoopsEndJudged ==
  ASSUME VerifyTypeOK, JudgedInv, BindingsRead \/ SamplesRead
  PROVE  JudgedInv'
<1>1. /\ ReadOnly /\ configured' = configured /\ failures' = failures /\ faulted' = faulted
      /\ k = Listed
      /\ \/ pc = "bindings" /\ pc' = "probe_binding" /\ k' = 0
         \/ pc = "samples" /\ pc' = "done" /\ k' = k
  BY DEF BindingsRead, SamplesRead
<1>2. /\ pc \in PastStateVersion /\ pc' \in PastStateVersion
      /\ pc \in PastConfig /\ pc' \in PastConfig
      /\ pc' \in PastProbe <=> pc \in PastProbe
      /\ pc \in PastBindings <=> pc # "bindings"
      /\ pc' \in PastBindings
  BY <1>1 DEF PastInitialized, PastAdmin, PastConfig, PastConfigVersion, PastStateVersion,
              PastBindings, PastProbe, Stages
<1>3. account \in Accounts \cup {None}
  BY <1>1 DEF JudgedInv
<1>4. BindingsSeen' = BindingsSeen
  BY <1>1, <1>2, ReadOnlyKeepsClaims DEF BindingsSeen
<1>5. SamplesSeen' = SamplesSeen
  <2>1. CASE pc = "bindings"
    BY <1>1, <2>1 DEF SamplesSeen
  <2>2. CASE pc = "samples"
    <3>1. configured /\ account # None
      BY <2>2 DEF VerifyTypeOK
    <3>2. configured' /\ account' # None
      BY <1>1, <3>1, ReadOnlyKeepsClaims, Zenon
    <3>3. pc' = "done" /\ Listed' = Listed
      BY <1>1, <2>2, ReadOnlyKeepsClaims
    <3> QED  BY <1>1, <2>2, <3>2, <3>3 DEF SamplesSeen
  <2> QED  BY <1>1, <2>1, <2>2
<1>6. JudgedReads => JudgedReads'
  BY <1>1, <1>2, SameReadsJudged
<1>7. JudgedTokens => JudgedTokens'
  BY <1>1, <1>4, <1>5, SameTokensJudged
<1>8. quiet /\ ~ faulted' => (configured' <=> config # None)
  BY <1>1, <1>2, Zenon DEF JudgedInv
<1>9. faulted' => failures' # {}
  BY <1>1 DEF JudgedInv
<1>10. pc' \notin {"bindings", "samples", "done"} => k' = 0
  BY <1>1
<1> QED  BY <1>1, <1>2, <1>3, <1>6, <1>7, <1>8, <1>9, <1>10, Rejudged

\* The probe's verdict: a report that is right, or a fault.
LEMMA ProbeReports ==
  ASSUME VerifyTypeOK, JudgedInv, ProbeBinding \/ ProbeGate,
         quiet, ~ faulted', pc' # "probe_gate"
  PROVE  Reports("fail-closed probe", ProbeHolds)
<1>1. ~ Faults("fail-closed probe")
  BY DEF Faults
<1>2. ~ faulted
  BY Zenon DEF ProbeBinding, ProbeGate, Reports, Faults
<1>3. CASE ProbeBinding
  <2>1. record.admin \in Tokens /\ IsTokenBound(record.admin)
        /\ Reports("fail-closed probe", FALSE)
    BY <1>1, <1>3 DEF ProbeBinding
  <2>2. ~ ProbeHolds
    BY <2>1 DEF ProbeHolds, Probed
  <2> QED  BY <2>1, <2>2 DEF Reports
<1>4. CASE ProbeGate
  <2>1. PICK sa \in Answers :
          Reports("fail-closed probe",
                  SimulatedTransfer(record.admin, record.admin, sa) = "unbound_token")
    BY <1>1, <1>4 DEF ProbeGate
  <2>2. Probed
    BY <1>2, <1>4 DEF ProbeGate, JudgedInv
  <2>3. SimulatedTransfer(record.admin, record.admin, sa) = "unbound_token" <=> ProbeHolds
    BY <2>2, ProbeShows DEF ProbeHolds, Probed
  <2> QED  BY <2>1, <2>3 DEF Reports
<1> QED  BY <1>3, <1>4

LEMMA ProbeJudges ==
  ASSUME VerifyTypeOK, JudgedInv, ProbeBinding \/ ProbeGate
  PROVE  JudgedInv'
<1>1. /\ ReadOnly /\ k' = k /\ configured' = configured
      /\ pc \in {"probe_binding", "probe_gate"}
      /\ pc' \in {"probe_gate", AfterProbe}
  BY DEF ProbeBinding, ProbeGate
<1>2. AfterProbe \in {"samples", "done"}
  BY DEF AfterProbe
<1>3. /\ pc \in PastStateVersion /\ pc' \in PastStateVersion
      /\ pc \in PastConfig /\ pc' \in PastConfig
      /\ pc \notin PastProbe /\ (pc' \in PastProbe <=> pc' # "probe_gate")
      /\ pc \in PastBindings /\ pc' \in PastBindings
  BY <1>1, <1>2 DEF PastInitialized, PastAdmin, PastConfig, PastConfigVersion,
                    PastStateVersion, PastBindings, PastProbe, Stages
<1>4. account \in Accounts \cup {None} /\ k' = 0
  BY <1>1 DEF JudgedInv
<1>5. BindingsSeen' = BindingsSeen
  BY <1>1, <1>3, ReadOnlyKeepsClaims DEF BindingsSeen
<1>6. SamplesSeen = 0 /\ SamplesSeen' = 0
  <2>1. pc' = "done" => ~ (account' # None /\ configured')
    <3>1. pc' = "done" => ~ (account # None /\ configured)
      BY <1>1 DEF AfterProbe
    <3> QED  BY <1>1, <3>1, ReadOnlyKeepsClaims, Zenon
  <2> QED  BY <1>1, <1>4, <2>1 DEF SamplesSeen
<1>7. CASE Faults("fail-closed probe")
  <2>1. faulted' = TRUE /\ failures' # {}
    BY <1>7, FaultAdds
  <2> QED  BY <1>1, <1>3, <1>4, <2>1, Rejudged
<1>8. CASE pc' = "probe_gate" /\ ~ Faults("fail-closed probe")
  <2>1. /\ pc = "probe_binding" /\ Probed
        /\ failures' = failures /\ faulted' = faulted
    BY <1>2, <1>8 DEF ProbeBinding, ProbeGate, Probed
  <2>2. JudgedReads => JudgedReads'
    BY <1>1, <1>3, <1>8, <2>1, SameReadsJudged
  <2>3. JudgedTokens => JudgedTokens'
    BY <1>1, <1>5, <1>6, <2>1, SameTokensJudged
  <2>4. faulted' => failures' # {}
    BY <2>1 DEF JudgedInv
  <2>5. quiet /\ ~ faulted' => (configured' <=> config # None)
    BY <1>1, <1>3, <2>1, Zenon DEF JudgedInv
  <2> QED  BY <1>1, <1>3, <1>4, <2>1, <2>2, <2>3, <2>4, <2>5, Rejudged
<1>9. CASE pc' # "probe_gate" /\ ~ Faults("fail-closed probe")
  <2>1. PICK holds \in BOOLEAN : Reports("fail-closed probe", holds)
    BY <1>9 DEF ProbeBinding, ProbeGate
  <2>2. faulted' = faulted /\ failures \subseteq failures'
    BY <2>1 DEF Reports
  <2>3. ASSUME quiet, ~ faulted'
        PROVE  \A c \in Checks : c \in failures'
                                   <=> c \in failures \/ (c = "fail-closed probe" /\ ~ ProbeHolds)
    <3>1. Reports("fail-closed probe", ProbeHolds)
      BY <1>9, <2>3, ProbeReports
    <3> QED  BY <3>1 DEF Reports
  <2>4. faulted' => failures' # {}
    BY <2>2 DEF JudgedInv
  <2>5. quiet /\ ~ faulted' => (configured' <=> config # None)
    BY <1>1, <1>3, <2>2, Zenon DEF JudgedInv
  <2>6. ASSUME quiet, ~ faulted', JudgedReads
        PROVE  JudgedReads'
    BY <1>1, <1>3, <1>9, <2>3, <2>6, ReadOnlyKeepsClaims
       DEF JudgedReads, Checks, PastStateVersion, PastConfigVersion, PastConfig, PastAdmin
  <2>7. ASSUME quiet, ~ faulted', JudgedTokens
        PROVE  JudgedTokens'
    <3>1. \A c \in {"token bound", "gate sample"} : c \in failures' <=> c \in failures
      BY <2>3, <2>7 DEF Checks
    <3> QED  BY <1>1, <1>5, <1>6, <2>7, <3>1, SameTokensJudged
  <2>8. ASSUME quiet, ~ faulted', "contract reachable" \notin failures
        PROVE  "contract reachable" \notin failures'
    BY <2>3, <2>8 DEF Checks
  <2> QED  BY <1>1, <1>3, <1>4, <1>9, <2>2, <2>4, <2>5, <2>6, <2>7, <2>8, Rejudged
<1> QED  BY <1>7, <1>8, <1>9

\* A token of the second loop: the report is right where a configuration was
\* read and is still the one in force.
LEMMA SampleReports ==
  ASSUME VerifyTypeOK, JudgedInv, SampleGate, quiet, ~ faulted'
  PROVE  Reports("gate sample", DecidesAt(k + 1))
<1>1. ~ faulted
  BY Zenon DEF SampleGate, Reports, Faults
<1>2. pc = "samples" /\ configured /\ account # None
  BY DEF SampleGate, VerifyTypeOK
<1>3. account \in Accounts
  BY <1>2 DEF JudgedInv
<1>4. config # None
  BY <1>1, <1>2, Zenon DEF JudgedInv, PastConfig, PastAdmin, PastInitialized, Stages
<1>5. record.tokens[k + 1].id \in Tokens
  <2>1. Len(record.tokens) \in Nat /\ DOMAIN record.tokens = 1 .. Len(record.tokens)
    BY CheckedFields DEF VerifyTypeOK
  <2>2. k \in Nat
    BY <2>1 DEF VerifyTypeOK
  <2>3. k < Len(record.tokens)
    BY Zenon DEF SampleGate, Listed
  <2>4. k + 1 \in DOMAIN record.tokens
    BY <2>1, <2>2, <2>3
  <2> QED  BY <2>4, CheckedFields DEF VerifyTypeOK
<1>6. PICK sa \in Answers :
        Reports("gate sample",
                IsDecision(SimulatedTransfer(record.tokens[k + 1].id, account, sa)))
  BY Zenon DEF SampleGate, Faults
<1>7. IsDecision(SimulatedTransfer(record.tokens[k + 1].id, account, sa)) <=> DecidesAt(k + 1)
  BY <1>3, <1>4, <1>5, SampleShows DEF DecidesAt
<1> QED  BY <1>6, <1>7 DEF Reports

LEMMA SampleJudges ==
  ASSUME VerifyTypeOK, JudgedInv, SampleGate
  PROVE  JudgedInv'
<1>1. ReadOnly /\ configured' = configured /\ pc = "samples" /\ pc' = "samples"
  BY DEF SampleGate
<1>2. pc \in PastStateVersion /\ pc \in PastConfig /\ pc \in PastProbe /\ pc \in PastBindings
  BY <1>1 DEF PastInitialized, PastAdmin, PastConfig, PastConfigVersion, PastStateVersion,
              PastBindings, PastProbe, Stages
<1>3. k \in Nat /\ k' = k + 1
  <2>1. Len(record.tokens) \in Nat
    BY CheckedFields DEF VerifyTypeOK
  <2>2. k \in Nat
    BY <2>1 DEF VerifyTypeOK
  <2>3. k' = k + 1
    BY DEF SampleGate
  <2> QED  BY <2>2, <2>3
<1>4. account \in Accounts \cup {None}
  BY <1>1 DEF JudgedInv
<1>5. CASE Faults("gate sample")
  <2>1. faulted' = TRUE /\ failures' # {}
    BY <1>5, FaultAdds
  <2> QED  BY <1>1, <1>2, <1>4, <2>1, Rejudged
<1>6. CASE ~ Faults("gate sample")
  <2>1. PICK holds \in BOOLEAN : Reports("gate sample", holds)
    <3>1. PICK sa \in Answers :
            Reports("gate sample",
                    IsDecision(SimulatedTransfer(record.tokens[k + 1].id, account, sa)))
      BY <1>6, Zenon DEF SampleGate
    <3> DEFINE decided == IsDecision(SimulatedTransfer(record.tokens[k + 1].id, account, sa))
    <3>2. CASE decided
      <4>1. Reports("gate sample", TRUE)
        BY <3>1, <3>2 DEF Reports
      <4> QED  BY <4>1
    <3>3. CASE ~ decided
      <4>1. Reports("gate sample", FALSE)
        BY <3>1, <3>3 DEF Reports
      <4> QED  BY <4>1
    <3> QED  BY <3>2, <3>3
  <2>2. faulted' = faulted /\ failures \subseteq failures'
    BY <2>1 DEF Reports
  <2>3. ASSUME quiet, ~ faulted'
        PROVE  \A c \in Checks :
                 c \in failures' <=> c \in failures \/ (c = "gate sample" /\ ~ DecidesAt(k + 1))
    <3>1. Reports("gate sample", DecidesAt(k + 1))
      BY <2>3, SampleReports
    <3> QED  BY <3>1 DEF Reports
  <2>4. faulted' => failures' # {}
    BY <2>2 DEF JudgedInv
  <2>5. quiet /\ ~ faulted' => (configured' <=> config # None)
    BY <1>1, <1>2, <2>2, Zenon DEF JudgedInv
  <2>6. ASSUME quiet, ~ faulted', JudgedReads
        PROVE  JudgedReads'
    <3>1. \A c \in Checks \ {"token bound", "gate sample"} : c \in failures' <=> c \in failures
      BY <2>3, <2>6
    <3> QED  BY <1>1, <1>2, <2>6, <3>1, SameReadsJudged
  <2>7. ASSUME quiet, ~ faulted', JudgedTokens
        PROVE  JudgedTokens'
    <3>1. SamplesSeen = k /\ SamplesSeen' = k + 1
      BY <1>1, <1>3 DEF SamplesSeen
    <3>2. BindingsSeen' = BindingsSeen
      BY <1>1, <1>2, ReadOnlyKeepsClaims DEF BindingsSeen
    <3>3. "token bound" \in failures' <=> "token bound" \in failures
      BY <2>3, <2>7 DEF Checks
    <3>4. "gate sample" \in failures' <=> "gate sample" \in failures \/ ~ DecidesAt(k + 1)
      BY <2>3, <2>7 DEF Checks
    <3>5. 1 .. (k + 1) = (1 .. k) \cup {k + 1}
      BY <1>3
    <3>6. "gate sample" \in failures' <=> \E i \in 1 .. (k + 1) : ~ DecidesAt(i)
      BY <2>7, <3>1, <3>4, <3>5 DEF JudgedTokens
    <3>7. "token bound" \in failures' <=> \E i \in 1 .. BindingsSeen : ~ BoundAt(i)
      BY <2>7, <3>3 DEF JudgedTokens
    <3> QED  BY <1>1, <3>1, <3>2, <3>6, <3>7, ReadOnlyKeepsClaims DEF JudgedTokens
  <2>8. ASSUME quiet, ~ faulted', "contract reachable" \notin failures
        PROVE  "contract reachable" \notin failures'
    BY <2>3, <2>8 DEF Checks
  <2> QED  BY <1>1, <1>2, <1>4, <2>2, <2>4, <2>5, <2>6, <2>7, <2>8, Rejudged
<1> QED  BY <1>5, <1>6

-----------------------------------------------------------------------------
(* The verdicts. *)

LEMMA StepJudges ==
  ASSUME VerifyTypeOK, JudgedInv, VerifyStep
  PROVE  JudgedInv'
<1> USE DEF Stages, Checks
<1>1. CASE ReadAdmin
  BY <1>1, SingleReadJudges, Zenon DEF ReadAdmin, View
<1>2. CASE ReadConfigVersion
  <2>1. PICK holds \in BOOLEAN : holds <=> configVersion >= 1
    OBVIOUS
  <2>2. ReadAndCheck("config_version", "config_version", holds, "state_version")
    BY <1>2, <2>1 DEF ReadConfigVersion, ReadAndCheck, Reports, View
  <2> QED  BY <2>1, <2>2, SingleReadJudges
<1>3. CASE ReadStateVersion
  <2>1. PICK holds \in BOOLEAN : holds <=> stateVersion >= 1
    OBVIOUS
  <2>2. ReadAndCheck("state_version", "state_version", holds, "bindings")
    BY <1>3, <2>1 DEF ReadStateVersion, ReadAndCheck, Reports, View
  <2> QED  BY <2>1, <2>2, SingleReadJudges
<1> QED  BY <1>1, <1>2, <1>3, ArgumentsJudge, InitializedJudges, ConfigJudges, BindingJudges,
            LoopsEndJudged, ProbeJudges, SampleJudges DEF VerifyStep

\* A transaction that changes the contract ends the quiet; before verify runs
\* nothing is judged.
LEMMA AdministersJudged ==
  ASSUME VerifyTypeOK, JudgedInv, Administers
  PROVE  JudgedInv'
<1>1. /\ UNCHANGED <<record, account, blocked, policyUp, pc, k, configured, failures, faulted>>
  BY DEF Administers
<1>2. CASE pc = "arguments"
  <2>1. quiet' = quiet
    BY <1>2 DEF Administers
  <2>2. JudgedReads => JudgedReads'
    BY <1>1, <1>2 DEF JudgedReads, PastInitialized, PastAdmin, PastConfig,
       PastConfigVersion, PastStateVersion, PastBindings, PastProbe, Stages
  <2>3. JudgedTokens => JudgedTokens'
    <3>1. BindingsSeen = 0 /\ BindingsSeen' = 0 /\ SamplesSeen = 0 /\ SamplesSeen' = 0
      BY <1>1, <1>2 DEF JudgedInv, BindingsSeen, SamplesSeen, PastInitialized, PastAdmin,
         PastConfig, PastConfigVersion, PastStateVersion, PastBindings, Stages
    <3>2. 1 .. 0 = {}
      OBVIOUS
    <3> QED  BY <1>1, <3>1, <3>2, Zenon DEF JudgedTokens
  <2>4. pc \notin PastConfig /\ pc # "probe_gate"
    BY <1>2 DEF PastInitialized, PastAdmin, PastConfig, Stages
  <2> QED  BY <1>1, <2>1, <2>2, <2>3, <2>4, Zenon DEF JudgedInv, PastConfig, PastAdmin,
              PastInitialized, Stages
<1>3. CASE pc # "arguments"
  <2>1. quiet' = (quiet /\ store' = store)
    BY <1>3 DEF Administers
  <2>2. ASSUME quiet', ~ faulted'
        PROVE  /\ "contract reachable" \notin failures'
               /\ JudgedReads'
               /\ JudgedTokens'
               /\ pc' \in PastConfig => (configured' <=> config' # None)
               /\ pc' = "probe_gate" => Probed'
    <3>1. quiet /\ store' = store /\ ~ faulted
      BY <1>1, <2>1, <2>2, Zenon
    <3>2. quiet' = quiet
      BY <2>2, <3>1, Zenon DEF VerifyTypeOK
    <3>3. Unchanged
      BY <1>1, <3>1, <3>2 DEF Unchanged, store
    <3>4. JudgedReads /\ JudgedTokens
      BY <3>1 DEF JudgedInv
    <3>5. JudgedReads'
      BY <1>1, <3>3, <3>4, SameClaims DEF JudgedReads
    <3>6. JudgedTokens'
      <4>1. BindingsSeen' = BindingsSeen /\ SamplesSeen' = SamplesSeen
        BY <1>1, <3>3, SameClaims DEF BindingsSeen, SamplesSeen
      <4> QED  BY <1>1, <3>3, <3>4, <4>1, SameClaims DEF JudgedTokens
    <3> QED  BY <1>1, <3>1, <3>3, <3>5, <3>6, SameClaims, Zenon DEF JudgedInv
  <2> QED  BY <1>1, <2>2, Zenon DEF JudgedInv, PastConfig, PastAdmin, PastInitialized, Stages
<1> QED  BY <1>2, <1>3

LEMMA StepJudgedInv ==
  ASSUME VerifyTypeOK, JudgedInv, [VerifyNext]_<<vars, verifyVars>>
  PROVE  JudgedInv'
<1>1. CASE UNCHANGED <<vars, verifyVars>>
  <2>1. Unchanged /\ UNCHANGED <<pc, k, configured, failures, faulted>>
    BY <1>1 DEF vars, store, verifyVars, Unchanged
  <2>2. BindingsSeen' = BindingsSeen /\ SamplesSeen' = SamplesSeen
    BY <2>1, SameClaims DEF BindingsSeen, SamplesSeen
  <2>3. JudgedReads => JudgedReads'
    BY <2>1, SameClaims DEF JudgedReads
  <2>4. JudgedTokens => JudgedTokens'
    BY <2>1, <2>2, SameClaims DEF JudgedTokens
  <2>5. Probed' <=> Probed
    BY <2>1, SameClaims
  <2> QED  BY <2>1, <2>3, <2>4, <2>5, Zenon DEF Unchanged, JudgedInv, PastConfig, PastAdmin,
              PastInitialized, Stages
<1> QED  BY <1>1, StepJudges, AdministersJudged DEF VerifyNext

LEMMA InitJudged ==
  ASSUME VerifyInit
  PROVE  JudgedInv
<1>1. /\ pc = "arguments" /\ k = 0 /\ failures = {} /\ faulted = FALSE /\ configured = FALSE
  BY DEF VerifyInit
<1>2. BindingsSeen = 0 /\ SamplesSeen = 0
  BY <1>1 DEF BindingsSeen, SamplesSeen, PastInitialized, PastAdmin, PastConfig,
              PastConfigVersion, PastStateVersion, PastBindings, Stages
<1>3. JudgedTokens
  BY <1>1, <1>2 DEF JudgedTokens
<1>4. JudgedReads
  BY <1>1 DEF JudgedReads, PastInitialized, PastAdmin, PastConfig, PastConfigVersion,
              PastStateVersion, PastBindings, PastProbe, Stages
<1> QED  BY <1>1, <1>3, <1>4 DEF JudgedInv, PastConfig, PastAdmin, PastInitialized, Stages

\* At the end the invariant is what the checks claim.
LEMMA JudgedAtEnd ==
  ASSUME VerifyTypeOK, JudgedInv, pc = "done", quiet, ~ faulted
  PROVE  \A check \in Checks : check \in failures <=> ~ Claim(check)
<1>1. Len(record.tokens) \in Nat /\ DOMAIN record.tokens = 1 .. Len(record.tokens)
  BY CheckedFields DEF VerifyTypeOK
<1>2. /\ pc \in PastInitialized /\ pc \in PastAdmin /\ pc \in PastConfig
      /\ pc \in PastConfigVersion /\ pc \in PastStateVersion /\ pc \in PastBindings
      /\ pc \in PastProbe
  BY DEF PastInitialized, PastAdmin, PastConfig, PastConfigVersion, PastStateVersion,
         PastBindings, PastProbe, Stages
<1>3. JudgedReads /\ JudgedTokens /\ "contract reachable" \notin failures
  BY DEF JudgedInv
<1>4. configured <=> config # None
  BY <1>2, Zenon DEF JudgedInv
<1>5. "token bound" \in failures <=> ~ Claim("token bound")
  <2>1. BindingsSeen = Len(record.tokens)
    BY <1>2 DEF BindingsSeen, Listed
  <2> QED  BY <1>1, <1>3, <2>1 DEF JudgedTokens, BoundAt, Claim
<1>6. "gate sample" \in failures <=> ~ Claim("gate sample")
  <2>1. CASE account # None /\ config # None
    <3>1. configured
      BY <1>4, <2>1, Zenon
    <3>2. SamplesSeen = Len(record.tokens)
      BY <2>1, <3>1 DEF SamplesSeen, Listed
    <3> QED  BY <1>1, <1>3, <2>1, <3>2 DEF JudgedTokens, DecidesAt, Decides, Claim
  <2>2. CASE ~ (account # None /\ config # None)
    <3>1. ~ (account # None /\ configured)
      BY <1>4, <2>2, Zenon
    <3>2. SamplesSeen = 0
      BY <3>1 DEF SamplesSeen
    <3>3. "gate sample" \notin failures
      <4>1. 1 .. 0 = {}
        OBVIOUS
      <4> QED  BY <1>3, <3>2, <4>1, Zenon DEF JudgedTokens
    <3>4. Claim("gate sample")
      BY <2>2 DEF Claim
    <3> QED  BY <3>3, <3>4
  <2> QED  BY <2>1, <2>2
<1>7. \A check \in Checks \ {"token bound", "gate sample"} : check \in failures <=> ~ Claim(check)
  BY <1>2, <1>3 DEF JudgedReads, ProbeHolds, Probed, Claim, Checks
<1> QED  BY <1>5, <1>6, <1>7

(***************************************************************************)
(* What verify reports as failed is what does not hold, when nobody        *)
(* changes the contract and every read is answered, for any number of      *)
(* tokens.                                                                 *)
(***************************************************************************)
THEOREM FailuresAreReal == VerifySpec => []FailureIsReal
<1>1. VerifyInit => VerifyTypeOK /\ JudgedInv
  BY InitVerifyTypeOK, InitJudged
<1>2. VerifyTypeOK /\ JudgedInv /\ [VerifyNext]_<<vars, verifyVars>> => (VerifyTypeOK /\ JudgedInv)'
  BY StepVerifyTypeOK, StepJudgedInv
<1>3. VerifyTypeOK /\ JudgedInv => FailureIsReal
  BY JudgedAtEnd DEF FailureIsReal, VerifyTypeOK
<1> QED  BY <1>1, <1>2, <1>3, PTL DEF VerifySpec

(***************************************************************************)
(* A pass is right on every count when nobody changes the contract: a read *)
(* that is not answered never counts as one that held.                     *)
(***************************************************************************)
THEOREM PassesAreEarned == VerifySpec => []PassIsEarned
<1>1. VerifyInit => VerifyTypeOK /\ JudgedInv
  BY InitVerifyTypeOK, InitJudged
<1>2. VerifyTypeOK /\ JudgedInv /\ [VerifyNext]_<<vars, verifyVars>> => (VerifyTypeOK /\ JudgedInv)'
  BY StepVerifyTypeOK, StepJudgedInv
<1>3. VerifyTypeOK /\ JudgedInv => PassIsEarned
  <2> SUFFICES ASSUME VerifyTypeOK, JudgedInv, Passes, quiet
               PROVE  \A check \in Checks : Claim(check)
    BY DEF PassIsEarned
  <2>1. ~ faulted /\ pc = "done" /\ failures = {}
    BY DEF JudgedInv, Passes
  <2> QED  BY <2>1, JudgedAtEnd
<1> QED  BY <1>1, <1>2, <1>3, PTL DEF VerifySpec
-----------------------------------------------------------------------------
(***************************************************************************)
(* The smoke test changes nothing on the contract it checks, in no stage   *)
(* and with no arguments: what happens there is what others do, so that    *)
(* whatever is proved of the contract holds while it is being verified.    *)
(***************************************************************************)
THEOREM VerifyOnlyReads == VerifySpec => Spec
<1>1. VerifyInit => Init
  BY DEF VerifyInit
<1>2. ASSUME VerifyTypeOK, [VerifyNext]_<<vars, verifyVars>>
      PROVE  [Next]_vars
  <2>1. CASE VerifyStep
    BY <1>2, <2>1, VerifyStepTypes DEF ReadOnly
  <2>2. CASE Administers
    BY <2>2 DEF Administers, Next
  <2> QED  BY <1>2, <2>1, <2>2 DEF VerifyNext
<1> QED  BY <1>1, <1>2, VerifyTypeCorrect, PTL DEF VerifySpec, Spec
=============================================================================
