----------------------------- MODULE VerifyCLI -----------------------------
(***************************************************************************)
(* The CLI's deployment smoke test (verify in cli/src/main.rs): a sequence *)
(* of separate reads of the contract, each a simulation that may fail by   *)
(* itself, compared one by one with the deployment record, while others    *)
(* administer the contract between any two of them.                        *)
(***************************************************************************)
EXTENDS ComplianceHooks, DeploymentRecord

CONSTANTS
  CheckedRecords,   \* the records verified
  Placeholder,      \* what an example record holds instead of an address
  MaxMeanwhile      \* bound on the transactions of others once verify runs

Addresses == Signers \cup Tokens \cup Accounts

ASSUME VerifyAssumption ==
  /\ CheckedRecords \subseteq
       Records({"here"}, Signers \cup {Placeholder}, Policies, Sacs, Tokens)
  /\ Placeholder \notin Addresses \cup {None}
  /\ MaxMeanwhile \in Nat

VARIABLES
  record,      \* the record, as loaded
  account,     \* --account: the account to sample the gate for, or None
  blocked,     \* the account the deployed sample policy denies, or None
  policyUp,    \* whether the policy contract answers
  pc,          \* the next read
  k,           \* tokens done in the loop that is running
  configured,  \* the local of verify: a configuration was read
  failures,    \* the checks that failed so far
  quiet,       \* history: nothing changed since verify started
  faulted,     \* history: a read could not be answered
  meanwhile    \* history: transactions of others since verify started

verifyVars == <<record, account, blocked, policyUp, pc, k, configured,
                failures, quiet, faulted, meanwhile>>

Checks == {"contract reachable", "initialized", "admin matches the config",
           "compliance configuration present",
           "recorded policy matches the contract", "config_version",
           "state_version", "token bound", "fail-closed probe", "gate sample"}

Stages == {"arguments", "initialized", "admin", "config", "config_version",
           "state_version", "bindings", "probe_binding", "probe_gate",
           "samples", "done", "refused"}

VerifyTypeOK ==
  /\ TypeOK
  /\ record \in CheckedRecords
  /\ account \in Accounts \cup {Placeholder, None}
  /\ blocked \in Accounts \cup {None}
  /\ policyUp \in BOOLEAN
  /\ pc \in Stages
  /\ k \in 0 .. Len(record.tokens)
  /\ configured \in BOOLEAN
  /\ failures \subseteq Checks
  /\ quiet \in BOOLEAN
  /\ faulted \in BOOLEAN
  /\ meanwhile \in 0 .. MaxMeanwhile
  /\ pc = "samples" => configured /\ account # None

-----------------------------------------------------------------------------
(* What the contract answers. *)

\* The read-only entry points.
View ==
  [initialized |-> admin # None, admin |-> admin, config |-> config,
   config_version |-> configVersion, state_version |-> stateVersion]

\* The sample policy denies the one account it was deployed with.
SampleIsAuthorized(party) == IF party # blocked THEN "yes" ELSE "no"

PolicyAnswer(party) == IF policyUp THEN SampleIsAuthorized(party) ELSE "fault"

\* The error a revert carries: the reason's code.
ContractError(decision) == Code(decision)

\* What the CLI makes of a simulated hook: an Ok, or the reason it finds in
\* the error printed.
GateOutcome(decision) ==
  IF decision = Allow THEN Allow ELSE FromCode(ContractError(decision))

\* before_transfer of a party to itself, simulated: nothing is written.
SimulatedTransfer(token, party, sacAnswer) ==
  LET answer == PolicyAnswer(party)
  IN  GateOutcome(
        Evaluate(config, binding[token], {a \in Accounts : IsFrozen(token, a)},
                 "transfer", <<party, party>>, <<answer, answer>>,
                 <<sacAnswer, sacAnswer>>))

-----------------------------------------------------------------------------
(* The checks, in the order they run. *)

Reports(check, holds) ==
  /\ failures' = IF holds THEN failures ELSE failures \cup {check}
  /\ UNCHANGED faulted

\* A read that errors fails its check.
Faults(check) ==
  /\ failures' = failures \cup {check}
  /\ faulted' = TRUE

ReadOnly == UNCHANGED <<vars, record, account, blocked, policyUp, quiet, meanwhile>>

\* One read, one check.
ReadAndCheck(at, check, holds, to) ==
  /\ pc = at
  /\ pc' = to
  /\ Reports(check, holds) \/ Faults(check)
  /\ ReadOnly /\ UNCHANGED <<k, configured>>

\* The accounts named must be addresses before anything is called; the source
\* account is the recorded admin unless another is given.
CheckArguments(sourceAccount) ==
  /\ pc = "arguments"
  /\ LET simulatedFrom == IF sourceAccount = None THEN record.admin ELSE sourceAccount
     IN  IF simulatedFrom \in Addresses /\ account \in Addresses \cup {None}
         THEN pc' = "initialized" \/ pc' = "refused"
         ELSE pc' = "refused"
  /\ ReadOnly /\ UNCHANGED <<k, configured, failures, faulted>>

\* The first read tells whether there is a contract to check at all.
ReadInitialized ==
  /\ pc = "initialized"
  /\ \/ Reports("initialized", View.initialized) /\ pc' = "admin"
     \/ Faults("contract reachable") /\ pc' = "done"
  /\ ReadOnly /\ UNCHANGED <<k, configured>>

ReadAdmin ==
  ReadAndCheck("admin", "admin matches the config", View.admin = record.admin, "config")

\* The policies are compared when both sides have one.
PolicyAgrees(live) ==
  live.policy # None /\ record.policy # None => live.policy = record.policy

ReadConfig ==
  /\ pc = "config"
  /\ pc' = "config_version"
  /\ \/ /\ View.config = None
        /\ Reports("compliance configuration present", FALSE)
        /\ UNCHANGED configured
     \/ /\ View.config # None
        /\ Reports("recorded policy matches the contract", PolicyAgrees(View.config))
        /\ configured' = TRUE
     \/ Faults("compliance configuration present") /\ UNCHANGED configured
  /\ ReadOnly /\ UNCHANGED k

ReadConfigVersion ==
  ReadAndCheck("config_version", "config_version", View.config_version >= 1,
               "state_version")

\* Mutant: every layout version will do.
ReadStateVersion_Any ==
  ReadAndCheck("state_version", "state_version", View.state_version >= 0, "bindings")

ReadStateVersion ==
  ReadAndCheck("state_version", "state_version", View.state_version >= 1, "bindings")

\* Mutant: the last token listed is left out.
Listed_ButLast == IF record.tokens = <<>> THEN 0 ELSE Len(record.tokens) - 1

\* How many tokens the loops go through.
Listed == Len(record.tokens)

ReadBinding ==
  /\ pc = "bindings"
  /\ k < Listed
  /\ \/ Reports("token bound", IsTokenBound(record.tokens[k + 1].id))
     \/ Faults("token bound")
  /\ k' = k + 1
  /\ ReadOnly /\ UNCHANGED <<pc, configured>>

\* All tokens are read; none listed is a skip.
BindingsRead ==
  /\ pc = "bindings"
  /\ k = Listed
  /\ pc' = "probe_binding"
  /\ k' = 0
  /\ ReadOnly /\ UNCHANGED <<configured, failures, faulted>>

\* Mutant: the samples do not depend on a configuration.
AfterProbe_IgnoresConfig == IF account # None THEN "samples" ELSE "done"

\* The gate is sampled for an account, on a configured contract.
AfterProbe == IF account # None /\ configured THEN "samples" ELSE "done"

\* The recorded admin stands for a token nobody bound.  A placeholder in its
\* place cannot be read.
ProbeBinding ==
  /\ pc = "probe_binding"
  /\ \/ /\ record.admin \in Tokens /\ IsTokenBound(record.admin)
        /\ Reports("fail-closed probe", FALSE)
        /\ pc' = AfterProbe
     \/ /\ record.admin \in Tokens /\ ~ IsTokenBound(record.admin)
        /\ pc' = "probe_gate"
        /\ UNCHANGED <<failures, faulted>>
     \/ /\ Faults("fail-closed probe")
        /\ pc' = AfterProbe
  /\ ReadOnly /\ UNCHANGED <<k, configured>>

\* Its transfer must be refused, and for that reason.
ProbeGate ==
  /\ pc = "probe_gate"
  /\ pc' = AfterProbe
  /\ \/ \E sa \in Answers :
          Reports("fail-closed probe",
                  SimulatedTransfer(record.admin, record.admin, sa) = "unbound_token")
     \/ Faults("fail-closed probe")
  /\ ReadOnly /\ UNCHANGED <<k, configured>>

\* An allow and a refusal are decisions; these two reasons, and a code that
\* is not documented, are not.
IsDecision(outcome) ==
  outcome \in Decisions \ {"invalid_configuration", "policy_unavailable"}

SampleGate ==
  /\ pc = "samples"
  /\ k < Listed
  /\ \/ \E sa \in Answers :
          Reports("gate sample",
                  IsDecision(SimulatedTransfer(record.tokens[k + 1].id, account, sa)))
     \/ Faults("gate sample")
  /\ k' = k + 1
  /\ ReadOnly /\ UNCHANGED <<pc, configured>>

SamplesRead ==
  /\ pc = "samples"
  /\ k = Listed
  /\ pc' = "done"
  /\ ReadOnly /\ UNCHANGED <<k, configured, failures, faulted>>

-----------------------------------------------------------------------------
(* The process, and everybody else. *)

\* The exit code: no check failed.
Passes == pc = "done" /\ failures = {}

VerifyStep ==
  \/ \E sourceAccount \in Addresses \cup {Placeholder, None} :
       CheckArguments(sourceAccount)
  \/ ReadInitialized \/ ReadAdmin \/ ReadConfig \/ ReadConfigVersion
  \/ ReadStateVersion \/ ReadBinding \/ BindingsRead \/ ProbeBinding
  \/ ProbeGate \/ SampleGate \/ SamplesRead

\* Administration goes on before, while and after verify runs.
Administers ==
  /\ AdminNext
  /\ UNCHANGED <<upgraded, record, account, blocked, policyUp, pc, k,
                 configured, failures, faulted>>
  /\ IF pc = "arguments"
     THEN UNCHANGED <<quiet, meanwhile>>
     ELSE /\ meanwhile < MaxMeanwhile
          /\ meanwhile' = meanwhile + 1
          /\ quiet' = (quiet /\ store' = store)

VerifyInit ==
  /\ Init
  /\ record \in CheckedRecords
  /\ account \in Accounts \cup {Placeholder, None}
  /\ blocked \in Accounts \cup {None}
  /\ policyUp \in BOOLEAN
  /\ pc = "arguments" /\ k = 0
  /\ configured = FALSE
  /\ failures = {}
  /\ quiet = TRUE /\ faulted = FALSE /\ meanwhile = 0

VerifyNext == VerifyStep \/ Administers

VerifySpec == VerifyInit /\ [][VerifyNext]_<<vars, verifyVars>>

-----------------------------------------------------------------------------
(* Properties. *)

\* What each check claims of the contract, said of its state at one moment.
Claim(check) ==
  /\ check = "initialized" => admin # None
  /\ check = "admin matches the config" => admin = record.admin
  /\ check = "compliance configuration present" => config # None
  /\ check = "recorded policy matches the contract" =>
       (config # None => PolicyAgrees(config))
  /\ check = "config_version" => configVersion >= 1
  /\ check = "state_version" => stateVersion >= 1
  /\ check = "token bound" =>
       \A i \in DOMAIN record.tokens : IsTokenBound(record.tokens[i].id)
  /\ check = "fail-closed probe" =>
       config # None /\ record.admin \in Tokens /\ ~ IsTokenBound(record.admin)
  /\ check = "gate sample" =>
       (account # None /\ config # None =>
          \A i \in DOMAIN record.tokens :
            LET token == record.tokens[i].id
            IN  \/ ~ IsTokenBound(token)
                \/ IsFrozen(token, account)
                \/ config.policy = None
                \/ policyUp)

(***************************************************************************)
(* A verify that passes while nobody changes the contract is right on      *)
(* every count, whichever of its reads failed on the way.                  *)
(***************************************************************************)
PassIsEarned == Passes /\ quiet => \A check \in Checks : Claim(check)

(***************************************************************************)
(* A check fails for its reason only: with nobody changing the contract    *)
(* and every read answered, what verify reports as failed is what does     *)
(* not hold, no cascade and no false alarm.                                *)
(***************************************************************************)
FailureIsReal ==
  pc = "done" /\ quiet /\ ~ faulted =>
    failures = {check \in Checks : ~ Claim(check)}

(***************************************************************************)
(* What a pass says of the admin, the configuration and the versions holds *)
(* for good, although each was read at another moment and the contract may *)
(* have changed between the reads and goes on changing afterwards.         *)
(***************************************************************************)
PassLasts ==
  Passes =>
    /\ admin = record.admin
    /\ config # None
    /\ configVersion >= 1
    /\ stateVersion >= 1
=============================================================================
