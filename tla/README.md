# A TLA+ verification of the Safeguard enforcement layer

Safeguard is the enforcement side of a compliance stack for confidential
tokens on Stellar: a token calls a hook of the `compliance-hooks` contract
before every operation, and the hook fails, and with it the operation, unless
every party passes the gates in force. These modules model the contract, the
evaluation it runs, the lifetimes of its entries, the tokens it protects, the
audit bridge that follows its events and the operator CLI that deploys,
administers and verifies it. TLC checks them on small instances, and TLAPS
proves the main results for instances of any size.

## 1. The system

### Components

| Component | State | Operations | What makes it correct |
|---|---|---|---|
| `crates/hook-core` | none | the six operations, their parties in screening order, gate classes, decisions and `and_then` | the first denial wins; only the spender escapes the freeze and SAC gates |
| `crates/storage` | `Admin`, `Config`, `ConfigVersion`, `Version` (instance); `TokenBinding(token)`, `Freeze(token, account)` (persistent) | one setter per entry; `set_compliance_config` also heals a missing `Version`; reads renew persistent entries | entries never get out of step with each other |
| `crates/authorization` | reads storage | `require_admin` (a missing admin is an error, a missing signature a host trap), `require_token_bound` | nobody but the admin writes |
| `crates/policy-client`, `compliance/src/sac.rs` | none | one cross-contract call each, mapped to a Boolean or a denial | whatever cannot be evaluated denies |
| `crates/compliance` | reads storage | `evaluate`: structure, then the parties in order, each through freeze, policy, SAC | an Allow is earned by every applicable gate; a denial costs no later call |
| `crates/events` | none | six events | the audit bridge can rebuild the state from them |
| `contracts/compliance-hooks` | all of the above | `initialize`, `set_config`, `bind_token`, `unbind_token`, `freeze`, `unfreeze`, six hooks, read-only views | lifecycle, idempotence, one event per change, hooks change nothing |
| confidential tokens, policy, SAC (external) | balances, registries, authorizations | register, deposit, transfer, delegated transfer, withdraw, merge; registry and issuer changes | holdings move only for cleared accounts |
| `cli` | the saved deployment record | `init`, `configure`, `bind`, `unbind`, `freeze`, `unfreeze`, `deploy`, `show`, `verify` | the record and the contract agree, whatever fails in between; a verdict of `verify` is worth something |
| audit consumer (external) | its view of a contract | applies events | notices what it missed |

Tokens call hooks; hooks call policy and SAC; the admin, usually through the
CLI, calls the administrative entry points; events go to the audit bridge.
Only storage is shared, and the host runs one transaction at a time: it
commits everything an entry point wrote or, on an error or a trap, nothing.

### What is hard

* State that must move together: a configuration, its version, the layout
  stamp and the event; a binding or a freeze and its event.
* Calls in any order: `bind_token` before `set_config`, `unbind_token` with
  freezes in place, `initialize` again, retries of what was already done.
* Contracts upgraded in place from code that had no layout stamp.
* External contracts that answer differently each time, revert or are missing;
  the account of a withdrawal, which is asked about twice.
* Policies, issuers and the admin acting between the operations of a token.
* A time to live that is renewed on read by transactions that may fail, and a
  failed transaction keeps no renewal.
* Events that the audit bridge misses or sees late.
* The CLI's sequences of transactions with one file behind them: each may fail,
  be refused, or be applied with its answer lost; the process may die between
  any two, in the middle of rewriting the file; somebody else may act first.
* `verify`: some ten separate reads, compared one by one with a record while
  the contract may change in between.

`PROJECT.json` lists each of these hazards with the line where it bites and
the properties that would catch it.

## 2. The modules

```
HookCore               operations, parties, roles, decisions, reason codes
  Compliance           the evaluation as a function of storage and answers
    Evaluator          the same evaluation, a gate or a cross-contract call per step
      MCEvaluator; EvaluatorProofs
    DeploymentRecord   the CLI's record and what is looked up in it
    ComplianceHooks    the contract: storage, gates, entry points, events
      MCComplianceHooks, DocClaims; ComplianceProofs, ComplianceHooksProofs
      TokenLedger      the contract with the tokens, policy and SAC around it
        MCTokenLedger; TokenLedgerProofs
      EntryLifetime    the contract with ledgers passing and entries archived
        MCEntryLifetime; EntryLifetimeProofs
      AuditTrail       the contract with the audit bridge behind it
        MCAuditTrail; AuditTrailProofs
      OperatorCLI      + DeploymentRecord: the commands that transact
        MCOperatorCLI; OperatorCLIProofs
      VerifyCLI        + DeploymentRecord: the smoke test
        MCVerifyCLI, VerifyClaims; VerifyCLIProofs
EnforcementLedger      what the contract promises, in the abstract
```

**HookCore** is the vocabulary of `crates/hook-core`. A decision is `"allow"`
or a reason, and `AndThen` is `and_then`.

**Compliance** is `evaluate` and `screen_party`. An external contract answers
`"yes"`, `"no"` or `"fault"`; the last one stands for everything
`try_invoke_contract` reports that is not a Boolean. `FirstDenial` is the loop
with its early exit. The answers are given per party rather than per account,
since a contract asked twice may answer differently.

**Evaluator** is the loop as it runs: a step per gate, a step per
cross-contract call, and the history of the calls made. The early `return` of
`screen_party` and the `break` of `evaluate` are `Deny`.

**ComplianceHooks** is the contract. One step is one transaction. The
variables are the storage entries (`None` or 0 when absent); `tx` is what an
observer sees of the last transaction: the entry point, its result, its event.
`host_auth` and `host_overflow` are traps (the release profile keeps overflow
checks on). `Leaves` is the way out of every early `Ok`, denial and trap.
Hooks are `Before...`; whatever they decide, they leave the storage alone.
`Init` admits a fresh deployment and one upgraded in place: any state that code
without the layout stamp could have left. The history variable `upgraded`
tells them apart.

**EnforcementLedger** is the abstract specification: an authority claimed once,
rules rewritten and counted, a scope, and holds placed and lifted one at a time
while the asset is in scope. The refinement mapping (`Ledger` in
ComplianceHooks) forgets signers, SACs, stamps, results and events; rebinding,
idempotent calls, denials and hooks are stutters.

**TokenLedger** puts tokens behind the hooks. An operation and its hook are one
transaction and one step. The token is external: it has registered accounts,
the underlying asset and a pending and a spendable balance per account, and
leaves out proofs, signatures and allowances, so any spender may try to move
any balance. The policy's answer for a token and an account and the SAC's for
an account change at any time.

**EntryLifetime** adds time to the contract. Every persistent entry has a
`life` in ledgers; `Tick` closes a ledger, at 0 the host archives the entry, and
no transaction reads it before somebody restores it (`NoneArchived`,
`Restore`). `Settles` is what a transaction does to the lifetimes: an entry it
creates starts at the host's minimum, one it read is renewed as `touch` does if
the transaction commits, and a failed one keeps nothing. Which entries a
transaction reads follows its early exits: `BindingReads`, `FreezeReads`,
`HookReads`. `idle` and `unread` are histories: the ledgers since a committed
transaction, and since any transaction, read the entry. The parties of a hook
are given the same answers here, which decide the flag a hook gets to and no
lifetime besides. The lifetime of the contract instance, which no code of the
repository touches, is left to the host.

**AuditTrail** puts a bounded channel and a consumer behind the contract. The
bridge is external; as `docs/events.md` and `docs/storage.md` use it, it applies
events in order (`Delivers`), may miss any of them (`Misses`), and holds its
count of configuration events against `config_version()`. Only administration
is run: a hook changes and publishes nothing (lemma `HookStep`).

**DeploymentRecord** is `cli/src/config.rs`: the record, the lookup of a
`--token`, of its SAC, and of who signs.

**OperatorCLI** is one operator who runs one command after another. `pc` walks
a command through its stages; a transaction is one step with three ends
(`InvokeAndEnd`, `InvokeAndGo`): applied and answered, refused by the contract
(`Reverted`), or not answered, applied or not. A transaction whose answer is
lost is never applied *later*: Stellar accepts one transaction per sequence
number of the account, so an older one that is still under way when the
operator repeats it either came first or is void. `Kill` ends a command
anywhere; `OtherStep` is anybody's transaction at any moment. The contract of
ComplianceHooks is one deployment watched from its birth, `"here"`; every other
contract a record may name, or a deploy may mint, is `"elsewhere"`, where calls
have any outcome and leave no trace. `save` truncates the file and then writes
it, so a record can be torn (`None`), and every later command fails on it.
`drifted` (the contract was changed other than as recorded) and `applied` (the
command whose work was applied while its answer was lost) are histories.

**VerifyCLI** is `verify`, a read per step, with everybody else's transactions
between the reads (`Administers`). A read answers or faults; what the CLI makes
of a simulated hook is `GateOutcome`, which takes the reason from the code in
the error printed. `Claim` says for each check what it claims, of the contract
at one moment.

**DocClaims**, **VerifyClaims** and `TrafficKeepsFlagsAlive` in
**MCEntryLifetime** hold statements of docs and comments that the code
contradicts.

## 3. The runs

| Run | Question | Bounds | Distinct states |
|---|---|---|---|
| `contract` | is the contract in order, and the ledger it promises to be, after any sequence of administrative calls and hooks? | 2 signers, 2 tokens, 1 account, 1 policy, 1 SAC, `MaxU32` = 2 | 29,000 |
| `evaluation` | does the loop decide as it should, and call only what it must? | 2 accounts, 1 policy, 1 SAC; every operation, binding, freeze and answer | 290,000 |
| `token_ledger` | can funds of an account that is not cleared move? | 1 token, 2 accounts with 1 unit each, `MaxU32` = 2 | 480,000 |
| `entry_lifetime` | which entries does the traffic keep alive? | 1 token, 2 accounts, `Threshold` 2, `ExtendTo` 3, `MinTtl` 4 | 28,000 |
| `audit_trail` | what does a bridge know that lags and misses events? | 1 token, 1 account, 3 events under way, `MaxU32` = 3 | 2,600,000 |
| `deploy` | does the record say what is so, however a deployment ends, and what becomes of a torn record and of a contract nobody recorded? | 2 signers, 2 tokens, no account, records that list both tokens or one of them twice, 1 other transaction, `MaxU32` = 2 | 1,500,000 |
| `operate` | can a command whose answer was lost be repeated, and which commands cost a token its SAC? | 2 signers, 1 token, 1 account, every command and every source, `MaxU32` = 2 | 450,000 |
| `commands_end` | does every command come to its end? | 1 signer, 1 token | 250,000 |
| `verify` | what is a verdict of `verify` worth? | 2 records, 2 policies, tokens and accounts of the record and another, 1 change while it runs, `MaxU32` = 1 | 1,700,000 |
| `claim_...` | three statements of docs and comments | violated, see below | |

Why these bounds are enough to show something. Two signers are an admin and
somebody else; two tokens show that one token's calls leave the other alone and
that unbinding and rebinding interleave. One account per token suffices in
`contract` because a freeze entry is written for its own pair only. The counter
bound `MaxU32` stands for 2^32 - 1 and is reached, so the trap is taken. Two
accounts in an evaluation give every pattern of equal and different parties but
three different ones, and parties are screened independently of each other; an
answer that nobody asks for is not varied there. One policy and one SAC, each
present or absent, are all the configurations there are up to renaming. In
`entry_lifetime` the three constants keep the order of the real ones and leave
room on either side of the threshold. In `deploy` a record lists two tokens, so
that a deployment can end between two bindings, or one token twice with
different SACs, where the binding of either entry agrees with the record; in
`operate` a token can be meant by its alias, by its address, or by a text that
is neither. In `verify` the record is either filled in or an example record
with a placeholder, the tokens include the recorded admin's address, which the
fail-closed probe takes for a token, and a version that reaches 1 is all a
check looks at. Views leave out what no action reads (`tx`, `exit`, histories
that no property of the run mentions). Symmetry is used over sets no definition
names, and never in the run of a liveness property.

Evaluations end, and so does `verify` once the bound on other transactions is
reached, so `evaluation` and `verify` allow deadlock; everywhere else some step
is always possible and deadlock is checked.

Fairness. Only `EveryCommandEnds` assumes any: weak fairness of the command that
is running (`CommandStep`), since the operating system runs a process it has
started, and the `stellar` process that it waits for returns. Nobody has to
start a command, send a transaction or restore an entry, and no fairness is
assumed of the contract: nobody has to call it. That an evaluation ends is no
property here: it is a `for` over at most three parties.

### What the properties say

* `LifecycleOrder`: no configuration or binding without an admin, no freeze
  without a configuration, a version exactly when there is a configuration,
  and a stamp from initialization on unless the contract was upgraded.
* `EventsTellAll`: applying each transaction's event to a view of the contract
  gives the contract's own admin, configuration, version, scope and freezes.
  It fails if a change is not published, if an event says more than happened,
  or if a call touches an entry it does not announce.
* `NoSpuriousEvent`: repeating a call publishes nothing the second time.
* `RewriteStampsLayout`: the layout is stamped by every real change of the
  configuration, and a stamp is never lost.
* `ImplementsLedger`: the refinement above.
* `LoopMatchesEvaluate`, `OracleParity`: the loop decides as `Evaluate` and, if
  the external contracts answer by account and are up, as the `predict` oracle
  of the test suites (which screens a withdrawal once).
* `AllowIsEarned`, `DenialIsCheap`: an Allow means every applicable gate was
  asked, once and in order, and said yes; a denial stopped at the first no.
* `OnlyClearedFundsMove`: whatever operation is tried, by whom and in whatever
  role, and however administration, policy and issuer interleave, a step
  changes an account's holdings on a token only if the account is cleared
  there when the step is taken.
* `ReadEntriesStayLive`: an entry that a committed transaction reads at least
  once in every `Threshold` ledgers is never archived.
* `HooksRenewNoFlag`: no hook, allowed or refused, ever renews a freeze flag:
  the hook that reads one is refused by it and takes its renewal back.
* `CaughtUpIsRight`: a bridge that saw every event believes what is on the
  ledger, however long it lagged.
* `VersionShowsGaps`: as long as the bridge counted as many configuration
  events as `config_version()` says, it believes in the configuration in force
  and missed no change of it; once everything under way has arrived, a
  difference is a change it missed. Missed bindings and freezes nothing shows.
* `RecordAgrees`: a record that names the contract describes it (admin,
  configuration, every listed token bound with a SAC it is listed with) until
  somebody asks for something other than what is recorded.
* `RecordedContractIsOurs`: even with others racing the deployment, a record
  never comes to name a contract with another admin or one never configured.
* `ScopeAfterConfiguration`, `DeployIsNotRefused`: a deployment cut off anywhere
  leaves no token in scope before its configuration is in force; the fresh
  contract refuses none of deploy's calls, unless somebody else got at it or
  the source is not the recorded admin's.
* `TornRecordIsInert`: with a torn record no command of the operator's starts, so
  none changes the contract or reports success, whatever is typed on the
  command line; only the write the file was emptied for mends it. A file that a
  dead process left torn stays so until somebody restores it by hand.
* `OrphanIsOutOfReach`: a contract whose deployment stopped before it was recorded
  is never named by a record and never reached by a command again, whatever is
  deployed later and whatever strangers do with it; one that stopped because its
  policy could not be found or minted, which is tried only after the contract
  is, has no admin, configuration or binding, unless somebody else put them
  there.
* `SacLostByAddressOnly`: the operator's commands take a token's SAC away, and with
  it the SAC gate, in two ways: a bind by the token's address that names none,
  and a bind, by alias or by a deployment, where the record lists the token
  without one. Unlike `RecordAgrees` it says so of every bind, whether or not the
  contract had drifted before.
* `RepeatIsAccepted`: a command that was applied while its answer was lost can
  be repeated; only `init`, which runs once, and `deploy` are exceptions.
* `EveryCommandEnds`: whatever it goes through, a command ends.
* `PassIsEarned`, `FailureIsReal`: on a contract that nobody changes meanwhile, a
  pass is right on every count whichever reads failed on the way, and, with all
  reads answered, the checks reported as failed are exactly those that do not
  hold. They are about failing reads, and say nothing when the contract changes
  between two reads.
* `PassLasts`: what a pass says of the admin, the configuration and the versions
  holds for good, although the contract may change between the reads and after
  them: those parts of the contract only move one way. This is all that a pass is
  worth beside an administrator at work; a token that was found bound may be
  unbound by then.

Each has a mutant in `PROJECT.json`: a plausible slip in the code that makes
it fail.

### What docs and comments say and the code does not do

Three statements are checked and refuted by a run:

1. `claim_stamp_healing`. `docs/storage.md:28-30`: "the first admin-gated
   `set_config` after the upgrade stamps the layout". One that writes the
   configuration already there returns early (`lib.rs:177`) and stamps nothing.
2. `claim_recorded_policy`. `docs/deployment.md:176-178`: "the live `policy`
   equals the config's recorded policy, catching a reconfiguration that never
   made it back into the deployment record". `cli/src/main.rs:690` compares only
   when both sides have one, so a policy gate that was removed passes.
3. `claim_traffic_renews`. `storage/src/lib.rs:62-64`: entries such as freeze
   flags "are kept alive by the traffic that touches them", and
   `docs/storage.md:52-53`: "an actively-used flag never silently expires". The
   hook that reads a flag is denied, and its renewal rolled back with it.

Others were met while modelling; the modules follow the code:

* `storage/src/config.rs:8` calls an unconfigured contract's hooks "a silent
  no-op"; `evaluator.rs:41` fails them with `InvalidConfiguration`.
* `docs/storage.md:57` has administrative entry points fail while there is no
  configuration; `bind_token` and `unbind_token` (`lib.rs:190`) work as soon as
  there is an admin.
* `docs/delegated-transfers.md:24` has a blocked spender denied with
  `PolicyDenied`; `evaluator.rs:99` says `SpenderNotAuthorized`.
* `cli/src/main.rs:79` binds a token "with its underlying SAC when it has one",
  by alias or address; `config.rs:106` finds the SAC by alias only, and a token
  bound by its address loses it.
* `docs/cli.md:65` has an unknown alias fail "before any ledger round-trip";
  `show` looks it up after its first reads (`main.rs:429`).
* `cli/src/config.rs:13` has a deployment "stay recorded"; `config.rs:80`
  rewrites the file in place, and a process that dies between the truncation
  and the write leaves one that does not parse.

## 4. The proofs

The theorems hold for all sets of signers, tokens, accounts, policies and SACs,
and for any value of the numeric constants allowed by the assumptions:
`NoneAssumption` (`None` is none of the other values), `MaxU32Assumption` (the
counter has room for one change), `SupplyAssumption`, `LifetimeAssumption` (the
threshold lies below the extension, as in the code, and below the host's
minimum), `TextsAssumption`, `CLIAssumption` (a record is well formed and does
not name the watched contract before it exists), `NoneIsNothing` (`None` is no
record, command, place, flag or lost run either), `VerifyAssumption`,
`AuditAssumption` (the wire has room for an event).

Every invariant and every action property that a passing run checks is also a
theorem.

* **ComplianceProofs.** `EvaluateDecides`: an evaluation ends in a decision
  and allows exactly when the contract is configured, the token bound and every
  party let through; `ScreenPartyAllows` says what letting through means. The
  first denial of a list is worked out for one, two and three parties, which is
  what operations have (`PartiesCount`).
* **EvaluatorProofs.** `LoopInv` says what the loop has established: every party
  before the current one was let through, and so was this one by the gates
  before the current one; at the end the decision is `Evaluate`'s. From it
  `LoopComputesEvaluate` (`LoopMatchesEvaluate`), and with
  `WithdrawalScreensAlike` (asking about one account twice changes nothing if
  the answers are the same) `OracleIsRight` (`OracleParity`). `AllowIsEarned` and
  `DenialIsCheap` speak of the end only; `CallsInv` says of every moment that the
  calls made, followed by those the current party and the ones after it call
  for, are the full screening, and that all answered so far were a yes. Hence
  `AllowsAreEarned` and `DenialsAreCheap`.
* **ComplianceHooksProofs.** `StepHasEffect` reduces every transaction to one
  of seven effects (`Quiet`, or one per way of committing); the hooks are
  `Quiet` by `EvaluateDecides`. Each theorem then goes by effects. `TypeOK` is
  inductive by itself (`TypeCorrect`). `LifecycleOrder` is inductive given
  `TypeOK` (`Lifecycle`): the version must be a natural number for its
  increment not to be 0, and a binding a function for an unbound token to read
  as absent. From the two follow `EventsAreComplete`, `RepeatsAreSilent`,
  `RewritesHealTheStamp` and `Refinement`, whose initial condition is
  `LifecycleOrder` read through the refinement mapping.
* **TokenLedgerProofs.** `HookClears`: if a hook allows, every fund-holding
  party is cleared. `GuardedChange`: an operation that touches only
  fund-holding parties, applied only if its hook allows, moves cleared holdings
  only. Each of the six operations is shown to be one. `LedgerTypeCorrect`
  (no balance is overdrawn) and `Enforcement`, the theorem
  `LedgerSpec => OnlyClearedFundsMove`, follow.
* **EntryLifetimeProofs.** `ReadEntriesStayLive` is not inductive: it does not
  say how much life an entry has left. `EarnsItsLife` does (an entry idle for
  no more than `Threshold` ledgers has at least the rest of them to live), and
  with `LifetimeTypeOK` it is (`LifetimeInv`); `LifetimeTypeCorrect` and
  `ReadingKeepsAlive` follow. `HooksRenewNothingFrozen` rests on
  `AllowedHoldersAreFree`: the only flags an allowed hook reads are absent.
* **OperatorCLIProofs.** `CliInv` is the type invariant with what each stage has
  in hand; every command is first brought to the form of a single call or of no
  call, so that the steps of the contract are cited, not opened.
  `CliTypeCorrect` follows, and `RecordedIsOurs` from `OursInv`: past
  `initialize` the target has the recorded admin, past `set_config` a
  configuration, and neither can be undone by anybody. `LeastNatural` (every
  nonempty set of naturals has a least one) gives the first token of a name.
  `RecordInv` ties a running command to the record it loaded, and says that a
  contract being deployed is not yet the one on record. `AgreesInv` is
  `RecordAgrees` with what a deployment has done by each stage: past `set_config`
  the configuration is the one it will record, and the first `done` listed
  tokens are bound as listed; hence `RecordsAgree` and
  `ScopeFollowsConfiguration`. `FreshInv` says what an undisturbed deployment
  finds before each call, hence `DeploysAreNotRefused`. `RepeatInv` says what a
  command whose answer was lost has left in storage (`WorkDone`) as long as
  nobody else moves; each entry point accepts a call that finds its work done,
  hence `RepeatsAreAccepted`. `WhatChanges` tells who can change the contract: an
  accepted call of a command whose loaded record is the one on disk (`Reaching`),
  or somebody else. A torn record rules out the first, and so does one that does
  not name the contract, outside of its deployment. Hence `TornRecordsAreInert`,
  with `TornInv` for how the last command ended, and `OrphansStayOut`, with
  `FreshInv` and `LifecycleOrder` for what is on a contract that was only minted.
  `SacsAreKept` goes over the calls that can be behind a change: only a bind
  writes a binding, and by alias it takes the SAC listed (`ListedSac`).
* **VerifyCLIProofs.** `LastingInv`: past the read of an admin, a configuration
  or a version, either the check failed or what it read is so, and stays so
  (`AdministrationIsSteady`). Hence `PassingLasts`. `JudgedInv`: as long as nothing
  changed, the checks failed so far are the claims among those read so far that
  do not hold, and a read that faulted left a failure behind. Hence
  `FailuresAreReal` and `PassesAreEarned`; `VerifyTypeCorrect` is the types.

* **AuditTrailProofs.** `TrailInv` has three parts. `CountInv`: what the bridge
  counted and the configuration events on the wire add up to
  `config_version()`, and fall short of it exactly if one was missed. It rests
  on `MarksMoveUp`: taking one event off the wire, delivered or missed, takes
  one off the count if it was counted and moves the others up. `ConfigInv`: if no
  change was missed, the last one on the wire, or else the bridge, has the
  configuration in force. `PathInv`: if nothing was missed there is a sequence of
  views, one per event on the wire, that leads from the bridge's view to the
  contract's. It asks for a sequence where a fold over the wire would say the
  same, because what a fold computes takes an induction to unfold, while a
  sequence of views gives up its head or gains an end in one step. Hence
  `EvidenceIsComplete` and `GapsShow`; `TrailTypeCorrect` needs `CountInv` too,
  for the bridge's count to stay within the width of the version.

The composed systems only ever let the contract do what it does alone:
`TokensOnlyCallHooks`, `AgeingOnlyRefuses`, `BridgeOnlyFollows`, `CommandsOnlyCall`
and `VerifyOnlyReads` prove `LedgerSpec`, `LifetimeSpec`, `AuditSpec`, `CliSpec`
and `VerifySpec` to imply the contract's `Spec`, so that its lifecycle, its events
and the refinement of the ledger hold in all of them. The tokens and the
lifetimes answer a hook more freely than `HookNext`, which leaves out answers no
configured gate asks for; `UnaskedAnswers` shows that those change no decision.

Model-checked only: the liveness property `EveryCommandEnds`. That something
happens in the end rests on fairness and on steps being possible, which the
prover cannot reason about. The half of it that is safety is proved:
`CommandsRunDown` gives a command a number of steps left (`StepsLeft`, at most
two for every listed token and nine besides) which each of its own steps lowers
and nobody else's changes. What is left to TLC is that a command that is not at
its end can always take a step. The runs that refute a statement of the docs
stay with TLC as well.

## 5. What is not modelled, and the plan

Left to the proofs:

1. That an unfinished command is never stuck, as an invariant: the guard of some
   step of it holds. With `CommandsRunDown` that is all of `EveryCommandEnds` but
   the fairness.
2. That `EnforcementLedger` by itself keeps what `LifecycleOrder` says of the
   contract, so that the abstract specification can be read without the
   detailed one.

Not modelled:

* That an operator notices what is not on record: an orphan contract costs its
  deployment and nothing tells him its name but the output of the command that
  failed. `OrphanIsOutOfReach` says what it cannot do, no more.
* Two CLI processes on one record file: no code locks it, and no doc promises
  that they may run at once. Hand edits of the record while a command runs.
* The CLI's `errors` (an offline listing), its reports and their wording, the
  name and endpoint of the network.
* The lifetime of the contract instance, which is the host's alone.
* Events out of order: the ledger orders them, and a bridge reads them by
  ledger.
* Names, `Display` and JSON forms (formatting); the read-only views of the
  contract, but for those `show` and `verify` read (they return the variables).
* Gas, the scripts, CI, schemas, fixtures and examples, which keep no state.

External, and modelled from how the code uses them: the tokens, the policy and
the SAC; the host's archival of entries; the audit bridge; the ledger under
the `stellar` CLI.
