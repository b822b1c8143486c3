---------------------------- MODULE OperatorCLI ----------------------------
(***************************************************************************)
(* The operator CLI (cli/src/main.rs) in front of the contract: an         *)
(* operator runs one command after another; each loads the deployment      *)
(* record, sends its transactions one by one and, for deploy --save,       *)
(* rewrites the record.  A transaction may fail before it reaches the      *)
(* ledger, be refused, or be applied while its answer is lost; the         *)
(* process may be killed between any two steps; others transact meanwhile. *)
(*                                                                         *)
(* The contract of ComplianceHooks is one deployment, watched from its     *)
(* birth: "here".  Every other contract a record may name or a deploy may  *)
(* mint is "elsewhere", where calls have any outcome and leave no trace.   *)
(***************************************************************************)
EXTENDS ComplianceHooks, DeploymentRecord

CONSTANTS
  InitialRecords,   \* the records an operator may start from
  AdminSecret,      \* who the secret in the operator's environment signs for
  MaxOthers         \* bound on the transactions of anybody else

Places == {"here", "elsewhere"}

OurRecords == Records(Places, Signers, Policies, Sacs, Tokens)

ASSUME CLIAssumption ==
  /\ Tokens \subseteq AddressLike
  /\ InitialRecords \subseteq {r \in OurRecords : r.hooks = "elsewhere"}
  /\ AdminSecret \in Signers \cup {None}
  /\ MaxOthers \in Nat

Option(S) == S \cup {None}

ValueOr(option, default) == IF option = None THEN default ELSE option

\* The command line: every subcommand with its options and the combinations
\* of them that clap lets through.
Commands ==
       [fn : {"init"}]
  \cup {c \in [fn : {"configure"}, policy : Option(Policies), noPolicy : BOOLEAN,
               sac : Option(BOOLEAN)] :
          c.policy # None => ~ c.noPolicy}
  \cup [fn : {"bind"}, token : Texts, sac : Option(Sacs)]
  \cup [fn : {"unbind"}, token : Texts]
  \cup [fn : {"freeze", "unfreeze"}, token : Texts, account : Accounts]
  \cup {c \in [fn : {"deploy"}, samplePolicy : BOOLEAN, policyId : Option(Policies),
               noPolicy : BOOLEAN, sac : Option(BOOLEAN), save : BOOLEAN] :
          /\ c.policyId # None => ~ c.samplePolicy /\ ~ c.noPolicy
          /\ c.noPolicy => ~ c.samplePolicy}
  \cup {c \in [fn : {"show"}, token : Option(Texts), account : Option(Accounts)] :
          c.account # None => c.token # None}

\* None is no record, no command line, run or not, no flag and no place.
ASSUME NoneIsNothing ==
  None \notin OurRecords \cup Commands \cup (Commands \X Signers) \cup BOOLEAN \cup Places

VARIABLES
  record,     \* the record's file, or None when it does not parse
  exists,     \* whether the watched contract has been deployed
  pc,         \* what the running command does next, "idle" between commands
  command,    \* the running command, or None
  conf,       \* the record as the command loaded it
  source,     \* who signs, or None when there is no source
  target,     \* deploy: where the fresh contract is
  policy,     \* deploy: the policy it was given
  done,       \* deploy: tokens bound so far; show: reads made so far
  exit,       \* how the last command ended
  drifted,    \* history: the contract was changed other than as recorded
  applied,    \* history: the command whose work was applied and its answer lost
  others      \* history: the number of transactions of anybody else

job == <<command, conf, source, target, policy, done>>

cliVars == <<record, exists, pc, job, exit, drifted, applied, others>>

Exits == {"none", "ok", "failed", "rejected", "unknown", "killed"}

CliTypeOK ==
  /\ TypeOK
  /\ record \in Option(OurRecords)
  /\ exists \in BOOLEAN
  /\ pc \in {"idle", "network", "source", "init", "configure", "bind", "unbind",
             "freeze", "unfreeze", "deploy", "show", "policy", "initialize",
             "set_config", "bind_token", "truncate", "write"}
  /\ command \in Option(Commands)
  /\ conf \in Option(OurRecords)
  /\ source \in Option(Signers)
  /\ target \in Option(Places)
  /\ policy \in Option(Policies)
  /\ done \in Nat
  /\ exit \in Exits
  /\ drifted \in BOOLEAN
  /\ applied \in Option(Commands \X Signers)
  /\ others \in 0 .. MaxOthers
  /\ pc # "idle" => command # None /\ conf # None
  /\ pc \notin {"idle", "network", "source"} => source # None

-----------------------------------------------------------------------------
(* One command from its start to its exit. *)

Ends(how) ==
  /\ pc' = "idle"
  /\ exit' = how
  /\ command' = None /\ conf' = None /\ source' = None
  /\ target' = None /\ policy' = None /\ done' = 0

Goes(to) ==
  /\ pc' = to
  /\ UNCHANGED <<job, exit>>

\* Mutant: a record that cannot be read is replaced by an example one.
Start_Defaults(cmd, explicit) ==
  /\ pc = "idle"
  /\ pc' = "network"
  /\ command' = cmd
  /\ conf' \in IF record = None THEN InitialRecords ELSE {record}
  /\ source' = AdminSource(conf', explicit, AdminSecret)
  /\ applied' = IF applied = <<cmd, source'>> THEN applied ELSE None
  /\ UNCHANGED <<vars, record, exists, target, policy, done, exit, others>>

\* The record is read and parsed before anything else.
Start(cmd, explicit) ==
  /\ pc = "idle"
  /\ record # None
  /\ pc' = "network"
  /\ command' = cmd
  /\ conf' = record
  /\ source' = AdminSource(record, explicit, AdminSecret)
  /\ applied' = IF applied = <<cmd, source'>> THEN applied ELSE None
  /\ UNCHANGED <<vars, record, exists, target, policy, done, exit, others>>

\* A torn record fails every command.
StartUnreadable ==
  /\ pc = "idle"
  /\ record = None
  /\ exit' = "failed"
  /\ UNCHANGED <<vars, record, exists, pc, job, applied, others>>

\* The network is listed and, if missing, added; either may fail.
EnsureNetwork ==
  /\ pc = "network"
  /\ Goes("source") \/ Ends("failed")
  /\ UNCHANGED <<vars, record, exists, applied, others>>

\* Mutant: a missing source is left for the stellar CLI to complain about.
TakeSource_Unchecked ==
  /\ pc = "source"
  /\ Goes(command.fn)
  /\ UNCHANGED <<vars, record, exists, applied, others>>

\* Without a source there is nothing to sign with.
TakeSource ==
  /\ pc = "source"
  /\ IF source = None THEN Ends("failed") ELSE Goes(command.fn)
  /\ UNCHANGED <<vars, record, exists, applied, others>>

\* The transaction reached the ledger, was applied, and the answer came back.
Applied(where, A) ==
  IF where = "here" THEN A /\ tx'.result = Allow /\ UNCHANGED upgraded
                    ELSE UNCHANGED vars

\* The contract reverted: the simulation reports its error.
Reverted(where, A) ==
  IF where = "here" THEN A /\ tx'.result # Allow /\ UNCHANGED upgraded
                    ELSE UNCHANGED vars

\* One run of `stellar contract invoke' that is not answered with an Ok.
InvokeFails(where, A) ==
  \/ Reverted(where, A) /\ Ends("rejected") /\ UNCHANGED applied
  \/ Applied(where, A) /\ Ends("unknown") /\ applied' = <<command, source>>
  \/ UNCHANGED vars /\ Ends("unknown") /\ UNCHANGED applied

\* The last call of a command: its outcome is the command's.
InvokeAndEnd(where, A) ==
  /\ \/ Applied(where, A) /\ Ends("ok") /\ UNCHANGED applied
     \/ InvokeFails(where, A)
  /\ UNCHANGED <<record, exists, others>>

\* A call in the middle: the command goes on only after an Ok.
InvokeAndGo(where, A, to, doneNext) ==
  /\ \/ /\ Applied(where, A)
        /\ pc' = to
        /\ done' = doneNext
        /\ UNCHANGED <<applied, command, conf, source, target, policy, exit>>
     \/ InvokeFails(where, A)
  /\ UNCHANGED <<record, exists, others>>

-----------------------------------------------------------------------------
(* The commands of one transaction. *)

InitCommand ==
  /\ pc = "init"
  /\ InvokeAndEnd(conf.hooks, Initialize(source, conf.admin))

\* --no-policy, else --policy, else the policy on record.
ConfiguredPolicy ==
  IF command.noPolicy THEN None ELSE ValueOr(command.policy, conf.policy)

ConfigureCommand ==
  /\ pc = "configure"
  /\ InvokeAndEnd(conf.hooks,
       SetConfig(source, ConfiguredPolicy, ValueOr(command.sac, conf.sacPassthrough)))

\* The address a command means by its --token.
TokenMeant == ResolveToken(conf, command.token)

\* An unknown alias ends the command, and so does a text that only looks like
\* an address, which the stellar CLI cannot parse.
UnknownToken ==
  /\ TokenMeant \notin Tokens
  /\ Ends("failed")
  /\ UNCHANGED <<vars, record, exists, applied, others>>

BindCommand ==
  /\ pc = "bind"
  /\ \/ UnknownToken
     \/ /\ TokenMeant \in Tokens
        /\ InvokeAndEnd(conf.hooks,
             BindToken(source, TokenMeant,
                       ValueOr(command.sac, SacFor(conf, command.token))))

UnbindCommand ==
  /\ pc = "unbind"
  /\ \/ UnknownToken
     \/ /\ TokenMeant \in Tokens
        /\ InvokeAndEnd(conf.hooks, UnbindToken(source, TokenMeant))

FreezeCommand ==
  /\ pc = "freeze"
  /\ \/ UnknownToken
     \/ /\ TokenMeant \in Tokens
        /\ InvokeAndEnd(conf.hooks, Freeze(source, TokenMeant, command.account))

UnfreezeCommand ==
  /\ pc = "unfreeze"
  /\ \/ UnknownToken
     \/ /\ TokenMeant \in Tokens
        /\ InvokeAndEnd(conf.hooks, Unfreeze(source, TokenMeant, command.account))

-----------------------------------------------------------------------------
(* Show: four reads of the contract, then the tokens asked for. *)

Targets ==
  IF command.token = None THEN Len(conf.tokens) ELSE 1

\* A read per token, and one more for the account's freeze flag.
ShowReads == 4 + Targets * (IF command.account = None THEN 1 ELSE 2)

Read ==
  /\ \/ /\ pc' = pc /\ done' = done + 1
        /\ UNCHANGED <<command, conf, source, target, policy, exit>>
     \/ Ends("unknown")
  /\ UNCHANGED <<vars, record, exists, applied, others>>

\* The token is looked up after the first four reads.
ShowCommand ==
  /\ pc = "show"
  /\ \/ done < 4 /\ Read
     \/ done >= 4 /\ command.token # None /\ UnknownToken
     \/ /\ done \in 4 .. ShowReads - 1
        /\ command.token # None => TokenMeant \in Tokens
        /\ Read
     \/ /\ done = ShowReads
        /\ Ends("ok")
        /\ UNCHANGED <<vars, record, exists, applied, others>>

-----------------------------------------------------------------------------
(* Deploy: mint, resolve the policy, initialize, configure, bind, save. *)

\* The contract may be minted and its answer lost or not parsed.
Mints(where) ==
  /\ where = "here" => ~ exists
  /\ exists' = (exists \/ where = "here")
  /\ \/ Ends("unknown")
     \/ /\ pc' = "policy"
        /\ target' = where
        /\ UNCHANGED <<command, conf, source, policy, done, exit>>

\* Mutant: the fresh contract is recorded as soon as it is minted.
DeployHooks_RecordsAtOnce ==
  /\ pc = "deploy"
  /\ \/ \E where \in Places :
          /\ Mints(where)
          /\ record' = IF command.save /\ target' = where
                       THEN [conf EXCEPT !.hooks = where] ELSE record
     \/ UNCHANGED <<exists, record>> /\ (Ends("failed") \/ Ends("unknown"))
  /\ UNCHANGED <<vars, applied, others>>

DeployHooks ==
  /\ pc = "deploy"
  /\ \/ \E where \in Places : Mints(where)
     \/ UNCHANGED exists /\ (Ends("failed") \/ Ends("unknown"))
  /\ UNCHANGED <<vars, record, applied, others>>

\* --no-policy, --policy-id, a freshly minted sample policy, the one on record.
ResolvedPolicies ==
  CASE command.noPolicy         -> {None}
    [] command.policyId # None  -> {command.policyId}
    [] command.samplePolicy     -> Policies
    [] OTHER                    -> {conf.policy}

\* Mutant: initialization is left to a later init.
ResolvePolicy_NoInitialize ==
  /\ pc = "policy"
  /\ policy' \in ResolvedPolicies
  /\ pc' = "set_config"
  /\ UNCHANGED <<command, conf, source, target, done, exit>>
  /\ UNCHANGED <<vars, record, exists, applied, others>>

\* The sample's wasm is looked for, and the sample minted, after the hooks.
ResolvePolicy ==
  /\ pc = "policy"
  /\ \/ /\ policy' \in ResolvedPolicies
        /\ pc' = "initialize"
        /\ UNCHANGED <<command, conf, source, target, done, exit>>
     \/ command.samplePolicy /\ (Ends("failed") \/ Ends("unknown"))
  /\ UNCHANGED <<vars, record, exists, applied, others>>

\* Mutant: a contract that is initialized already is good enough.
InitializeFresh_RefusalIgnored ==
  /\ pc = "initialize"
  /\ \/ InvokeAndGo(target, Initialize(source, conf.admin), "set_config", done)
     \/ /\ Reverted(target, Initialize(source, conf.admin))
        /\ Goes("set_config")
        /\ UNCHANGED <<record, exists, applied, others>>

InitializeFresh ==
  /\ pc = "initialize"
  /\ InvokeAndGo(target, Initialize(source, conf.admin), "set_config", done)

DeployedPassthrough == ValueOr(command.sac, conf.sacPassthrough)

\* Mutant: a set_config that did not go through does not stop the deployment.
ConfigureFresh_FailureIgnored ==
  /\ pc = "set_config"
  /\ \/ InvokeAndGo(target, SetConfig(source, policy, DeployedPassthrough),
                    "bind_token", done)
     \/ /\ Goes("bind_token")
        /\ UNCHANGED <<vars, record, exists, applied, others>>

ConfigureFresh ==
  /\ pc = "set_config"
  /\ InvokeAndGo(target, SetConfig(source, policy, DeployedPassthrough),
                 "bind_token", done)

\* Mutant: a binding that fails is tried again, from the configuration on.
BindListed_Retries ==
  /\ pc = "bind_token"
  /\ done < Len(conf.tokens)
  /\ LET token == conf.tokens[done + 1]
     IN  \/ InvokeAndGo(target, BindToken(source, token.id, token.sac),
                        "bind_token", done + 1)
         \/ Goes("set_config") /\ UNCHANGED <<vars, record, exists, applied, others>>

\* The tokens on record are bound in the order listed.
BindListed ==
  /\ pc = "bind_token"
  /\ done < Len(conf.tokens)
  /\ LET token == conf.tokens[done + 1]
     IN  InvokeAndGo(target, BindToken(source, token.id, token.sac),
                     "bind_token", done + 1)

\* Everything is on the ledger; only --save goes on to the record.
FinishDeploy ==
  /\ pc = "bind_token"
  /\ done = Len(conf.tokens)
  /\ IF command.save THEN Goes("truncate") ELSE Ends("ok")
  /\ UNCHANGED <<vars, record, exists, applied, others>>

\* The file is opened, and emptied, and then written.
TruncateRecord ==
  /\ pc = "truncate"
  /\ \/ record' = None /\ Goes("write")
     \/ record' = record /\ Ends("failed")
  /\ UNCHANGED <<vars, exists, applied, others>>

\* Mutant: the SAC flag given on the command line is not recorded.
UpdatedRecord_OldPassthrough ==
  [conf EXCEPT !.hooks = target, !.policy = policy]

UpdatedRecord ==
  [conf EXCEPT !.hooks = target, !.policy = policy,
               !.sacPassthrough = DeployedPassthrough]

WriteRecord ==
  /\ pc = "write"
  /\ \/ record' = UpdatedRecord /\ Ends("ok")
     \/ record' = record /\ Ends("failed")
  /\ UNCHANGED <<vars, exists, applied, others>>

-----------------------------------------------------------------------------
(* The processes. *)

\* A command asks for what the record says, and not for something else.
FollowsRecord ==
  CASE pc = "configure" ->
         command.policy = None /\ ~ command.noPolicy /\ command.sac = None
    [] pc = "bind"      -> command.sac = None /\ Named(conf, command.token) # {}
    [] pc = "unbind"    -> FALSE
    [] OTHER            -> TRUE

OneCallStep ==
  InitCommand \/ ConfigureCommand \/ BindCommand \/ UnbindCommand
    \/ FreezeCommand \/ UnfreezeCommand

DeployStep ==
  DeployHooks \/ ResolvePolicy \/ InitializeFresh \/ ConfigureFresh
    \/ BindListed \/ FinishDeploy \/ TruncateRecord \/ WriteRecord

CommandStep ==
  /\ EnsureNetwork \/ TakeSource \/ OneCallStep \/ ShowCommand \/ DeployStep
  /\ drifted' = (drifted \/ (store' # store /\ ~ FollowsRecord))

OperatorStep ==
  /\ \/ StartUnreadable
     \/ \E cmd \in Commands, explicit \in Option(Signers) : Start(cmd, explicit)
  /\ UNCHANGED drifted

\* The process dies where it stands; the file stays as it was left.
Kill ==
  /\ pc # "idle"
  /\ Ends("killed")
  /\ UNCHANGED <<vars, record, exists, drifted, applied, others>>

\* Anybody's transaction on the contract, at any moment.
OtherStep ==
  /\ exists
  /\ others < MaxOthers
  /\ AdminNext
  /\ others' = others + 1
  /\ drifted' = (drifted \/ store' # store)
  /\ applied' = None
  /\ UNCHANGED <<upgraded, record, exists, pc, job, exit>>

CliInit ==
  /\ InitFresh /\ stateVersion = 0 /\ tx = NoTx
  /\ record \in InitialRecords
  /\ exists = FALSE
  /\ pc = "idle" /\ exit = "none"
  /\ command = None /\ conf = None /\ source = None
  /\ target = None /\ policy = None /\ done = 0
  /\ drifted = FALSE /\ applied = None /\ others = 0

CliNext == CommandStep \/ OperatorStep \/ Kill \/ OtherStep

CliSpec == CliInit /\ [][CliNext]_<<vars, cliVars>>

\* The operating system runs a process it has started: a command that can take
\* a step takes one.  Nobody has to start one.
FairCliSpec == CliSpec /\ WF_<<vars, cliVars>>(CommandStep)

-----------------------------------------------------------------------------
(* Properties. *)

\* The bindings a record lists for a token: one, unless it lists it twice.
Listings(r, token) ==
  {[sac |-> r.tokens[i].sac] : i \in {j \in DOMAIN r.tokens : r.tokens[j].id = token}}

\* The admin, the configuration and every listed token are as the record says.
Describes(r) ==
  /\ admin = r.admin
  /\ config = [policy |-> r.policy, sacPassthrough |-> r.sacPassthrough]
  /\ \A t \in Tokens : Listings(r, t) # {} => binding[t] \in Listings(r, t)

(***************************************************************************)
(* Whatever fails, is lost or is killed on the way, a record that names    *)
(* the contract describes it: deploy --save writes the record only after   *)
(* every transaction it stands for, and what it writes is what they did.   *)
(* Until somebody changes the contract other than as recorded, the admin,  *)
(* the configuration and every listed binding with its SAC agree; a token  *)
(* listed twice is bound in one of the ways listed.                        *)
(***************************************************************************)
RecordAgrees ==
  record # None /\ ~ drifted => (record.hooks = "here" => Describes(record))

(***************************************************************************)
(* Even with others racing the deployment, a record never comes to name a  *)
(* contract whose admin is not the recorded one, or one that was never     *)
(* configured, and it stays so whatever anybody does later.                *)
(***************************************************************************)
RecordedContractIsOurs ==
  record # None =>
    (record.hooks = "here" =>
       /\ admin = record.admin
       /\ config # None
       /\ stateVersion = LayoutVersion)

(***************************************************************************)
(* A deployment cut off anywhere leaves no token in scope before its       *)
(* configuration is in force: a contract nobody recorded cannot gate a     *)
(* token by a configuration nobody chose.                                  *)
(***************************************************************************)
ScopeAfterConfiguration ==
  ~ drifted => (config = None => \A t \in Tokens : ~ IsTokenBound(t))

(***************************************************************************)
(* A torn record stops the operator: until the write it was truncated for  *)
(* mends it, no command of his changes the contract, whatever he types on  *)
(* the command line, and no command ends by reporting success.             *)
(***************************************************************************)
TornRecordIsInert ==
  [][record = None =>
       /\ record' # None => pc = "write"
       /\ store' # store => others' # others
       /\ pc' = "idle" /\ record' = None => exit' # "ok"]_<<vars, cliVars>>

\* The watched contract exists, no deploy is at work on it, no record names it.
Orphan == exists /\ target # "here" /\ (record # None => record.hooks # "here")

\* Nothing was ever asked of the contract.
Bare ==
  /\ admin = None /\ config = None
  /\ \A t \in Tokens : ~ IsTokenBound(t)

(***************************************************************************)
(* An orphan stays one: a contract whose deploy stopped before it was      *)
(* recorded is never reached by a command again and never named by a       *)
(* record, whatever is deployed later and whatever strangers do with it.   *)
(* And one that stops for want of its policy, which is resolved only after *)
(* the contract is minted, leaves a contract of which nothing was asked.   *)
(***************************************************************************)
OrphanIsOutOfReach ==
  [][/\ Orphan => Orphan' /\ (store' # store => others' # others)
     /\ pc = "policy" /\ pc' = "idle" /\ target = "here" =>
          Orphan' /\ (others = 0 => Bare')]_<<vars, cliVars>>

(***************************************************************************)
(* A token loses its SAC, and with it the SAC gate, by a command of the    *)
(* operator only if he binds it by its address and names no SAC, or where  *)
(* the record itself lists it without one: a bind by alias finds the SAC   *)
(* on record, whatever happened to the contract before.                    *)
(***************************************************************************)
SacLostByAddressOnly ==
  [][\A t \in Tokens :
       binding[t] \in [sac : Sacs] /\ binding'[t] = [sac |-> None] /\ others' = others =>
         \/ command.fn = "bind" /\ command.sac = None /\ Named(conf, command.token) = {}
         \/ [sac |-> None] \in Listings(conf, t)]_<<vars, cliVars>>

\* A command ends because the contract refused a call.
IsRefused == pc # "idle" /\ pc' = "idle" /\ exit' = "rejected"

(***************************************************************************)
(* An operator who lost the answer of a command that was applied may just  *)
(* repeat it: unless somebody else acted in between, the contract accepts  *)
(* the repetition, but for init, which runs once.                          *)
(***************************************************************************)
RepeatIsAccepted ==
  [][IsRefused /\ conf.hooks = "here" /\ applied = <<command, source>>
       => command.fn \in {"init", "deploy"}]_<<vars, cliVars>>

(***************************************************************************)
(* Deploy runs the contract's one-way lifecycle in the right order: the    *)
(* fresh contract refuses none of its calls, unless somebody else got at   *)
(* it or the source is not the recorded admin's.                           *)
(***************************************************************************)
DeployIsNotRefused ==
  [][IsRefused /\ target = "here" /\ others = 0
       => source # conf.admin]_<<vars, cliVars>>

(***************************************************************************)
(* Every command ends, however many tokens it goes through.                *)
(***************************************************************************)
EveryCommandEnds == pc # "idle" ~> pc = "idle"
=============================================================================
