------------------------- MODULE OperatorCLIProofs --------------------------
(***************************************************************************)
(* Proofs about the operator CLI in front of the contract, for every set   *)
(* of records to start from, every command line, any number of listed      *)
(* tokens and any number of transactions of anybody else.                  *)
(***************************************************************************)
EXTENDS OperatorCLI, ComplianceHooksProofs, WellFoundedInduction

-----------------------------------------------------------------------------
(* The record and the command line. *)

Below == {ss \in Nat \X Nat : ss[1] < ss[2]}

\* Every set of natural numbers that is not empty has a least element.
LEMMA LeastNatural ==
  ASSUME NEW S, S \subseteq Nat, S # {}
  PROVE  \E x \in S : \A y \in S : x <= y
<1>1. IsWellFoundedOn(Below, Nat)
  BY NatLessThanWellFounded DEF OpToRel, Below
<1>2. PICK x \in S : \A y \in S : ~ (<<y, x>> \in Below)
  BY <1>1, WFMin
<1>3. \A y \in S : ~ y < x
  <2> TAKE y \in S
  <2>1. <<y, x>> \in Nat \X Nat /\ <<y, x>>[1] = y /\ <<y, x>>[2] = x
    OBVIOUS
  <2> QED  BY <1>2, <2>1 DEF Below
<1> QED  BY <1>3

\* The fields of a record.
LEMMA RecordFields ==
  ASSUME NEW r \in OurRecords
  PROVE  /\ r.hooks \in Places
         /\ r.policy \in Option(Policies)
         /\ r.sacPassthrough \in BOOLEAN
         /\ r.admin \in Signers
         /\ r.identity \in Option(Signers)
         /\ r.tokens \in Seq(ListedTokens(Tokens, Sacs))
  BY DEF OurRecords, Records, Option

\* A listed token has the fields of one.
LEMMA ListedFields ==
  ASSUME NEW r \in OurRecords, NEW i \in DOMAIN r.tokens
  PROVE  r.tokens[i].id \in Tokens /\ r.tokens[i].sac \in Option(Sacs)
<1>1. r.tokens \in Seq(ListedTokens(Tokens, Sacs))
  BY RecordFields
<1>2. r.tokens[i] \in ListedTokens(Tokens, Sacs)
  BY <1>1
<1> QED  BY <1>2 DEF ListedTokens, Option

\* A name that is listed names one of the tokens listed.
LEMMA NamedIsListed ==
  ASSUME NEW r \in OurRecords, NEW arg, Named(r, arg) # {}
  PROVE  \E i \in DOMAIN r.tokens : TokenNamed(r, arg) = r.tokens[i]
<1>1. r.tokens \in Seq(ListedTokens(Tokens, Sacs))
  BY RecordFields
<1>2. Named(r, arg) \subseteq DOMAIN r.tokens /\ DOMAIN r.tokens \subseteq Nat
  BY <1>1 DEF Named
<1>3. \E i \in Named(r, arg) : \A j \in Named(r, arg) : i <= j
  BY <1>2, LeastNatural
<1> HIDE DEF Named
<1> QED  BY <1>2, <1>3 DEF TokenNamed

\* The SAC looked up for a token is a SAC, or none.
LEMMA SacForIsSac ==
  ASSUME NEW r \in OurRecords, NEW arg
  PROVE  SacFor(r, arg) \in Option(Sacs)
<1>1. CASE Named(r, arg) = {}
  BY <1>1 DEF SacFor, Option
<1>2. CASE Named(r, arg) # {}
  BY <1>2, NamedIsListed, ListedFields DEF SacFor
<1> QED  BY <1>1, <1>2

\* Whoever signs is a signer, if anybody does.
LEMMA SourceIsSigner ==
  ASSUME NEW r \in OurRecords, NEW explicit \in Option(Signers)
  PROVE  AdminSource(r, explicit, AdminSecret) \in Option(Signers)
  BY RecordFields, CLIAssumption DEF AdminSource, Option

OneCallNames == {"init", "configure", "bind", "unbind", "freeze", "unfreeze"}

DeployStages == {"policy", "initialize", "set_config", "bind_token", "truncate", "write"}

\* The fields of a command line.
LEMMA CommandFields ==
  ASSUME NEW c \in Commands
  PROVE  /\ c.fn \in OneCallNames \cup {"deploy", "show"}
         /\ c.fn = "configure" =>
              c.policy \in Option(Policies) /\ c.sac \in Option(BOOLEAN)
         /\ c.fn = "bind" => c.sac \in Option(Sacs)
         /\ c.fn \in {"freeze", "unfreeze"} => c.account \in Accounts
         /\ c.fn = "deploy" =>
              c.policyId \in Option(Policies) /\ c.sac \in Option(BOOLEAN)
  BY DEF Commands, OneCallNames

-----------------------------------------------------------------------------
(***************************************************************************)
(* Type correctness.  What the running command is at agrees with what it   *)
(* is: its stage with its name, and from its source on it has one.         *)
(***************************************************************************)
Stages == {"idle", "network", "source", "deploy", "show"} \cup OneCallNames \cup DeployStages

JobOK ==
  /\ pc \in Stages
  /\ command \in Option(Commands)
  /\ conf \in Option(OurRecords)
  /\ source \in Option(Signers)
  /\ target \in Option(Places)
  /\ policy \in Option(Policies)
  /\ done \in Nat
  /\ exit \in Exits
  /\ pc # "idle" => command \in Commands /\ conf \in OurRecords
  /\ pc \notin {"idle", "network", "source"} => source \in Signers
  /\ pc \in OneCallNames \cup {"deploy", "show"} => command.fn = pc
  /\ pc \in DeployStages => command.fn = "deploy" /\ target \in Places

RestOK ==
  /\ record \in Option(OurRecords)
  /\ exists \in BOOLEAN
  /\ applied \in Option(Commands \X Signers)
  /\ others \in 0 .. MaxOthers

CliInv == TypeOK /\ JobOK /\ RestOK /\ drifted \in BOOLEAN

LEMMA InvImpliesType ==
  ASSUME CliInv
  PROVE  CliTypeOK
<1>1. pc # "idle" => command # None /\ conf # None
  BY NoneIsNothing DEF CliInv, JobOK
<1>2. pc \notin {"idle", "network", "source"} => source # None
  BY NoneAssumption DEF CliInv, JobOK
<1>3. pc \in {"idle", "network", "source", "init", "configure", "bind", "unbind",
              "freeze", "unfreeze", "deploy", "show", "policy", "initialize",
              "set_config", "bind_token", "truncate", "write"}
  BY DEF CliInv, JobOK, Stages, OneCallNames, DeployStages
<1> QED  BY <1>1, <1>2, <1>3 DEF CliInv, JobOK, RestOK, CliTypeOK

\* A command that ends leaves nothing behind.
LEMMA EndsOK ==
  ASSUME NEW how \in Exits, Ends(how)
  PROVE  JobOK' /\ pc' = "idle"
  BY DEF Ends, JobOK, Stages, Option, OneCallNames, DeployStages

\* What happens to the contract: nothing, or one administrative transaction.
Called == UNCHANGED vars \/ (AdminNext /\ UNCHANGED upgraded)

LEMMA CalledKeepsType ==
  ASSUME TypeOK, Called
  PROVE  TypeOK'
  BY StepTypeOK DEF Called, Next

\* A command's last call.
CallEnds ==
  /\ Called
  /\ \E how \in Exits : Ends(how)
  /\ applied' \in {applied, <<command, source>>}
  /\ UNCHANGED <<record, exists, others>>

LEMMA InitForm ==
  ASSUME JobOK, InitCommand
  PROVE  CallEnds
<1>1. pc = "init" /\ source \in Signers /\ conf.admin \in Signers
  BY RecordFields DEF InitCommand, JobOK, OneCallNames
<1>2. UNCHANGED vars \/ (Initialize(source, conf.admin) /\ UNCHANGED upgraded)
  BY Zenon DEF InitCommand, InvokeAndEnd, InvokeFails, Applied, Reverted
<1>3. /\ \E how \in Exits : Ends(how)
      /\ applied' \in {applied, <<command, source>>}
      /\ UNCHANGED <<record, exists, others>>
  BY DEF InitCommand, InvokeAndEnd, InvokeFails, Exits
<1> QED  BY <1>1, <1>2, <1>3 DEF CallEnds, Called, AdminNext

\* A command line's option over a default of the same kind.
LEMMA ValueOrIn ==
  ASSUME NEW S, NEW option \in Option(S), NEW default \in S
  PROVE  ValueOr(option, default) \in S
  BY DEF ValueOr, Option

LEMMA ConfigureForm ==
  ASSUME JobOK, ConfigureCommand
  PROVE  CallEnds
<1> DEFINE flag == ValueOr(command.sac, conf.sacPassthrough)
<1>1. /\ pc = "configure" /\ source \in Signers
      /\ conf \in OurRecords /\ command \in Commands /\ command.fn = "configure"
  BY DEF ConfigureCommand, JobOK, OneCallNames
<1>2. ConfiguredPolicy \in Policies \cup {None} /\ flag \in BOOLEAN
  BY <1>1, RecordFields, CommandFields DEF ConfiguredPolicy, ValueOr, Option
<1>3. UNCHANGED vars \/ (SetConfig(source, ConfiguredPolicy, flag) /\ UNCHANGED upgraded)
  BY Zenon DEF ConfigureCommand, InvokeAndEnd, InvokeFails, Applied, Reverted
<1>4. /\ \E how \in Exits : Ends(how)
      /\ applied' \in {applied, <<command, source>>}
      /\ UNCHANGED <<record, exists, others>>
  BY DEF ConfigureCommand, InvokeAndEnd, InvokeFails, Exits
<1> HIDE DEF flag
<1> QED  BY <1>1, <1>2, <1>3, <1>4 DEF CallEnds, Called, AdminNext

\* A token that means nothing ends the command before its call.
LEMMA UnknownForm ==
  ASSUME UnknownToken
  PROVE  CallEnds
  BY DEF UnknownToken, CallEnds, Called, Exits

LEMMA BindForm ==
  ASSUME JobOK, BindCommand
  PROVE  CallEnds
<1> DEFINE sac == ValueOr(command.sac, SacFor(conf, command.token))
<1>1. /\ pc = "bind" /\ source \in Signers
      /\ conf \in OurRecords /\ command \in Commands /\ command.fn = "bind"
  BY DEF BindCommand, JobOK, OneCallNames
<1>2. CASE UnknownToken
  BY <1>2, UnknownForm
<1>3. CASE TokenMeant \in Tokens /\ InvokeAndEnd(conf.hooks, BindToken(source, TokenMeant, sac))
  <2>1. sac \in Sacs \cup {None}
    BY <1>1, CommandFields, SacForIsSac DEF ValueOr, Option
  <2>2. UNCHANGED vars \/ (BindToken(source, TokenMeant, sac) /\ UNCHANGED upgraded)
    BY <1>3, Zenon DEF InvokeAndEnd, InvokeFails, Applied, Reverted
  <2>3. /\ \E how \in Exits : Ends(how)
        /\ applied' \in {applied, <<command, source>>}
        /\ UNCHANGED <<record, exists, others>>
    BY <1>3 DEF InvokeAndEnd, InvokeFails, Exits
  <2> HIDE DEF sac
  <2> QED  BY <1>1, <1>3, <2>1, <2>2, <2>3 DEF CallEnds, Called, AdminNext
<1> QED  BY <1>2, <1>3 DEF BindCommand

LEMMA UnbindForm ==
  ASSUME JobOK, UnbindCommand
  PROVE  CallEnds
<1>1. pc = "unbind" /\ source \in Signers
  BY DEF UnbindCommand, JobOK, OneCallNames
<1>2. CASE UnknownToken
  BY <1>2, UnknownForm
<1>3. CASE TokenMeant \in Tokens /\ InvokeAndEnd(conf.hooks, UnbindToken(source, TokenMeant))
  <2>1. UNCHANGED vars \/ (UnbindToken(source, TokenMeant) /\ UNCHANGED upgraded)
    BY <1>3, Zenon DEF InvokeAndEnd, InvokeFails, Applied, Reverted
  <2>2. /\ \E how \in Exits : Ends(how)
        /\ applied' \in {applied, <<command, source>>}
        /\ UNCHANGED <<record, exists, others>>
    BY <1>3 DEF InvokeAndEnd, InvokeFails, Exits
  <2> QED  BY <1>1, <1>3, <2>1, <2>2 DEF CallEnds, Called, AdminNext
<1> QED  BY <1>2, <1>3 DEF UnbindCommand

LEMMA FreezeForm ==
  ASSUME JobOK, FreezeCommand
  PROVE  CallEnds
<1>1. pc = "freeze" /\ source \in Signers /\ command.account \in Accounts
  BY CommandFields DEF FreezeCommand, JobOK, OneCallNames
<1>2. CASE UnknownToken
  BY <1>2, UnknownForm
<1>3. CASE TokenMeant \in Tokens
           /\ InvokeAndEnd(conf.hooks, Freeze(source, TokenMeant, command.account))
  <2>1. UNCHANGED vars \/ (Freeze(source, TokenMeant, command.account) /\ UNCHANGED upgraded)
    BY <1>3, Zenon DEF InvokeAndEnd, InvokeFails, Applied, Reverted
  <2>2. /\ \E how \in Exits : Ends(how)
        /\ applied' \in {applied, <<command, source>>}
        /\ UNCHANGED <<record, exists, others>>
    BY <1>3 DEF InvokeAndEnd, InvokeFails, Exits
  <2> QED  BY <1>1, <1>3, <2>1, <2>2 DEF CallEnds, Called, AdminNext
<1> QED  BY <1>2, <1>3 DEF FreezeCommand

LEMMA UnfreezeForm ==
  ASSUME JobOK, UnfreezeCommand
  PROVE  CallEnds
<1>1. pc = "unfreeze" /\ source \in Signers /\ command.account \in Accounts
  BY CommandFields DEF UnfreezeCommand, JobOK, OneCallNames
<1>2. CASE UnknownToken
  BY <1>2, UnknownForm
<1>3. CASE TokenMeant \in Tokens
           /\ InvokeAndEnd(conf.hooks, Unfreeze(source, TokenMeant, command.account))
  <2>1. UNCHANGED vars \/ (Unfreeze(source, TokenMeant, command.account) /\ UNCHANGED upgraded)
    BY <1>3, Zenon DEF InvokeAndEnd, InvokeFails, Applied, Reverted
  <2>2. /\ \E how \in Exits : Ends(how)
        /\ applied' \in {applied, <<command, source>>}
        /\ UNCHANGED <<record, exists, others>>
    BY <1>3 DEF InvokeAndEnd, InvokeFails, Exits
  <2> QED  BY <1>1, <1>3, <2>1, <2>2 DEF CallEnds, Called, AdminNext
<1> QED  BY <1>2, <1>3 DEF UnfreezeCommand

\* A command of one transaction is at its call.
LEMMA OneCallStage ==
  ASSUME JobOK, OneCallStep
  PROVE  /\ pc \in OneCallNames /\ pc # "idle" /\ command.fn = pc
         /\ conf \in OurRecords /\ conf # None
<1>1. pc \in OneCallNames /\ pc # "idle"
  BY DEF OneCallStep, InitCommand, ConfigureCommand, BindCommand, UnbindCommand,
         FreezeCommand, UnfreezeCommand, OneCallNames
<1> QED  BY <1>1, NoneIsNothing DEF JobOK

\* A command of one transaction is over after it, however it went.
LEMMA OneCallForm ==
  ASSUME JobOK, OneCallStep
  PROVE  CallEnds /\ source \in Signers /\ command \in Commands
<1>1. CallEnds
  BY InitForm, ConfigureForm, BindForm, UnbindForm, FreezeForm, UnfreezeForm
     DEF OneCallStep
<1> QED  BY <1>1, OneCallStage DEF JobOK, OneCallNames

\* A call in the middle of deploy: it goes on, or ends the command.
CallGoes(to, next) ==
  /\ Called
  /\ \/ /\ pc' = to /\ done' = next
        /\ UNCHANGED <<applied, command, conf, source, target, policy, exit>>
     \/ /\ \E how \in Exits : Ends(how)
        /\ applied' \in {applied, <<command, source>>}
  /\ UNCHANGED <<record, exists, others>>

LEMMA InitializeForm ==
  ASSUME JobOK, InitializeFresh
  PROVE  CallGoes("set_config", done)
<1>1. source \in Signers /\ conf.admin \in Signers
  BY RecordFields DEF InitializeFresh, JobOK, DeployStages
<1>2. UNCHANGED vars \/ (Initialize(source, conf.admin) /\ UNCHANGED upgraded)
  BY Zenon DEF InitializeFresh, InvokeAndGo, InvokeFails, Applied, Reverted
<1>3. /\ \/ /\ pc' = "set_config" /\ done' = done
            /\ UNCHANGED <<applied, command, conf, source, target, policy, exit>>
         \/ /\ \E how \in Exits : Ends(how)
            /\ applied' \in {applied, <<command, source>>}
      /\ UNCHANGED <<record, exists, others>>
  BY DEF InitializeFresh, InvokeAndGo, InvokeFails, Exits
<1> QED  BY <1>1, <1>2, <1>3 DEF CallGoes, Called, AdminNext

\* What deploy configures is a configuration.
LEMMA DeployedConfig ==
  ASSUME JobOK, pc \in DeployStages
  PROVE  policy \in Policies \cup {None} /\ DeployedPassthrough \in BOOLEAN
<1>1. command \in Commands /\ command.fn = "deploy" /\ conf \in OurRecords
  BY DEF JobOK, DeployStages
<1> QED  BY <1>1, CommandFields, RecordFields, ValueOrIn DEF DeployedPassthrough, JobOK, Option

LEMMA ConfigureFreshForm ==
  ASSUME JobOK, ConfigureFresh
  PROVE  CallGoes("bind_token", done)
<1>1. pc \in DeployStages /\ source \in Signers
  BY DEF ConfigureFresh, JobOK, DeployStages
<1>2. UNCHANGED vars \/ (SetConfig(source, policy, DeployedPassthrough) /\ UNCHANGED upgraded)
  BY Zenon DEF ConfigureFresh, InvokeAndGo, InvokeFails, Applied, Reverted
<1>3. /\ \/ /\ pc' = "bind_token" /\ done' = done
            /\ UNCHANGED <<applied, command, conf, source, target, policy, exit>>
         \/ /\ \E how \in Exits : Ends(how)
            /\ applied' \in {applied, <<command, source>>}
      /\ UNCHANGED <<record, exists, others>>
  BY DEF ConfigureFresh, InvokeAndGo, InvokeFails, Exits
<1> QED  BY <1>1, <1>2, <1>3, DeployedConfig DEF CallGoes, Called, AdminNext

LEMMA BindListedForm ==
  ASSUME JobOK, BindListed
  PROVE  CallGoes("bind_token", done + 1)
<1> DEFINE token == conf.tokens[done + 1]
<1>1. source \in Signers /\ conf \in OurRecords /\ done \in Nat
  BY DEF BindListed, JobOK, DeployStages
<1>2. token.id \in Tokens /\ token.sac \in Sacs \cup {None}
  <2>1. done + 1 \in DOMAIN conf.tokens
    <3>1. conf.tokens \in Seq(ListedTokens(Tokens, Sacs)) /\ done < Len(conf.tokens)
      BY <1>1, RecordFields DEF BindListed
    <3> QED  BY <1>1, <3>1
  <2> QED  BY <1>1, <2>1, ListedFields DEF Option
<1>3. UNCHANGED vars \/ (BindToken(source, token.id, token.sac) /\ UNCHANGED upgraded)
  BY Zenon DEF BindListed, InvokeAndGo, InvokeFails, Applied, Reverted
<1>4. /\ \/ /\ pc' = "bind_token" /\ done' = done + 1
            /\ UNCHANGED <<applied, command, conf, source, target, policy, exit>>
         \/ /\ \E how \in Exits : Ends(how)
            /\ applied' \in {applied, <<command, source>>}
      /\ UNCHANGED <<record, exists, others>>
  BY DEF BindListed, InvokeAndGo, InvokeFails, Exits
<1> HIDE DEF token
<1> QED  BY <1>1, <1>2, <1>3, <1>4 DEF CallGoes, Called, AdminNext

\* Going on from one stage of a deployment to the next.
LEMMA StageOK ==
  ASSUME JobOK, pc \in DeployStages, pc' \in DeployStages,
         UNCHANGED <<command, conf, source, target, exit>>,
         policy' \in Option(Policies), done' \in Nat
  PROVE  JobOK'
  BY DEF JobOK, Stages, DeployStages, OneCallNames

\* The record a deployment writes is a record.
LEMMA UpdatedIsRecord ==
  ASSUME JobOK, pc = "write"
  PROVE  UpdatedRecord \in OurRecords
<1>1. conf \in OurRecords /\ target \in Places /\ pc \in DeployStages
  BY DEF JobOK, DeployStages
<1>2. policy \in Policies \cup {None} /\ DeployedPassthrough \in BOOLEAN
  BY <1>1, DeployedConfig
<1> QED  BY <1>1, <1>2 DEF UpdatedRecord, OurRecords, Records

\* A policy deploy resolves is a policy, or none.
LEMMA ResolvedIsPolicy ==
  ASSUME JobOK, pc = "policy"
  PROVE  ResolvedPolicies \subseteq Option(Policies)
<1>1. command \in Commands /\ command.fn = "deploy" /\ conf \in OurRecords
  BY DEF JobOK, DeployStages
<1>2. command.policyId \in Option(Policies) /\ conf.policy \in Option(Policies)
  BY <1>1, CommandFields, RecordFields
<1> QED  BY <1>2 DEF ResolvedPolicies, Option

Keeps == TypeOK' /\ JobOK' /\ RestOK'

LEMMA EnsureNetworkKeeps ==
  ASSUME CliInv, EnsureNetwork
  PROVE  Keeps
<1>1. TypeOK' /\ RestOK'
  BY DEF EnsureNetwork, CliInv, TypeOK, RestOK, vars, store
<1>2. CASE Goes("source")
  <2>1. JobOK'
    BY <1>2 DEF EnsureNetwork, CliInv, Goes, JobOK, job, Stages, OneCallNames, DeployStages
  <2> QED  BY <1>1, <2>1 DEF Keeps
<1>3. CASE Ends("failed")
  BY <1>1, <1>3, EndsOK DEF Exits, Keeps
<1> QED  BY <1>1, <1>2, <1>3 DEF Keeps, EnsureNetwork

LEMMA TakeSourceKeeps ==
  ASSUME CliInv, TakeSource
  PROVE  Keeps
<1>1. TypeOK' /\ RestOK'
  BY DEF TakeSource, CliInv, TypeOK, RestOK, vars, store
<1>2. CASE source = None
  BY <1>1, <1>2, EndsOK DEF TakeSource, Exits, Keeps
<1>3. CASE source # None
  <2>1. command.fn \in OneCallNames \cup {"deploy", "show"}
    BY CommandFields DEF TakeSource, CliInv, JobOK
  <2>2. Goes(command.fn) /\ source \in Signers
    BY <1>3 DEF TakeSource, CliInv, JobOK, Option
  <2>3. UNCHANGED <<command, conf, source, target, policy, done, exit>> /\ pc' = command.fn
    BY <2>2 DEF Goes, job
  <2>4. pc' \in Stages /\ pc' \notin DeployStages /\ pc # "idle"
    BY <2>1, <2>3 DEF Stages, OneCallNames, DeployStages, TakeSource
  <2>5. JobOK'
    BY <2>2, <2>3, <2>4 DEF JobOK, CliInv
  <2> QED  BY <1>1, <2>5 DEF Keeps
<1> QED  BY <1>1, <1>2, <1>3 DEF Keeps

LEMMA OneCallKeeps ==
  ASSUME CliInv, OneCallStep
  PROVE  Keeps
<1>1. CallEnds /\ source \in Signers /\ command \in Commands
  BY OneCallForm DEF CliInv
<1>2. JobOK'
  BY <1>1, EndsOK DEF CallEnds
<1>3. TypeOK' /\ RestOK'
  BY <1>1, CalledKeepsType DEF CallEnds, CliInv, RestOK, Option
<1> QED  BY <1>2, <1>3 DEF Keeps

LEMMA ShowKeeps ==
  ASSUME CliInv, ShowCommand
  PROVE  Keeps
<1>1. pc = "show" /\ UNCHANGED <<vars, record, exists, applied, others>>
  BY DEF ShowCommand, Read, UnknownToken
<1>2. TypeOK' /\ RestOK'
  BY <1>1 DEF CliInv, TypeOK, RestOK, vars, store
<1>3. \/ /\ pc' = pc /\ done' = done + 1
         /\ UNCHANGED <<command, conf, source, target, policy, exit>>
      \/ \E how \in Exits : Ends(how)
  BY DEF ShowCommand, Read, UnknownToken, Exits
<1>4. CASE pc' = pc /\ done' = done + 1
           /\ UNCHANGED <<command, conf, source, target, policy, exit>>
  <2>1. JobOK'
    BY <1>1, <1>4 DEF CliInv, JobOK
  <2> QED  BY <1>2, <2>1 DEF Keeps
<1> QED  BY <1>2, <1>3, <1>4, EndsOK DEF Keeps

LEMMA DeployKeeps ==
  ASSUME CliInv, DeployStep
  PROVE  Keeps
<1>1. CASE DeployHooks
  <2>1. TypeOK' /\ RestOK'
    BY <1>1 DEF DeployHooks, Mints, CliInv, TypeOK, RestOK, vars, store
  <2>2. CASE \E how \in Exits : Ends(how)
    BY <2>1, <2>2, EndsOK DEF Keeps
  <2>3. CASE ~ \E how \in Exits : Ends(how)
    <3>1. PICK where \in Places :
            /\ pc' = "policy" /\ target' = where
            /\ UNCHANGED <<command, conf, source, policy, done, exit>>
      BY <1>1, <2>3 DEF DeployHooks, Mints, Exits
    <3>2. JobOK'
      BY <1>1, <3>1 DEF DeployHooks, CliInv, JobOK, Stages, DeployStages, OneCallNames,
                        Option
    <3> QED  BY <2>1, <3>2 DEF Keeps
  <2> QED  BY <2>1, <2>2, <2>3 DEF Keeps
<1>2. CASE ResolvePolicy
  <2>1. TypeOK' /\ RestOK' /\ pc = "policy"
    BY <1>2 DEF ResolvePolicy, CliInv, TypeOK, RestOK, vars, store
  <2>2. CASE \E how \in Exits : Ends(how)
    BY <2>1, <2>2, EndsOK DEF Keeps
  <2>3. CASE ~ \E how \in Exits : Ends(how)
    <3>1. /\ policy' \in ResolvedPolicies /\ pc' = "initialize"
          /\ UNCHANGED <<command, conf, source, target, done, exit>>
      BY <1>2, <2>3 DEF ResolvePolicy, Exits
    <3>2. done \in Nat /\ policy' \in Option(Policies)
      BY <2>1, <3>1, ResolvedIsPolicy DEF CliInv, JobOK
    <3>3. JobOK'
      BY <2>1, <3>1, <3>2, StageOK DEF CliInv, DeployStages
    <3> QED  BY <2>1, <3>3 DEF Keeps
  <2> QED  BY <2>1, <2>2, <2>3 DEF Keeps
<1>3. ASSUME NEW to \in DeployStages, NEW next \in Nat, pc \in DeployStages,
             CallGoes(to, next)
      PROVE  Keeps
  <2>1. source \in Signers /\ command \in Commands
    BY <1>3 DEF CliInv, JobOK, DeployStages
  <2>2. TypeOK' /\ RestOK'
    BY <1>3, <2>1, CalledKeepsType DEF CallGoes, CliInv, RestOK, Option
  <2>3. JobOK'
    BY <1>3, EndsOK, StageOK DEF CallGoes, CliInv, JobOK
  <2> QED  BY <2>2, <2>3 DEF Keeps
<1>4. CASE InitializeFresh
  BY <1>3, <1>4, InitializeForm DEF InitializeFresh, CliInv, JobOK, DeployStages
<1>5. CASE ConfigureFresh
  BY <1>3, <1>5, ConfigureFreshForm DEF ConfigureFresh, CliInv, JobOK, DeployStages
<1>6. CASE BindListed
  <2>1. done \in Nat /\ done + 1 \in Nat
    BY DEF CliInv, JobOK
  <2> QED  BY <1>3, <1>6, <2>1, BindListedForm DEF BindListed, CliInv, DeployStages
<1>7. CASE FinishDeploy
  <2>1. TypeOK' /\ RestOK' /\ pc = "bind_token"
    BY <1>7 DEF FinishDeploy, CliInv, TypeOK, RestOK, vars, store
  <2>2. Goes("truncate") \/ Ends("ok")
    BY <1>7 DEF FinishDeploy
  <2> QED  BY <2>1, <2>2, EndsOK, StageOK DEF Keeps, Goes, job, Exits, CliInv, JobOK,
                                            DeployStages
<1>8. CASE TruncateRecord
  <2>1. TypeOK' /\ RestOK' /\ pc = "truncate"
    BY <1>8 DEF TruncateRecord, CliInv, TypeOK, RestOK, vars, store, Option
  <2>2. Goes("write") \/ Ends("failed")
    BY <1>8 DEF TruncateRecord
  <2> QED  BY <2>1, <2>2, EndsOK, StageOK DEF Keeps, Goes, job, Exits, CliInv, JobOK,
                                            DeployStages
<1>9. CASE WriteRecord
  <2>1. TypeOK'
    BY <1>9 DEF WriteRecord, CliInv, TypeOK, vars, store
  <2>2. RestOK'
    BY <1>9, UpdatedIsRecord DEF WriteRecord, CliInv, RestOK, Option
  <2>3. JobOK'
    BY <1>9, EndsOK DEF WriteRecord, Exits
  <2> QED  BY <2>1, <2>2, <2>3 DEF Keeps
<1> QED  BY <1>1, <1>2, <1>4, <1>5, <1>6, <1>7, <1>8, <1>9 DEF DeployStep

LEMMA CommandKeeps ==
  ASSUME CliInv, CommandStep
  PROVE  CliInv'
<1>1. Keeps
  BY EnsureNetworkKeeps, TakeSourceKeeps, OneCallKeeps, ShowKeeps, DeployKeeps
     DEF CommandStep
<1>2. drifted' \in BOOLEAN
  BY DEF CommandStep, CliInv
<1> QED  BY <1>1, <1>2 DEF Keeps, CliInv

LEMMA OperatorKeeps ==
  ASSUME CliInv, OperatorStep
  PROVE  CliInv'
<1>1. CASE StartUnreadable
  BY <1>1 DEF OperatorStep, StartUnreadable, CliInv, TypeOK, JobOK, RestOK, vars, store, job,
              Exits
<1>2. ASSUME NEW cmd \in Commands, NEW explicit \in Option(Signers), Start(cmd, explicit)
      PROVE  CliInv'
  <2>1. record \in OurRecords
    BY <1>2 DEF Start, CliInv, RestOK, Option
  <2>2. source' \in Option(Signers)
    BY <1>2, <2>1, SourceIsSigner DEF Start
  <2>3. JobOK'
    BY <1>2, <2>1, <2>2 DEF Start, CliInv, JobOK, Stages, OneCallNames, DeployStages, Option
  <2>4. RestOK'
    BY <1>2 DEF Start, CliInv, RestOK, Option
  <2>5. TypeOK'
    BY <1>2 DEF Start, CliInv, TypeOK, vars, store
  <2>6. drifted' \in BOOLEAN
    BY DEF OperatorStep, CliInv
  <2> QED  BY <2>3, <2>4, <2>5, <2>6 DEF CliInv
<1> QED  BY <1>1, <1>2 DEF OperatorStep

LEMMA KillKeeps ==
  ASSUME CliInv, Kill
  PROVE  CliInv'
<1>1. JobOK'
  BY EndsOK DEF Kill, Exits
<1>2. TypeOK' /\ RestOK' /\ drifted' \in BOOLEAN
  BY DEF Kill, CliInv, TypeOK, RestOK, vars, store
<1> QED  BY <1>1, <1>2 DEF CliInv

LEMMA OtherKeeps ==
  ASSUME CliInv, OtherStep
  PROVE  CliInv'
<1>1. TypeOK'
  BY CalledKeepsType DEF OtherStep, Called, CliInv
<1>2. RestOK'
  BY CLIAssumption DEF OtherStep, CliInv, RestOK, Option
<1>3. JobOK'
  BY DEF OtherStep, CliInv, JobOK, job
<1>4. drifted' \in BOOLEAN
  BY DEF OtherStep, CliInv
<1> QED  BY <1>1, <1>2, <1>3, <1>4 DEF CliInv

LEMMA StepCliInv ==
  ASSUME CliInv, [CliNext]_<<vars, cliVars>>
  PROVE  CliInv'
<1>1. CASE UNCHANGED <<vars, cliVars>>
  BY <1>1 DEF CliInv, TypeOK, JobOK, RestOK, vars, store, cliVars, job
<1> QED  BY <1>1, CommandKeeps, OperatorKeeps, KillKeeps, OtherKeeps DEF CliNext

LEMMA InitCliInv ==
  ASSUME CliInit
  PROVE  CliInv
<1>1. TypeOK
  BY InitTypeOK DEF CliInit, Init
<1>2. record \in OurRecords
  BY CLIAssumption DEF CliInit
<1>3. JobOK
  BY DEF CliInit, JobOK, Stages, OneCallNames, DeployStages, Option, Exits
<1>4. RestOK
  <2>1. MaxOthers \in Nat
    BY CLIAssumption
  <2>2. others \in 0 .. MaxOthers
    BY <2>1 DEF CliInit
  <2> QED  BY <1>2, <2>2 DEF CliInit, RestOK, Option
<1>5. drifted \in BOOLEAN
  BY DEF CliInit
<1> QED  BY <1>1, <1>3, <1>4, <1>5 DEF CliInv

\* CliTypeOK holds of every run of the CLI, whatever fails.
THEOREM CliTypeCorrect == CliSpec => []CliTypeOK
  BY InitCliInv, StepCliInv, InvImpliesType, PTL DEF CliSpec

-----------------------------------------------------------------------------
(***************************************************************************)
(* The recorded contract.  The inductive invariant follows a deployment    *)
(* through its calls: after initialize the fresh contract is the record's  *)
(* admin's, after set_config it has a configuration, and neither can be    *)
(* undone by anybody.                                                      *)
(***************************************************************************)
Ours(r) == admin = r.admin /\ config # None /\ stateVersion = LayoutVersion

OursInv ==
  /\ pc = "set_config" /\ target = "here" =>
       admin = conf.admin /\ stateVersion = LayoutVersion
  /\ pc \in {"bind_token", "truncate", "write"} /\ target = "here" => Ours(conf)
  /\ record # None => (record.hooks = "here" => Ours(record))

\* What no transaction of anybody undoes.
Steady ==
  /\ admin # None => admin' = admin
  /\ config # None => config' # None
  /\ stateVersion = LayoutVersion => stateVersion' = LayoutVersion

LEMMA CalledIsSteady ==
  ASSUME Called
  PROVE  Steady
<1>1. CASE UNCHANGED vars
  BY <1>1 DEF Steady, vars, store
<1>2. CASE AdminNext
  <2>1. Effect
    BY <1>2, AdminStepHasEffect
  <2> QED  BY <2>1, NoneAssumption DEF Effect, Quiet, Claims, Rewrites, Binds, Unbinds,
                Freezes, Thaws, Steady, store, SetComplianceConfig, LayoutVersion
<1> QED  BY <1>1, <1>2 DEF Called

\* A record's contract stays the operator's.
LEMMA SteadyKeepsOurs ==
  ASSUME Steady, NEW r \in OurRecords, Ours(r)
  PROVE  admin' = r.admin /\ config' # None /\ stateVersion' = LayoutVersion
<1>1. r.admin # None
  BY RecordFields, NoneAssumption
<1> QED  BY <1>1 DEF Steady, Ours

\* The stages of a deployment at which its contract is initialized.
Late == {"set_config", "bind_token", "truncate", "write"}

\* A step that leaves the record and goes nowhere late, or not late anew.
LEMMA EarlyKeepsOurs ==
  ASSUME CliInv, OursInv, Called, UNCHANGED record,
         \/ pc' \notin Late
         \/ pc' = pc /\ UNCHANGED <<conf, target>>
  PROVE  OursInv'
<1>1. Steady
  BY CalledIsSteady
<1>2. record # None => (record.hooks = "here" => Ours(record))'
  <2>1. record \in Option(OurRecords)
    BY DEF CliInv, RestOK
  <2> QED  BY <1>1, <2>1, SteadyKeepsOurs DEF OursInv, Ours, Option
<1>3. pc' # "idle" /\ pc' \in Late => conf \in OurRecords /\ conf' = conf /\ target' = target /\ pc' = pc
  BY DEF CliInv, JobOK, Late
<1>4. (pc = "set_config" /\ target = "here" => admin = conf.admin /\ stateVersion = LayoutVersion)'
  <2> SUFFICES ASSUME pc' = "set_config", target' = "here"
               PROVE  admin' = conf'.admin /\ stateVersion' = LayoutVersion
    BY DEF LayoutVersion
  <2>1. conf.admin # None /\ conf' = conf /\ pc = "set_config" /\ target = "here"
    BY <1>3, RecordFields, NoneAssumption DEF Late
  <2> QED  BY <1>1, <2>1 DEF OursInv, Steady
<1>5. (pc \in {"bind_token", "truncate", "write"} /\ target = "here" => Ours(conf))'
  <2> SUFFICES ASSUME pc' \in {"bind_token", "truncate", "write"}, target' = "here"
               PROVE  Ours(conf)'
    OBVIOUS
  <2>1. Ours(conf) /\ conf \in OurRecords /\ conf' = conf
    BY <1>3 DEF Late, OursInv
  <2> QED  BY <1>1, <2>1, SteadyKeepsOurs DEF Ours, LayoutVersion
<1> QED  BY <1>2, <1>4, <1>5 DEF OursInv

\* A command that ends, or that has not come to its deployment's calls.
LEMMA EarlyStepsKeepOurs ==
  ASSUME CliInv, OursInv,
         EnsureNetwork \/ TakeSource \/ OneCallStep \/ ShowCommand \/ DeployHooks
           \/ ResolvePolicy
  PROVE  OursInv'
<1>1. ASSUME NEW how \in Exits, Ends(how)
      PROVE  pc' \notin Late
  BY <1>1 DEF Ends, Late
<1>2. CASE OneCallStep
  BY <1>1, <1>2, OneCallForm, EarlyKeepsOurs DEF CallEnds, CliInv
<1>3. CASE EnsureNetwork
  BY <1>1, <1>3, EarlyKeepsOurs DEF EnsureNetwork, Goes, Called, Exits, Late
<1>4. CASE TakeSource
  <2>1. pc' \notin Late
    <3>1. command.fn \in OneCallNames \cup {"deploy", "show"}
      BY <1>4, CommandFields DEF TakeSource, CliInv, JobOK
    <3> QED  BY <1>1, <1>4, <3>1 DEF TakeSource, Goes, Exits, Late, OneCallNames
  <2> QED  BY <1>4, <2>1, EarlyKeepsOurs DEF TakeSource, Called
<1>5. CASE ShowCommand
  <2>1. pc' \notin Late
    BY <1>1, <1>5 DEF ShowCommand, Read, UnknownToken, Exits, Late
  <2>2. UNCHANGED <<vars, record>>
    BY <1>5 DEF ShowCommand, Read, UnknownToken
  <2> QED  BY <2>1, <2>2, EarlyKeepsOurs DEF Called
<1>6. CASE DeployHooks
  <2>1. pc' \notin Late
    BY <1>1, <1>6 DEF DeployHooks, Mints, Exits, Late
  <2> QED  BY <1>6, <2>1, EarlyKeepsOurs DEF DeployHooks, Called
<1>7. CASE ResolvePolicy
  <2>1. pc' \notin Late
    BY <1>1, <1>7 DEF ResolvePolicy, Exits, Late
  <2> QED  BY <1>7, <2>1, EarlyKeepsOurs DEF ResolvePolicy, Called
<1> QED  BY <1>2, <1>3, <1>4, <1>5, <1>6, <1>7

\* The gates of an accepted call are passed.
LEMMA GatePassed ==
  ASSUME NEW signer, AdminGate(signer) = Allow
  PROVE  admin # None /\ signer = admin
  BY DEF AdminGate, Allow

\* What the two calls that make the contract the operator's do, if accepted.
LEMMA AcceptedInitialize ==
  ASSUME NEW signer, NEW newAdmin, Initialize(signer, newAdmin), tx'.result = Allow
  PROVE  admin' = newAdmin /\ stateVersion' = LayoutVersion
  BY DEF Initialize, Leaves, Allow

LEMMA AcceptedRewrite ==
  ASSUME NEW signer, NEW p, NEW b, SetConfig(signer, p, b), tx'.result = Allow
  PROVE  /\ signer = admin
         /\ config' = [policy |-> p, sacPassthrough |-> b]
         /\ UNCHANGED <<admin, binding, frozen>>
<1>1. AdminGate(signer) = Allow
  BY DEF SetConfig, Rejects, Leaves
<1> HIDE DEF AdminGate
<1>2. /\ config' = [policy |-> p, sacPassthrough |-> b]
      /\ UNCHANGED <<admin, binding, frozen>>
  BY <1>1 DEF SetConfig, Rejects, Leaves, SetComplianceConfig, store, Allow
<1> QED  BY <1>1, <1>2, GatePassed

\* Each call of a deployment that goes on leaves the contract as the next stage
\* supposes it.
LEMMA InitializeMakesOurs ==
  ASSUME CliInv, OursInv, InitializeFresh
  PROVE  OursInv'
<1>1. CallGoes("set_config", done) /\ pc = "initialize"
  BY InitializeForm DEF CliInv, InitializeFresh
<1>2. CASE \E how \in Exits : Ends(how)
  BY <1>1, <1>2, EarlyKeepsOurs DEF CallGoes, Ends, Late
<1>3. CASE /\ pc' = "set_config"
           /\ UNCHANGED <<applied, command, conf, source, target, policy, exit>>
  <2>1. target = "here" => Initialize(source, conf.admin) /\ tx'.result = Allow
    BY <1>3, Zenon DEF InitializeFresh, InvokeAndGo, InvokeFails, Applied, Ends
  <2>2. target = "here" => admin' = conf.admin /\ stateVersion' = LayoutVersion
    BY <2>1, AcceptedInitialize
  <2>3. Steady /\ record' = record /\ record \in Option(OurRecords)
    BY <1>1, CalledIsSteady DEF CallGoes, CliInv, RestOK
  <2>4. record' # None => (record'.hooks = "here" => Ours(record)')
    BY <2>3, SteadyKeepsOurs DEF OursInv, Ours, Option, LayoutVersion
  <2> QED  BY <1>3, <2>2, <2>4 DEF OursInv, LayoutVersion
<1> QED  BY <1>1, <1>2, <1>3 DEF CallGoes

LEMMA ConfigureMakesOurs ==
  ASSUME CliInv, OursInv, ConfigureFresh
  PROVE  OursInv'
<1>1. CallGoes("bind_token", done) /\ pc = "set_config" /\ conf \in OurRecords
  BY ConfigureFreshForm DEF CliInv, JobOK, ConfigureFresh
<1>2. CASE \E how \in Exits : Ends(how)
  BY <1>1, <1>2, EarlyKeepsOurs DEF CallGoes, Ends, Late
<1>3. CASE /\ pc' = "bind_token"
           /\ UNCHANGED <<applied, command, conf, source, target, policy, exit>>
  <2>1. target = "here" =>
          SetConfig(source, policy, DeployedPassthrough) /\ tx'.result = Allow
    BY <1>3, Zenon DEF ConfigureFresh, InvokeAndGo, InvokeFails, Applied, Ends
  <2>2. target = "here" => config' # None
    BY <1>1, <2>1, AcceptedRewrite, DeployedConfig, NoneAssumption
       DEF CliInv, DeployStages, Configs
  <2>3. Steady /\ record' = record /\ record \in Option(OurRecords)
    BY <1>1, CalledIsSteady DEF CallGoes, CliInv, RestOK
  <2>4. record' # None => (record'.hooks = "here" => Ours(record)')
    BY <2>3, SteadyKeepsOurs DEF OursInv, Ours, Option, LayoutVersion
  <2>5. conf.admin # None
    BY <1>1, RecordFields, NoneAssumption
  <2>6. target = "here" => Ours(conf)'
    BY <1>1, <1>3, <2>2, <2>3, <2>5 DEF OursInv, Steady, Ours, LayoutVersion
  <2> QED  BY <1>3, <2>4, <2>6 DEF OursInv
<1> QED  BY <1>1, <1>2, <1>3 DEF CallGoes

\* From there on the record may be written at any time.
LEMMA SavingKeepsOurs ==
  ASSUME CliInv, OursInv, BindListed \/ FinishDeploy \/ TruncateRecord \/ WriteRecord
  PROVE  OursInv'
<1>1. pc \in {"bind_token", "truncate", "write"}
      /\ pc' \in {"idle", "bind_token", "truncate", "write"}
  BY DEF BindListed, InvokeAndGo, InvokeFails, FinishDeploy, TruncateRecord, WriteRecord,
         Goes, Ends
<1>2. Called
  BY BindListedForm DEF CliInv, CallGoes, FinishDeploy, TruncateRecord, WriteRecord, Called
<1>3. pc' = "idle" \/ UNCHANGED <<conf, target>>
  BY DEF BindListed, InvokeAndGo, InvokeFails, FinishDeploy, TruncateRecord, WriteRecord,
         Goes, Ends, job
<1>4. record' \in {record, None} \/ (pc = "write" /\ record' = UpdatedRecord)
  BY DEF BindListed, InvokeAndGo, FinishDeploy, TruncateRecord, WriteRecord
<1>5. Steady /\ conf \in OurRecords /\ record \in Option(OurRecords)
  BY <1>1, <1>2, CalledIsSteady DEF CliInv, JobOK, RestOK
<1>6. ASSUME pc' \in {"bind_token", "truncate", "write"}, target' = "here"
      PROVE  Ours(conf)'
  <2>1. Ours(conf) /\ conf' = conf
    BY <1>1, <1>3, <1>6 DEF OursInv
  <2> QED  BY <1>5, <2>1, SteadyKeepsOurs DEF Ours, LayoutVersion
<1>7. ASSUME record' # None, record'.hooks = "here"
      PROVE  Ours(record)'
  <2>1. CASE record' = record
    BY <1>5, <1>7, <2>1, SteadyKeepsOurs DEF OursInv, Ours, Option, LayoutVersion
  <2>2. CASE pc = "write" /\ record' = UpdatedRecord
    <3>1. UpdatedRecord.hooks = target /\ UpdatedRecord.admin = conf.admin
      BY <1>5 DEF UpdatedRecord, OurRecords, Records
    <3>2. Ours(conf)
      BY <1>7, <2>2, <3>1 DEF OursInv
    <3> QED  BY <1>5, <2>2, <3>1, <3>2, SteadyKeepsOurs DEF Ours, LayoutVersion
  <2> QED  BY <1>4, <1>7, <2>1, <2>2
<1> QED  BY <1>1, <1>6, <1>7 DEF OursInv

LEMMA StepOurs ==
  ASSUME CliInv, OursInv, [CliNext]_<<vars, cliVars>>
  PROVE  OursInv'
<1>1. CASE UNCHANGED <<vars, cliVars>>
  BY <1>1 DEF OursInv, Ours, vars, store, cliVars, job, LayoutVersion
<1>2. CASE CommandStep
  BY <1>2, EarlyStepsKeepOurs, InitializeMakesOurs, ConfigureMakesOurs, SavingKeepsOurs
     DEF CommandStep, DeployStep
<1>3. CASE OperatorStep
  <2>1. UNCHANGED <<vars, record>>
    BY <1>3 DEF OperatorStep, StartUnreadable, Start
  <2>2. pc' \notin Late \/ (pc' = pc /\ UNCHANGED <<conf, target>>)
    BY <1>3 DEF OperatorStep, StartUnreadable, Start, Late, job
  <2> QED  BY <2>1, <2>2, EarlyKeepsOurs DEF Called
<1>4. CASE Kill
  BY <1>4, EarlyKeepsOurs DEF Kill, Ends, Late, Called
<1>5. CASE OtherStep
  BY <1>5, EarlyKeepsOurs DEF OtherStep, Called, job
<1> QED  BY <1>1, <1>2, <1>3, <1>4, <1>5 DEF CliNext

\* Nobody's record names the contract before it is deployed.
LEMMA InitOurs ==
  ASSUME CliInit
  PROVE  OursInv
<1>1. record.hooks = "elsewhere" /\ pc = "idle"
  BY CLIAssumption DEF CliInit
<1> QED  BY <1>1 DEF OursInv

(***************************************************************************)
(* A record never comes to name a contract whose admin is not the recorded *)
(* one or that was never configured, whoever races the deployment, however *)
(* often, and whatever is lost or killed on the way.                       *)
(***************************************************************************)
THEOREM RecordedIsOurs == CliSpec => []RecordedContractIsOurs
<1>1. OursInv => RecordedContractIsOurs
  BY DEF OursInv, Ours, RecordedContractIsOurs
<1>2. CliInit => CliInv /\ OursInv
  BY InitCliInv, InitOurs
<1>3. CliInv /\ OursInv /\ [CliNext]_<<vars, cliVars>> => (CliInv /\ OursInv)'
  BY StepCliInv, StepOurs
<1> QED  BY <1>1, <1>2, <1>3, PTL DEF CliSpec
-----------------------------------------------------------------------------
(***************************************************************************)
(* The record a command works from.  While a command runs it has the       *)
(* record as it is on disk, until deploy rewrites it; and a contract that  *)
(* is being deployed is not yet the one the record names.                  *)
(***************************************************************************)
RecordInv ==
  /\ pc = "write" => record = None
  /\ pc \notin {"idle", "write"} => record = conf
  /\ record # None => (record.hooks = "here" => exists)
  /\ pc \notin DeployStages => target = None
  /\ pc \notin {"show", "bind_token", "truncate", "write"} => done = 0
  /\ target = "here" => exists /\ conf.hooks # "here"

\* The two ways most steps go: the command ends, or it goes on with what it has.
Ending ==
  /\ \E how \in Exits : Ends(how)
  /\ record' = record
  /\ exists => exists'

Going ==
  /\ pc \notin {"idle", "write"} /\ pc' \notin {"idle", "write"}
  /\ pc \in DeployStages <=> pc' \in DeployStages
  /\ pc' \notin {"show", "bind_token", "truncate"} => done' = done
  /\ pc \in {"show", "bind_token", "truncate"} => pc' \in {"show", "bind_token", "truncate"}
  /\ UNCHANGED <<record, exists, conf, target>>

LEMMA EndingKeepsRecord ==
  ASSUME RecordInv, Ending
  PROVE  RecordInv'
<1>1. pc' = "idle" /\ target' = None /\ done' = 0
  BY DEF Ending, Ends
<1>2. None # "here"
  BY NoneIsNothing DEF Places
<1> QED  BY <1>1, <1>2 DEF RecordInv, Ending, DeployStages

LEMMA GoingKeepsRecord ==
  ASSUME RecordInv, Going
  PROVE  RecordInv'
  BY DEF RecordInv, Going, DeployStages

\* The stages before a deployment's calls, and the commands of one call.
LEMMA EarlyStepsGo ==
  ASSUME CliInv, EnsureNetwork \/ TakeSource \/ OneCallStep \/ ShowCommand \/ ResolvePolicy
  PROVE  Ending \/ Going
<1>1. CASE EnsureNetwork
  BY <1>1 DEF EnsureNetwork, Goes, job, Ending, Going, Exits, DeployStages
<1>2. CASE TakeSource
  <2>1. command.fn \in OneCallNames \cup {"deploy", "show"}
    BY <1>2, CommandFields DEF TakeSource, CliInv, JobOK
  <2>2. CASE source = None
    BY <1>2, <2>2 DEF TakeSource, Ending, Exits
  <2>3. CASE source # None
    BY <1>2, <2>1, <2>3 DEF TakeSource, Goes, job, Going, DeployStages, OneCallNames
  <2> QED  BY <2>2, <2>3
<1>3. CASE OneCallStep
  BY <1>3, OneCallForm DEF CliInv, CallEnds, Ending
<1>4. CASE ShowCommand
  <2>1. pc = "show" /\ UNCHANGED <<record, exists>>
    BY <1>4 DEF ShowCommand, Read, UnknownToken
  <2>2. \/ \E how \in Exits : Ends(how)
        \/ pc' = pc /\ UNCHANGED <<conf, target>>
    BY <1>4 DEF ShowCommand, Read, UnknownToken, Exits
  <2> QED  BY <2>1, <2>2 DEF Ending, Going, DeployStages
<1>5. CASE ResolvePolicy
  BY <1>5 DEF ResolvePolicy, Ending, Going, Exits, DeployStages
<1> QED  BY <1>1, <1>2, <1>3, <1>4, <1>5

\* A deployment's calls, and its end without --save.
LEMMA CallsGo ==
  ASSUME CliInv, InitializeFresh \/ ConfigureFresh \/ BindListed \/ FinishDeploy
  PROVE  Ending \/ Going
<1>1. CASE InitializeFresh
  BY <1>1, InitializeForm DEF CliInv, InitializeFresh, CallGoes, Ending, Going, DeployStages
<1>2. CASE ConfigureFresh
  BY <1>2, ConfigureFreshForm DEF CliInv, ConfigureFresh, CallGoes, Ending, Going, DeployStages
<1>3. CASE BindListed
  BY <1>3, BindListedForm DEF CliInv, BindListed, CallGoes, Ending, Going, DeployStages
<1>4. CASE FinishDeploy
  BY <1>4 DEF FinishDeploy, Goes, job, Ending, Going, Exits, DeployStages
<1> QED  BY <1>1, <1>2, <1>3, <1>4

\* Minting, emptying the file and writing it change what RecordInv speaks of.
LEMMA MintKeepsRecord ==
  ASSUME CliInv, RecordInv, DeployHooks
  PROVE  RecordInv'
<1>1. pc = "deploy" /\ record = conf /\ conf \in OurRecords
  BY DEF DeployHooks, RecordInv, CliInv, JobOK
<1>2. ASSUME NEW where \in Places, Mints(where)
      PROVE  RecordInv'
  <2>1. exists => exists'
    BY <1>2 DEF Mints
  <2>2. CASE Ends("unknown")
    BY <2>1, <2>2, EndingKeepsRecord DEF Ending, Exits, DeployHooks
  <2>3. CASE ~ Ends("unknown")
    <3>1. pc' = "policy" /\ target' = where /\ conf' = conf /\ done' = done /\ record' = record
      BY <1>2, <2>3 DEF Mints, DeployHooks
    <3>2. where = "here" => exists' /\ ~ exists
      BY <1>2 DEF Mints
    <3>3. where = "here" => conf.hooks # "here"
      BY <1>1, <3>2, NoneIsNothing DEF RecordInv
    <3> QED  BY <1>1, <2>1, <3>1, <3>2, <3>3 DEF RecordInv, DeployStages
  <2> QED  BY <2>2, <2>3
<1>3. CASE UNCHANGED exists /\ (Ends("failed") \/ Ends("unknown"))
  BY <1>3, EndingKeepsRecord DEF Ending, Exits, DeployHooks
<1> QED  BY <1>2, <1>3 DEF DeployHooks

LEMMA SavingKeepsRecord ==
  ASSUME CliInv, RecordInv, TruncateRecord \/ WriteRecord
  PROVE  RecordInv'
<1>1. CASE TruncateRecord
  <2>1. CASE Ends("failed") /\ record' = record
    BY <1>1, <2>1, EndingKeepsRecord DEF Ending, Exits, TruncateRecord
  <2>2. CASE Goes("write") /\ record' = None
    BY <1>1, <2>2 DEF TruncateRecord, Goes, job, RecordInv, DeployStages
  <2> QED  BY <1>1, <2>1, <2>2 DEF TruncateRecord
<1>2. CASE WriteRecord
  <2>1. CASE Ends("failed") /\ record' = record
    BY <1>2, <2>1, EndingKeepsRecord DEF Ending, Exits, WriteRecord
  <2>2. CASE Ends("ok") /\ record' = UpdatedRecord
    <3>1. UpdatedRecord.hooks = target
      BY <1>2 DEF WriteRecord, UpdatedRecord, CliInv, JobOK, OurRecords, Records
    <3>2. pc' = "idle" /\ target' = None /\ done' = 0 /\ exists' = exists
      BY <1>2, <2>2 DEF WriteRecord, Ends
    <3>3. None # "here"
      BY NoneIsNothing DEF Places
    <3> QED  BY <2>2, <3>1, <3>2, <3>3 DEF RecordInv, DeployStages
  <2> QED  BY <1>2, <2>1, <2>2 DEF WriteRecord
<1> QED  BY <1>1, <1>2

LEMMA StepRecordInv ==
  ASSUME CliInv, RecordInv, [CliNext]_<<vars, cliVars>>
  PROVE  RecordInv'
<1>1. CASE UNCHANGED <<vars, cliVars>>
  BY <1>1 DEF RecordInv, cliVars, job
<1>2. CASE CommandStep
  BY <1>2, EarlyStepsGo, CallsGo, EndingKeepsRecord, GoingKeepsRecord, MintKeepsRecord,
     SavingKeepsRecord DEF CommandStep, DeployStep
<1>3. CASE OperatorStep
  <2>1. pc = "idle" /\ target = None /\ done = 0 /\ UNCHANGED <<record, exists, target, done>>
    BY <1>3 DEF OperatorStep, StartUnreadable, Start, job, RecordInv, DeployStages
  <2>2. \/ pc' = "idle"
        \/ pc' = "network" /\ conf' = record
    BY <1>3, <2>1 DEF OperatorStep, StartUnreadable, Start
  <2>3. None # "here"
    BY NoneIsNothing DEF Places
  <2> QED  BY <2>1, <2>2, <2>3 DEF RecordInv, DeployStages
<1>4. CASE Kill
  BY <1>4, EndingKeepsRecord DEF Kill, Ending, Exits
<1>5. CASE OtherStep
  BY <1>5 DEF OtherStep, RecordInv, job
<1> QED  BY <1>1, <1>2, <1>3, <1>4, <1>5 DEF CliNext

LEMMA InitRecordInv ==
  ASSUME CliInit
  PROVE  RecordInv
<1>1. record.hooks = "elsewhere" /\ None # "here"
  BY CLIAssumption, NoneIsNothing DEF CliInit, Places
<1> QED  BY <1>1 DEF CliInit, RecordInv, DeployStages
-----------------------------------------------------------------------------
(* The calls of the commands: what the contract does to them. *)

\* A call that is refused changes nothing.
LEMMA RefusedLeaves ==
  ASSUME NEW signer, NEW a, NEW p, NEW b, NEW t, NEW s, tx'.result # Allow,
         \/ Initialize(signer, a)
         \/ SetConfig(signer, p, b)
         \/ BindToken(signer, t, s)
         \/ UnbindToken(signer, t)
         \/ Freeze(signer, t, a)
         \/ Unfreeze(signer, t, a)
  PROVE  UNCHANGED store
<1>1. \A fn, event : ~ Commits(fn, event)
  BY DEF Commits
<1> QED  BY <1>1, Zenon DEF Initialize, SetConfig, BindToken, UnbindToken, Freeze, Unfreeze,
                     Rejects, Leaves

\* What an accepted call does to the storage, whether or not it had to.
LEMMA AcceptedBind ==
  ASSUME TypeOK, NEW signer, NEW t \in Tokens, NEW s,
         BindToken(signer, t, s), tx'.result = Allow
  PROVE  /\ signer = admin
         /\ binding' = [binding EXCEPT ![t] = [sac |-> s]]
         /\ UNCHANGED <<admin, config, frozen>>
<1>1. signer = admin
  BY GatePassed DEF BindToken, Rejects, Leaves
<1>2. CASE SameBinding(t, s) /\ UNCHANGED store
  BY <1>1, <1>2 DEF SameBinding, TypeOK, store
<1>3. CASE StoreBinding(t, s) /\ UNCHANGED <<admin, config, frozen>>
  BY <1>1, <1>3 DEF StoreBinding
<1> QED  BY <1>2, <1>3 DEF BindToken, Rejects, Leaves, Allow

LEMMA AcceptedUnbind ==
  ASSUME TypeOK, NEW signer, NEW t \in Tokens, UnbindToken(signer, t), tx'.result = Allow
  PROVE  /\ signer = admin
         /\ binding'[t] = None
<1>1. signer = admin
  BY GatePassed DEF UnbindToken, Rejects, Leaves
<1>2. CASE ~ IsTokenBound(t) /\ UNCHANGED store
  BY <1>1, <1>2 DEF IsTokenBound, store
<1>3. CASE RemoveBinding(t)
  BY <1>1, <1>3 DEF RemoveBinding, TypeOK
<1> QED  BY <1>2, <1>3 DEF UnbindToken, Rejects, Leaves, Allow

LEMMA AcceptedFreeze ==
  ASSUME NEW signer, NEW t, NEW a, tx'.result = Allow,
         Freeze(signer, t, a) \/ Unfreeze(signer, t, a)
  PROVE  /\ signer = admin /\ config # None /\ IsTokenBound(t)
         /\ UNCHANGED <<admin, config, binding>>
         /\ Freeze(signer, t, a) => <<t, a>> \in frozen'
         /\ Unfreeze(signer, t, a) => <<t, a>> \notin frozen'
<1>1. signer = admin /\ config # None /\ IsTokenBound(t)
  BY GatesDecide DEF Freeze, Unfreeze, Rejects, Leaves
<1>2. /\ UNCHANGED <<admin, config, binding>>
      /\ Freeze(signer, t, a) => <<t, a>> \in frozen'
  BY DEF Freeze, Unfreeze, Rejects, Leaves, store, IsFrozen, FreezeAccount, Allow
<1>3. Unfreeze(signer, t, a) => <<t, a>> \notin frozen'
  BY DEF Unfreeze, Rejects, Leaves, store, IsFrozen, UnfreezeAccount, Allow
<1> QED  BY <1>1, <1>2, <1>3

\* The call of the running command of one transaction.
ConfiguredPassthrough == ValueOr(command.sac, conf.sacPassthrough)

BoundSac == ValueOr(command.sac, SacFor(conf, command.token))

Call ==
  \/ pc = "init" /\ Initialize(source, conf.admin)
  \/ pc = "configure" /\ SetConfig(source, ConfiguredPolicy, ConfiguredPassthrough)
  \/ /\ TokenMeant \in Tokens
     /\ \/ pc = "bind" /\ BindToken(source, TokenMeant, BoundSac)
        \/ pc = "unbind" /\ UnbindToken(source, TokenMeant)
        \/ pc = "freeze" /\ Freeze(source, TokenMeant, command.account)
        \/ pc = "unfreeze" /\ Unfreeze(source, TokenMeant, command.account)

\* How it can go: it is not sent, it goes to another contract, or it is
\* accepted or refused here.
CallOutcome ==
  \/ UNCHANGED <<vars, applied>> /\ exit' # "rejected"
  \/ conf.hooks # "here" /\ UNCHANGED vars
  \/ conf.hooks = "here" /\ Call /\ tx'.result = Allow /\ exit' # "rejected"
  \/ conf.hooks = "here" /\ Call /\ tx'.result # Allow /\ UNCHANGED applied

LEMMA OneCallOutcome ==
  ASSUME OneCallStep
  PROVE  CallOutcome
<1>1. \A how : Ends(how) => exit' = how
  BY DEF Ends
<1>2. /\ "ok" # "rejected" /\ "unknown" # "rejected" /\ "failed" # "rejected"
  OBVIOUS
<1> HIDE DEF Ends
<1>3. CASE UnknownToken
  BY <1>1, <1>2, <1>3, Zenon DEF UnknownToken, CallOutcome
<1>4. CASE InitCommand
  BY <1>1, <1>2, <1>4, Zenon
     DEF InitCommand, InvokeAndEnd, InvokeFails, Applied, Reverted, CallOutcome, Call
<1>5. CASE ConfigureCommand
  BY <1>1, <1>2, <1>5, Zenon
     DEF ConfigureCommand, InvokeAndEnd, InvokeFails, Applied, Reverted, CallOutcome, Call,
         ConfiguredPassthrough
<1>6. CASE BindCommand /\ ~ UnknownToken
  BY <1>1, <1>2, <1>6, Zenon
     DEF BindCommand, InvokeAndEnd, InvokeFails, Applied, Reverted, CallOutcome, Call, BoundSac
<1>7. CASE UnbindCommand /\ ~ UnknownToken
  BY <1>1, <1>2, <1>7, Zenon
     DEF UnbindCommand, InvokeAndEnd, InvokeFails, Applied, Reverted, CallOutcome, Call
<1>8. CASE FreezeCommand /\ ~ UnknownToken
  BY <1>1, <1>2, <1>8, Zenon
     DEF FreezeCommand, InvokeAndEnd, InvokeFails, Applied, Reverted, CallOutcome, Call
<1>9. CASE UnfreezeCommand /\ ~ UnknownToken
  BY <1>1, <1>2, <1>9, Zenon
     DEF UnfreezeCommand, InvokeAndEnd, InvokeFails, Applied, Reverted, CallOutcome, Call
<1> QED  BY <1>3, <1>4, <1>5, <1>6, <1>7, <1>8, <1>9 DEF OneCallStep

LEMMA RefusedCall ==
  ASSUME Call, tx'.result # Allow
  PROVE  UNCHANGED store
  BY RefusedLeaves DEF Call

\* The call of a deployment, stage by stage, and how it can go.
StageCall ==
  \/ pc = "initialize" /\ Initialize(source, conf.admin)
  \/ pc = "set_config" /\ SetConfig(source, policy, DeployedPassthrough)
  \/ /\ pc = "bind_token" /\ done < Len(conf.tokens)
     /\ BindToken(source, conf.tokens[done + 1].id, conf.tokens[done + 1].sac)

StageOutcome ==
  \/ UNCHANGED vars /\ pc' = "idle" /\ exit' # "rejected"
  \/ target # "here" /\ UNCHANGED vars
  \/ target = "here" /\ StageCall /\ tx'.result = Allow
     /\ (pc' = "idle" => exit' # "rejected")
  \/ target = "here" /\ StageCall /\ tx'.result # Allow /\ pc' = "idle"

LEMMA DeployCallOutcome ==
  ASSUME InitializeFresh \/ ConfigureFresh \/ BindListed
  PROVE  StageOutcome
<1>1. \A how : Ends(how) => exit' = how /\ pc' = "idle"
  BY DEF Ends
<1>2. /\ "unknown" # "rejected" /\ "set_config" # "idle" /\ "bind_token" # "idle"
  OBVIOUS
<1> HIDE DEF Ends
<1>3. CASE InitializeFresh
  BY <1>1, <1>2, <1>3, Zenon
     DEF InitializeFresh, InvokeAndGo, InvokeFails, Applied, Reverted, StageOutcome, StageCall
<1>4. CASE ConfigureFresh
  BY <1>1, <1>2, <1>4, Zenon
     DEF ConfigureFresh, InvokeAndGo, InvokeFails, Applied, Reverted, StageOutcome, StageCall
<1>5. CASE BindListed
  BY <1>1, <1>2, <1>5, Zenon
     DEF BindListed, InvokeAndGo, InvokeFails, Applied, Reverted, StageOutcome, StageCall
<1> QED  BY <1>3, <1>4, <1>5

LEMMA RefusedStage ==
  ASSUME StageCall, tx'.result # Allow
  PROVE  UNCHANGED store
  BY RefusedLeaves DEF StageCall
-----------------------------------------------------------------------------
(***************************************************************************)
(* The record and the contract it describes.  As long as nobody changes    *)
(* the contract other than as recorded, a deployment that has come past    *)
(* its configuration has done what the record it will write says: the      *)
(* configuration it was asked for and the tokens listed so far.            *)
(***************************************************************************)
Describing(a, c, b, r) ==
  /\ a = r.admin
  /\ c = [policy |-> r.policy, sacPassthrough |-> r.sacPassthrough]
  /\ \A t \in Tokens : Listings(r, t) # {} => b[t] \in Listings(r, t)

\* The first n tokens a record lists are bound as listed.
BoundUpTo(b, r, n) ==
  \A i \in 1 .. n : b[r.tokens[i].id] \in Listings(r, r.tokens[i].id)

\* A contract whose deployment has come past its configuration.
Deploying(a, c, b) ==
  /\ a = conf.admin
  /\ c = [policy |-> policy, sacPassthrough |-> DeployedPassthrough]
  /\ done <= Len(conf.tokens)
  /\ BoundUpTo(b, conf, done)
  /\ pc # "bind_token" => done = Len(conf.tokens)

\* No token is in scope without a configuration.
InOrder(c, b) == c = None => \A t \in Tokens : b[t] = None

AgreesInv ==
  ~ drifted =>
    /\ record # None => (record.hooks = "here" => Describing(admin, config, binding, record))
    /\ pc \in {"bind_token", "truncate", "write"} /\ target = "here" =>
         Deploying(admin, config, binding)
    /\ InOrder(config, binding)

LEMMA AgreesImplies ==
  ASSUME AgreesInv
  PROVE  RecordAgrees /\ ScopeAfterConfiguration
  BY DEF AgreesInv, Describing, InOrder, RecordAgrees, Describes, ScopeAfterConfiguration,
         IsTokenBound

\* A step that leaves the contract and the record alone, or empties the record.
LEMMA StillAgrees ==
  ASSUME AgreesInv, UNCHANGED store, ~ drifted' => ~ drifted,
         record' \in {record, None},
         \/ pc' \notin {"bind_token", "truncate", "write"} \/ target' # "here"
         \/ /\ pc \in {"bind_token", "truncate", "write"}
            /\ UNCHANGED <<command, conf, target, policy, done>>
            /\ pc' = pc \/ pc # "bind_token" \/ done = Len(conf.tokens)
  PROVE  AgreesInv'
<1> SUFFICES ASSUME ~ drifted'
             PROVE  /\ record' # None =>
                         (record'.hooks = "here" => Describing(admin', config', binding', record'))
                    /\ pc' \in {"bind_token", "truncate", "write"} /\ target' = "here" =>
                         Deploying(admin, config, binding)'
                    /\ InOrder(config', binding')
  BY DEF AgreesInv, InOrder, Describing, Listings
<1>1. /\ admin' = admin /\ config' = config /\ binding' = binding
      /\ InOrder(config, binding)
      /\ record # None => (record.hooks = "here" => Describing(admin, config, binding, record))
      /\ pc \in {"bind_token", "truncate", "write"} /\ target = "here" =>
           Deploying(admin, config, binding)
  BY DEF AgreesInv, store
<1>2. ASSUME pc' \in {"bind_token", "truncate", "write"}, target' = "here"
      PROVE  Deploying(admin, config, binding)'
  <2>1. Deploying(admin, config, binding)
    BY <1>1, <1>2
  <2>2. DeployedPassthrough' = DeployedPassthrough
    BY <1>2 DEF DeployedPassthrough, ValueOr
  <2>3. BoundUpTo(binding, conf, done)' <=> BoundUpTo(binding, conf, done)
    BY <1>1, <1>2 DEF BoundUpTo, Listings
  <2> QED  BY <1>1, <1>2, <2>1, <2>2, <2>3 DEF Deploying
<1>3. record' = record \/ record' = None
  OBVIOUS
<1> HIDE DEF Describing, Deploying, InOrder
<1> QED  BY <1>1, <1>2, <1>3

\* A call that follows the record keeps the contract as the record has it.
LEMMA ListedSac ==
  ASSUME NEW r \in OurRecords, NEW arg, Named(r, arg) # {}
  PROVE  [sac |-> SacFor(r, arg)] \in Listings(r, ResolveToken(r, arg))
<1>1. PICK i \in DOMAIN r.tokens : TokenNamed(r, arg) = r.tokens[i]
  BY NamedIsListed
<1>2. SacFor(r, arg) = r.tokens[i].sac /\ ResolveToken(r, arg) = r.tokens[i].id
  BY <1>1 DEF SacFor, ResolveToken
<1> QED  BY <1>2 DEF Listings

LEMMA FollowingCall ==
  ASSUME CliInv, Call, tx'.result = Allow, FollowsRecord,
         Describing(admin, config, binding, conf)
  PROVE  Describing(admin', config', binding', conf)
<1>1. /\ conf \in OurRecords /\ command \in Commands /\ source \in Signers /\ TypeOK
      /\ pc \in OneCallNames /\ command.fn = pc
  BY DEF Call, CliInv, JobOK, OneCallNames
<1>2. CASE pc = "init" /\ Initialize(source, conf.admin)
  <2>1. UNCHANGED <<admin, config, binding>> \/ admin = None
    BY <1>2 DEF Initialize, Leaves, store
  <2>2. admin # None
    BY <1>1, RecordFields, NoneAssumption DEF Describing
  <2> QED  BY <2>1, <2>2 DEF Describing
<1>3. CASE pc = "configure" /\ SetConfig(source, ConfiguredPolicy, ConfiguredPassthrough)
  <2>1. command.policy = None /\ ~ command.noPolicy /\ command.sac = None
    BY <1>3 DEF FollowsRecord
  <2>2. ConfiguredPolicy = conf.policy /\ ConfiguredPassthrough = conf.sacPassthrough
    BY <2>1 DEF ConfiguredPolicy, ConfiguredPassthrough, ValueOr
  <2> QED  BY <1>3, <2>2, AcceptedRewrite DEF Describing
<1>4. CASE pc = "bind" /\ TokenMeant \in Tokens /\ BindToken(source, TokenMeant, BoundSac)
  <2>1. command.sac = None /\ Named(conf, command.token) # {}
    BY <1>4 DEF FollowsRecord
  <2>2. [sac |-> BoundSac] \in Listings(conf, TokenMeant)
    BY <1>1, <2>1, ListedSac DEF BoundSac, ValueOr, TokenMeant
  <2>3. /\ binding' = [binding EXCEPT ![TokenMeant] = [sac |-> BoundSac]]
        /\ UNCHANGED <<admin, config>>
    BY <1>1, <1>4, AcceptedBind
  <2>4. \A t \in Tokens : binding'[t] = IF t = TokenMeant THEN [sac |-> BoundSac] ELSE binding[t]
    BY <1>1, <2>3 DEF TypeOK
  <2> QED  BY <2>2, <2>3, <2>4 DEF Describing
<1>5. pc # "unbind"
  BY DEF FollowsRecord
<1>6. CASE TokenMeant \in Tokens
           /\ (Freeze(source, TokenMeant, command.account)
                 \/ Unfreeze(source, TokenMeant, command.account))
  BY <1>6, AcceptedFreeze DEF Describing
<1> QED  BY <1>2, <1>3, <1>4, <1>5, <1>6 DEF Call

\* The contract has not drifted if it has not yet, or if the step follows the record.
LEMMA NotDrifted ==
  ASSUME CommandStep, ~ drifted'
  PROVE  ~ drifted /\ (UNCHANGED store \/ FollowsRecord)
  BY Zenon DEF CommandStep

LEMMA OneCallAgrees ==
  ASSUME CliInv, RecordInv, AgreesInv, CommandStep, OneCallStep
  PROVE  AgreesInv'
<1>1. /\ UNCHANGED record /\ pc' = "idle"
      /\ pc \in OneCallNames /\ conf \in OurRecords /\ TypeOK
  <2>1. CallEnds
    BY OneCallForm DEF CliInv
  <2> QED  BY <2>1, OneCallStage DEF CallEnds, Ends, CliInv
<1>2. CASE UNCHANGED store
  BY <1>1, <1>2, NotDrifted, StillAgrees
<1>3. CASE drifted'
  BY <1>3 DEF AgreesInv
<1>4. CASE ~ UNCHANGED store /\ ~ drifted'
  <2>1. conf.hooks = "here" /\ Call /\ tx'.result = Allow
    BY <1>4, OneCallOutcome, RefusedCall DEF CallOutcome, vars
  <2>2. record = conf /\ record # None /\ FollowsRecord /\ ~ drifted
    BY <1>1, <1>4, NotDrifted, NoneIsNothing DEF RecordInv, OneCallNames
  <2>3. Describing(admin, config, binding, conf)
    BY <2>1, <2>2 DEF AgreesInv
  <2>4. Describing(admin', config', binding', conf)
    BY <2>1, <2>2, <2>3, FollowingCall
  <2>5. config' # None
    BY <1>1, <2>4, RecordFields, NoneAssumption DEF Describing, Configs, Option
  <2>6. Describing(admin, config, binding, record)'
    BY <1>1, <2>2, <2>4 DEF Describing, Listings
  <2> QED  BY <1>1, <2>5, <2>6 DEF AgreesInv, InOrder
<1> QED  BY <1>2, <1>3, <1>4

\* The calls of a deployment.
LEMMA InitializeAgrees ==
  ASSUME CliInv, RecordInv, AgreesInv, CommandStep, InitializeFresh
  PROVE  AgreesInv'
<1>1. /\ UNCHANGED record /\ pc = "initialize"
      /\ pc' \notin {"bind_token", "truncate", "write"}
  BY InitializeForm DEF CliInv, CallGoes, Ends, InitializeFresh
<1>2. CASE UNCHANGED store
  BY <1>1, <1>2, NotDrifted, StillAgrees
<1>3. CASE ~ UNCHANGED store
  <2>1. target = "here" /\ Initialize(source, conf.admin)
    BY <1>1, <1>3, DeployCallOutcome, RefusedStage DEF StageOutcome, StageCall, vars
  <2>2. record = conf /\ conf.hooks # "here"
    BY <1>1, <2>1 DEF RecordInv
  <2>3. UNCHANGED <<config, binding>>
    BY <2>1 DEF Initialize, Leaves, store
  <2> QED  BY <1>1, <2>2, <2>3, NotDrifted DEF AgreesInv, InOrder
<1> QED  BY <1>2, <1>3

LEMMA ConfigureAgrees ==
  ASSUME CliInv, RecordInv, OursInv, AgreesInv, CommandStep, ConfigureFresh
  PROVE  AgreesInv'
<1>1. /\ UNCHANGED record /\ pc = "set_config" /\ conf \in OurRecords
      /\ CallGoes("bind_token", done)
  BY ConfigureFreshForm DEF CliInv, JobOK, CallGoes, ConfigureFresh
<1>2. policy \in Policies \cup {None} /\ DeployedPassthrough \in BOOLEAN
  BY <1>1, DeployedConfig DEF CliInv, DeployStages
<1>3. pc' = "idle" \/ (pc' = "bind_token" /\ UNCHANGED <<command, conf, target, policy, done>>)
  BY <1>1 DEF CallGoes, Ends
<1>4. CASE UNCHANGED store /\ (pc' = "idle" \/ target # "here")
  BY <1>1, <1>3, <1>4, NotDrifted, StillAgrees
<1>5. CASE target = "here" /\ StageCall /\ tx'.result = Allow
  <2>1. /\ config' = [policy |-> policy, sacPassthrough |-> DeployedPassthrough]
        /\ UNCHANGED <<admin, binding>>
    BY <1>1, <1>5, AcceptedRewrite DEF StageCall
  <2>2. config' # None
    BY <1>2, <2>1, NoneAssumption DEF Configs
  <2>3. record' = conf /\ conf.hooks # "here"
    BY <1>1, <1>5 DEF RecordInv
  <2>4. Deploying(admin, config, binding)' \/ pc' = "idle"
    <3>1. admin' = conf.admin /\ done = 0 /\ Len(conf.tokens) \in Nat
      BY <1>1, <1>5, <2>1, RecordFields DEF OursInv, RecordInv
    <3> QED  BY <1>3, <2>1, <3>1 DEF Deploying, BoundUpTo, DeployedPassthrough, ValueOr
  <2> QED  BY <2>2, <2>3, <2>4 DEF AgreesInv, InOrder
<1>6. \/ UNCHANGED store /\ (pc' = "idle" \/ target # "here")
      \/ target = "here" /\ StageCall /\ tx'.result = Allow
  BY DeployCallOutcome, RefusedStage DEF StageOutcome, vars
<1> QED  BY <1>4, <1>5, <1>6

LEMMA BindListedAgrees ==
  ASSUME CliInv, RecordInv, OursInv, AgreesInv, CommandStep, BindListed
  PROVE  AgreesInv'
<1> DEFINE token == conf.tokens[done + 1]
<1>1. /\ UNCHANGED record /\ pc = "bind_token" /\ conf \in OurRecords
      /\ done \in Nat /\ done < Len(conf.tokens) /\ TypeOK
      /\ CallGoes("bind_token", done + 1)
  BY BindListedForm DEF CliInv, JobOK, CallGoes, BindListed
<1>2. /\ conf.tokens \in Seq(ListedTokens(Tokens, Sacs)) /\ Len(conf.tokens) \in Nat
      /\ done + 1 \in DOMAIN conf.tokens
      /\ \A i \in 1 .. done + 1 : i \in DOMAIN conf.tokens
  BY <1>1, RecordFields
<1>3. token.id \in Tokens
  BY <1>1, <1>2, ListedFields
<1>4. pc' = "idle" \/ (pc' = "bind_token" /\ done' = done + 1
                        /\ UNCHANGED <<command, conf, target, policy>>)
  BY <1>1 DEF CallGoes, Ends
<1>5. CASE UNCHANGED store /\ (pc' = "idle" \/ target # "here")
  BY <1>1, <1>4, <1>5, NotDrifted, StillAgrees
<1>6. CASE target = "here" /\ StageCall /\ tx'.result = Allow
  <2> SUFFICES ASSUME ~ drifted'
               PROVE  AgreesInv'
    BY DEF AgreesInv
  <2>1. Deploying(admin, config, binding)
    BY <1>1, <1>6, NotDrifted DEF AgreesInv
  <2>2. /\ binding' = [binding EXCEPT ![token.id] = [sac |-> token.sac]]
        /\ UNCHANGED <<admin, config>>
    BY <1>1, <1>3, <1>6, AcceptedBind DEF StageCall
  <2>3. [sac |-> token.sac] \in Listings(conf, token.id)
    BY <1>2 DEF Listings
  <2>4. BoundUpTo(binding', conf, done + 1)
    <3> SUFFICES ASSUME NEW i \in 1 .. done + 1
                 PROVE  binding'[conf.tokens[i].id] \in Listings(conf, conf.tokens[i].id)
      BY DEF BoundUpTo
    <3>1. i \in DOMAIN conf.tokens /\ conf.tokens[i].id \in Tokens
      BY <1>1, <1>2, ListedFields
    <3>2. CASE conf.tokens[i].id = token.id
      <4>1. binding'[token.id] = [sac |-> token.sac]
        BY <1>1, <1>3, <2>2 DEF TypeOK
      <4> QED  BY <2>3, <3>2, <4>1
    <3>3. CASE conf.tokens[i].id # token.id
      <4>1. i \in 1 .. done
        BY <1>1, <3>3
      <4>2. binding'[conf.tokens[i].id] = binding[conf.tokens[i].id]
        BY <1>1, <2>2, <3>1, <3>3 DEF TypeOK
      <4> QED  BY <2>1, <4>1, <4>2 DEF Deploying, BoundUpTo
    <3> QED  BY <3>2, <3>3
  <2>5. record' = conf /\ conf.hooks # "here"
    BY <1>1, <1>6 DEF RecordInv
  <2>6. config' # None
    BY <1>1, <1>6, <2>2 DEF OursInv, Ours
  <2>7. Deploying(admin, config, binding)' \/ pc' = "idle"
    <3>1. CASE pc' = "bind_token" /\ done' = done + 1
               /\ UNCHANGED <<command, conf, target, policy>>
      <4>1. BoundUpTo(binding, conf, done)'
        BY <2>4, <3>1 DEF BoundUpTo, Listings
      <4>2. done' <= Len(conf'.tokens)
        BY <1>1, <1>2, <3>1
      <4> QED  BY <2>1, <2>2, <3>1, <4>1, <4>2 DEF Deploying, DeployedPassthrough, ValueOr
    <3> QED  BY <1>4, <3>1
  <2> QED  BY <2>5, <2>6, <2>7 DEF AgreesInv, InOrder
<1>7. \/ UNCHANGED store /\ (pc' = "idle" \/ target # "here")
      \/ target = "here" /\ StageCall /\ tx'.result = Allow
  BY DeployCallOutcome, RefusedStage DEF StageOutcome, vars
<1> QED  BY <1>5, <1>6, <1>7

\* The record that is written describes the contract that was deployed.
LEMMA WriteAgrees ==
  ASSUME CliInv, AgreesInv, CommandStep, WriteRecord
  PROVE  AgreesInv'
<1>1. /\ pc = "write" /\ pc' = "idle" /\ UNCHANGED store /\ conf \in OurRecords
  BY DEF WriteRecord, Ends, vars, CliInv, JobOK
<1>2. CASE record' = record
  BY <1>1, <1>2, NotDrifted, StillAgrees
<1>3. CASE record' = UpdatedRecord
  <2> SUFFICES ASSUME ~ drifted', UpdatedRecord.hooks = "here"
               PROVE  Describing(admin', config', binding', UpdatedRecord)
    <3>1. ~ drifted' => InOrder(config', binding')
      BY <1>1, NotDrifted DEF AgreesInv, InOrder, store
    <3>2. Describing(admin, config, binding, record)'
            <=> Describing(admin', config', binding', UpdatedRecord)
      BY <1>3 DEF Describing, Listings
    <3> QED  BY <1>1, <1>3, <3>1, <3>2 DEF AgreesInv, InOrder
  <2>1. /\ UpdatedRecord.hooks = target /\ UpdatedRecord.policy = policy
        /\ UpdatedRecord.sacPassthrough = DeployedPassthrough
        /\ UpdatedRecord.admin = conf.admin /\ UpdatedRecord.tokens = conf.tokens
    BY <1>1 DEF UpdatedRecord, OurRecords, Records
  <2>2. Deploying(admin, config, binding) /\ done = Len(conf.tokens)
    BY <1>1, <2>1, NotDrifted DEF AgreesInv, Deploying
  <2>3. \A t : Listings(UpdatedRecord, t) = Listings(conf, t)
    BY <2>1 DEF Listings
  <2>4. ASSUME NEW t \in Tokens, Listings(conf, t) # {}
        PROVE  binding[t] \in Listings(conf, t)
    <3>1. PICK i \in DOMAIN conf.tokens : conf.tokens[i].id = t
      BY <2>4 DEF Listings
    <3>2. conf.tokens \in Seq(ListedTokens(Tokens, Sacs))
      BY <1>1, RecordFields
    <3>3. i \in 1 .. done
      BY <2>2, <3>1, <3>2
    <3> QED  BY <2>2, <3>1, <3>3 DEF Deploying, BoundUpTo
  <2>5. admin' = admin /\ config' = config /\ binding' = binding
    BY <1>1 DEF store
  <2> QED  BY <2>1, <2>2, <2>3, <2>4, <2>5 DEF Describing, Deploying
<1> QED  BY <1>2, <1>3 DEF WriteRecord

LEMMA StepAgrees ==
  ASSUME CliInv, RecordInv, OursInv, AgreesInv, [CliNext]_<<vars, cliVars>>
  PROVE  AgreesInv'
<1> DEFINE late == {"bind_token", "truncate", "write"}
<1>1. CASE UNCHANGED <<vars, cliVars>>
  BY <1>1, StillAgrees DEF vars, cliVars, job
<1>2. CASE CommandStep
  <2>1. CASE EnsureNetwork \/ ShowCommand \/ DeployHooks \/ ResolvePolicy
    <3>1. pc' \notin late
      BY <2>1 DEF EnsureNetwork, Goes, Ends, ShowCommand, Read, UnknownToken, DeployHooks,
                  Mints, ResolvePolicy
    <3>2. UNCHANGED <<vars, record>>
      BY <2>1 DEF EnsureNetwork, ShowCommand, Read, UnknownToken, DeployHooks, ResolvePolicy
    <3> QED  BY <1>2, <3>1, <3>2, NotDrifted, StillAgrees DEF vars
  <2>2. CASE TakeSource
    <3>1. pc' \notin late
      <4>1. command.fn \in OneCallNames \cup {"deploy", "show"}
        BY <2>2, CommandFields DEF TakeSource, CliInv, JobOK
      <4> QED  BY <2>2, <4>1 DEF TakeSource, Goes, Ends, OneCallNames
    <3> QED  BY <1>2, <2>2, <3>1, NotDrifted, StillAgrees DEF TakeSource, vars
  <2>3. CASE FinishDeploy
    <3>1. pc' = "idle" \/ UNCHANGED <<command, conf, target, policy, done>>
      BY <2>3 DEF FinishDeploy, Goes, Ends, job
    <3> QED  BY <1>2, <2>3, <3>1, NotDrifted, StillAgrees DEF FinishDeploy, vars
  <2>4. CASE TruncateRecord
    <3>1. pc' = "idle" \/ UNCHANGED <<command, conf, target, policy, done>>
      BY <2>4 DEF TruncateRecord, Goes, Ends, job
    <3> QED  BY <1>2, <2>4, <3>1, NotDrifted, StillAgrees DEF TruncateRecord, vars
  <2> QED  BY <1>2, <2>1, <2>2, <2>3, <2>4, OneCallAgrees, InitializeAgrees, ConfigureAgrees,
              BindListedAgrees, WriteAgrees DEF CommandStep, DeployStep
<1>3. CASE OperatorStep
  <2>1. pc' \notin late /\ UNCHANGED <<vars, record, drifted>>
    BY <1>3 DEF OperatorStep, StartUnreadable, Start
  <2> QED  BY <2>1, StillAgrees DEF vars
<1>4. CASE Kill
  BY <1>4, StillAgrees DEF Kill, Ends, vars
<1>5. CASE OtherStep
  <2>1. ~ drifted' => ~ drifted /\ UNCHANGED store
    BY <1>5, Zenon DEF OtherStep
  <2>2. CASE drifted'
    BY <2>2 DEF AgreesInv
  <2> QED  BY <1>5, <2>1, <2>2, StillAgrees DEF OtherStep, job
<1> QED  BY <1>1, <1>2, <1>3, <1>4, <1>5 DEF CliNext

LEMMA InitAgrees ==
  ASSUME CliInit
  PROVE  AgreesInv
<1>1. record.hooks = "elsewhere" /\ pc = "idle" /\ \A t \in Tokens : binding[t] = None
  BY CLIAssumption DEF CliInit, InitFresh
<1> QED  BY <1>1 DEF AgreesInv, InOrder

\* What holds together of every run.
CliTogether == CliInv /\ RecordInv /\ OursInv /\ AgreesInv

LEMMA AlwaysTogether == CliSpec => []CliTogether
<1>1. CliInit => CliTogether
  BY InitCliInv, InitRecordInv, InitOurs, InitAgrees DEF CliTogether
<1>2. CliTogether /\ [CliNext]_<<vars, cliVars>> => CliTogether'
  BY StepCliInv, StepRecordInv, StepOurs, StepAgrees DEF CliTogether
<1> QED  BY <1>1, <1>2, PTL DEF CliSpec

(***************************************************************************)
(* A record that names the contract describes it, until somebody changes   *)
(* the contract other than as recorded: for any number of listed tokens,   *)
(* listed in any way, and wherever a call failed, its answer was lost or   *)
(* the process was killed.                                                 *)
(***************************************************************************)
THEOREM RecordsAgree == CliSpec => []RecordAgrees
<1>1. CliTogether => RecordAgrees
  BY AgreesImplies DEF CliTogether
<1> QED  BY <1>1, AlwaysTogether, PTL

(***************************************************************************)
(* A deployment that is cut off anywhere leaves no token in scope of a     *)
(* contract that has no configuration yet.                                 *)
(***************************************************************************)
THEOREM ScopeFollowsConfiguration == CliSpec => []ScopeAfterConfiguration
<1>1. CliTogether => ScopeAfterConfiguration
  BY AgreesImplies DEF CliTogether
<1> QED  BY <1>1, AlwaysTogether, PTL
-----------------------------------------------------------------------------
(***************************************************************************)
(* A deployment nobody interferes with.  Until its initialize the contract *)
(* is as it came into the world, and until its set_config it has no        *)
(* configuration, so that neither call finds anything in its way.          *)
(***************************************************************************)
Pristine(a, c, v) == a = None /\ c = None /\ v = 0

FreshInv ==
  /\ ~ exists => Pristine(admin, config, configVersion)
  /\ others = 0 /\ pc \in {"policy", "initialize"} /\ target = "here" =>
       Pristine(admin, config, configVersion)
  /\ others = 0 /\ pc = "set_config" /\ target = "here" =>
       config = None /\ configVersion = 0

\* A step that leaves a contract alone, and begins no stage before set_config.
LEMMA StillFresh ==
  ASSUME FreshInv, UNCHANGED store, exists => exists', others' = 0 => others = 0,
         \/ pc' \notin {"policy", "initialize", "set_config"} \/ target' # "here"
         \/ UNCHANGED <<pc, target>>
         \/ pc = "policy" /\ pc' = "initialize" /\ UNCHANGED target
  PROVE  FreshInv'
  BY DEF FreshInv, Pristine, store

LEMMA InitializeFreshens ==
  ASSUME CliInv, RecordInv, FreshInv, InitializeFresh
  PROVE  FreshInv'
<1>1. pc = "initialize" /\ CallGoes("set_config", done)
  BY InitializeForm DEF CliInv, InitializeFresh
<1>2. UNCHANGED <<exists, others>>
      /\ (pc' = "idle" \/ (pc' = "set_config" /\ target' = target))
  BY <1>1 DEF CallGoes, Ends
<1>3. CASE UNCHANGED store /\ (pc' = "idle" \/ target # "here")
  BY <1>2, <1>3, StillFresh
<1>4. CASE target = "here" /\ StageCall /\ tx'.result = Allow
  <2>1. exists
    BY <1>4 DEF RecordInv
  <2>2. UNCHANGED <<config, configVersion>>
    BY <1>1, <1>4 DEF StageCall, Initialize, Leaves, store
  <2> QED  BY <1>1, <1>2, <1>4, <2>1, <2>2 DEF FreshInv, Pristine
<1>5. \/ UNCHANGED store /\ (pc' = "idle" \/ target # "here")
      \/ target = "here" /\ StageCall /\ tx'.result = Allow
  BY DeployCallOutcome, RefusedStage DEF StageOutcome, vars
<1> QED  BY <1>3, <1>4, <1>5

LEMMA StepFresh ==
  ASSUME CliInv, RecordInv, FreshInv, [CliNext]_<<vars, cliVars>>
  PROVE  FreshInv'
<1> DEFINE early == {"policy", "initialize", "set_config"}
<1>1. CASE UNCHANGED <<vars, cliVars>>
  BY <1>1, StillFresh DEF vars, cliVars, job
<1>2. CASE EnsureNetwork \/ TakeSource \/ ShowCommand \/ FinishDeploy \/ TruncateRecord
             \/ WriteRecord
  <2>1. UNCHANGED <<vars, exists, others>>
    BY <1>2 DEF EnsureNetwork, TakeSource, ShowCommand, Read, UnknownToken, FinishDeploy,
                TruncateRecord, WriteRecord
  <2>2. pc' \notin early
    <3>1. TakeSource => command.fn \in OneCallNames \cup {"deploy", "show"}
      BY CommandFields DEF TakeSource, CliInv, JobOK
    <3> QED  BY <1>2, <3>1 DEF EnsureNetwork, TakeSource, ShowCommand, Read, UnknownToken,
                FinishDeploy, TruncateRecord, WriteRecord, Goes, Ends, OneCallNames
  <2> QED  BY <2>1, <2>2, StillFresh DEF vars
<1>3. CASE OneCallStep
  <2>1. UNCHANGED <<exists, others>> /\ pc' = "idle" /\ pc \in OneCallNames
    <3>1. CallEnds
      BY <1>3, OneCallForm DEF CliInv
    <3> QED  BY <1>3, <3>1, OneCallStage DEF CallEnds, Ends, CliInv
  <2>2. CASE UNCHANGED store
    BY <2>1, <2>2, StillFresh
  <2>3. CASE ~ UNCHANGED store
    <3>1. conf.hooks = "here"
      BY <1>3, <2>3, OneCallOutcome DEF CallOutcome, vars
    <3>2. record = conf /\ record # None
      BY <1>3, <2>1, OneCallStage DEF RecordInv, CliInv, OneCallNames
    <3>3. exists
      BY <3>1, <3>2 DEF RecordInv
    <3> QED  BY <2>1, <3>3 DEF FreshInv
  <2> QED  BY <2>2, <2>3
<1>4. CASE DeployHooks
  <2>1. UNCHANGED <<vars, others>> /\ (exists => exists')
    <3>1. exists => exists'
      BY <1>4, Zenon DEF DeployHooks, Mints
    <3> QED  BY <1>4, <3>1 DEF DeployHooks
  <2>2. CASE pc' = "policy" /\ target' = "here" /\ ~ exists
    BY <2>1, <2>2 DEF FreshInv, Pristine, vars, store
  <2>3. CASE pc' \notin early \/ target' # "here"
    BY <2>1, <2>3, StillFresh DEF vars
  <2> QED  BY <1>4, <2>2, <2>3 DEF DeployHooks, Mints, Ends
<1>5. CASE ResolvePolicy
  <2>1. UNCHANGED <<vars, exists, others>> /\ pc = "policy"
        /\ (pc' = "idle" \/ (pc' = "initialize" /\ target' = target))
    BY <1>5 DEF ResolvePolicy, Ends
  <2> QED  BY <2>1, StillFresh DEF vars
<1>6. CASE ConfigureFresh \/ BindListed
  <2>1. UNCHANGED <<exists, others>> /\ pc' \in {"idle", "bind_token"}
    BY <1>6, ConfigureFreshForm, BindListedForm DEF CliInv, CallGoes, Ends
  <2>2. CASE UNCHANGED store
    BY <2>1, <2>2, StillFresh
  <2>3. CASE ~ UNCHANGED store
    <3>1. target = "here"
      BY <1>6, <2>3, DeployCallOutcome DEF StageOutcome, vars
    <3> QED  BY <2>1, <3>1 DEF FreshInv, RecordInv
  <2> QED  BY <2>2, <2>3
<1>7. CASE OperatorStep
  <2>1. UNCHANGED <<vars, exists, others>> /\ pc' \in {"idle", "network"}
    BY <1>7 DEF OperatorStep, StartUnreadable, Start
  <2> QED  BY <2>1, StillFresh DEF vars
<1>8. CASE Kill
  BY <1>8, StillFresh DEF Kill, Ends, vars
<1>9. CASE OtherStep
  <2>1. exists' /\ others \in Nat /\ others' = others + 1
    BY <1>9, CLIAssumption DEF OtherStep, CliInv, RestOK
  <2> QED  BY <2>1 DEF FreshInv
<1> QED  BY <1>1, <1>2, <1>3, <1>4, <1>5, <1>6, <1>7, <1>8, <1>9, InitializeFreshens
         DEF CliNext, CommandStep, DeployStep

LEMMA InitFreshInv ==
  ASSUME CliInit
  PROVE  FreshInv
  BY DEF CliInit, InitFresh, FreshInv, Pristine

\* The only steps a refusal ends.
LEMMA RefusedWhere ==
  ASSUME CliInv, [CliNext]_<<vars, cliVars>>, IsRefused
  PROVE  OneCallStep \/ InitializeFresh \/ ConfigureFresh \/ BindListed
<1>1. \A how : Ends(how) => exit' = how
  BY DEF Ends
<1>2. ~ (Ends("failed") \/ Ends("unknown") \/ Ends("ok") \/ Ends("killed"))
  BY <1>1 DEF IsRefused
<1>3. pc # "idle" /\ pc' = "idle"
  BY DEF IsRefused
<1> HIDE DEF Ends
<1>4. ~ (EnsureNetwork \/ TakeSource \/ ShowCommand \/ DeployHooks \/ ResolvePolicy
           \/ FinishDeploy \/ TruncateRecord \/ WriteRecord)
  <2>1. TakeSource => command.fn # "idle"
    BY CommandFields DEF TakeSource, CliInv, JobOK, OneCallNames
  <2> QED  BY <1>2, <1>3, <2>1 DEF EnsureNetwork, TakeSource, ShowCommand, Read, UnknownToken,
              DeployHooks, Mints, ResolvePolicy, FinishDeploy, TruncateRecord, WriteRecord, Goes
<1>5. ~ (OperatorStep \/ Kill \/ OtherStep \/ UNCHANGED <<vars, cliVars>>)
  BY <1>2, <1>3 DEF OperatorStep, StartUnreadable, Start, Kill, OtherStep, cliVars
<1> QED  BY <1>4, <1>5 DEF CliNext, CommandStep, DeployStep

LEMMA StepNotRefused ==
  ASSUME CliInv, RecordInv, OursInv, FreshInv, [CliNext]_<<vars, cliVars>>,
         IsRefused, target = "here", others = 0
  PROVE  source # conf.admin
<1> SUFFICES ASSUME source = conf.admin
             PROVE  FALSE
  OBVIOUS
<1>1. pc \in DeployStages
  BY NoneIsNothing DEF RecordInv, Places
<1>2. ~ OneCallStep
  BY <1>1, OneCallStage DEF CliInv, DeployStages, OneCallNames
<1>3. StageCall /\ tx'.result # Allow
  BY <1>2, RefusedWhere, DeployCallOutcome DEF StageOutcome, IsRefused
<1>4. source \in Signers /\ source # None
  BY <1>1, NoneAssumption DEF CliInv, JobOK, DeployStages
<1>5. CASE pc = "initialize"
  <2>1. admin = None
    BY <1>5 DEF FreshInv, Pristine
  <2> QED  BY <1>3, <1>5, <2>1 DEF StageCall, Initialize, Commits
<1>6. CASE pc = "set_config"
  <2>1. admin = source /\ config = None /\ configVersion = 0
    BY <1>6 DEF FreshInv, OursInv
  <2>2. AdminGate(source) = Allow
    BY <1>4, <2>1, GatesDecide
  <2>3. configVersion # MaxU32
    BY <2>1, MaxU32Assumption
  <2> QED  BY <1>3, <1>6, <2>1, <2>2, <2>3 DEF StageCall, SetConfig, Rejects, Leaves, Commits
<1>7. CASE pc = "bind_token"
  <2>1. admin = source
    BY <1>7 DEF OursInv, Ours
  <2>2. AdminGate(source) = Allow
    BY <1>4, <2>1, GatesDecide
  <2> QED  BY <1>3, <1>7, <2>2 DEF StageCall, BindToken, Rejects, Leaves, Commits
<1> QED  BY <1>3, <1>5, <1>6, <1>7 DEF StageCall

(***************************************************************************)
(* Deploy calls the contract in the order its one-way lifecycle wants: the *)
(* contract it has minted refuses none of its calls, unless somebody else  *)
(* got at it or the source is not the recorded admin's.                    *)
(***************************************************************************)
THEOREM DeploysAreNotRefused == CliSpec => DeployIsNotRefused
<1> DEFINE Inv == CliInv /\ RecordInv /\ OursInv /\ FreshInv
<1>1. CliInit => Inv
  BY InitCliInv, InitRecordInv, InitOurs, InitFreshInv
<1>2. Inv /\ [CliNext]_<<vars, cliVars>> => Inv'
  BY StepCliInv, StepRecordInv, StepOurs, StepFresh
<1>3. Inv /\ [CliNext]_<<vars, cliVars>> =>
        [IsRefused /\ target = "here" /\ others = 0 => source # conf.admin]_<<vars, cliVars>>
  BY StepNotRefused
<1> HIDE DEF Inv
<1> QED  BY <1>1, <1>2, <1>3, PTL DEF CliSpec, DeployIsNotRefused
-----------------------------------------------------------------------------
(***************************************************************************)
(* A command whose answer was lost.  As long as nobody else has acted and  *)
(* no other command was started, its work stands as it left it, by the     *)
(* record it was run with; and a call that finds its work done is accepted.*)
(***************************************************************************)
WorkDone(a, c, b, f, cmd, signer, r) ==
  LET token == ResolveToken(r, cmd.token)
  IN  /\ a = signer
      /\ cmd.fn = "configure" =>
           c = [policy |-> IF cmd.noPolicy THEN None ELSE ValueOr(cmd.policy, r.policy),
                sacPassthrough |-> ValueOr(cmd.sac, r.sacPassthrough)]
      /\ cmd.fn = "bind" => b[token] = [sac |-> ValueOr(cmd.sac, SacFor(r, cmd.token))]
      /\ cmd.fn = "unbind" => b[token] = None
      /\ cmd.fn \in {"freeze", "unfreeze"} =>
           /\ c # None /\ b[token] # None
           /\ <<token, cmd.account>> \in f <=> cmd.fn = "freeze"

RepeatInv ==
  applied \in Commands \X Signers =>
    /\ pc # "idle" => applied = <<command, source>>
    /\ record # None /\ applied[1].fn \in OneCallNames \ {"init"} =>
         (record.hooks = "here" =>
            WorkDone(admin, config, binding, frozen, applied[1], applied[2], record))

\* What an accepted call leaves behind.
LEMMA AcceptedCall ==
  ASSUME CliInv, Call, tx'.result = Allow, pc # "init"
  PROVE  WorkDone(admin', config', binding', frozen', command, source, conf)
<1>1. /\ source \in Signers /\ TypeOK
      /\ pc \in OneCallNames /\ command.fn = pc
  BY DEF Call, CliInv, JobOK, OneCallNames
<1>2. CASE pc = "configure" /\ SetConfig(source, ConfiguredPolicy, ConfiguredPassthrough)
  BY <1>1, <1>2, AcceptedRewrite DEF WorkDone, ConfiguredPolicy, ConfiguredPassthrough
<1>3. CASE pc = "bind" /\ TokenMeant \in Tokens /\ BindToken(source, TokenMeant, BoundSac)
  <2>1. /\ source = admin /\ admin' = admin
        /\ binding' = [binding EXCEPT ![TokenMeant] = [sac |-> BoundSac]]
    BY <1>1, <1>3, AcceptedBind
  <2>2. binding'[TokenMeant] = [sac |-> BoundSac]
    BY <1>1, <1>3, <2>1 DEF TypeOK
  <2> QED  BY <1>1, <1>3, <2>1, <2>2 DEF WorkDone, TokenMeant, BoundSac
<1>4. CASE pc = "unbind" /\ TokenMeant \in Tokens /\ UnbindToken(source, TokenMeant)
  <2>1. admin' = admin
    BY <1>4 DEF UnbindToken, Rejects, Leaves, store
  <2>2. source = admin /\ binding'[TokenMeant] = None
    BY <1>1, <1>4, AcceptedUnbind
  <2> QED  BY <1>1, <1>4, <2>1, <2>2 DEF WorkDone, TokenMeant
<1>5. CASE /\ TokenMeant \in Tokens
           /\ \/ pc = "freeze" /\ Freeze(source, TokenMeant, command.account)
              \/ pc = "unfreeze" /\ Unfreeze(source, TokenMeant, command.account)
  <2>1. /\ source = admin /\ config # None /\ binding[TokenMeant] # None
        /\ UNCHANGED <<admin, config, binding>>
    BY <1>5, AcceptedFreeze DEF IsTokenBound
  <2>2. <<TokenMeant, command.account>> \in frozen' <=> pc = "freeze"
    BY <1>5, AcceptedFreeze
  <2> QED  BY <1>1, <1>5, <2>1, <2>2 DEF WorkDone, TokenMeant
<1> QED  BY <1>2, <1>3, <1>4, <1>5 DEF Call

\* A call that finds its work done is accepted.
LEMMA RepeatedCall ==
  ASSUME CliInv, Call, pc # "init",
         WorkDone(admin, config, binding, frozen, command, source, conf)
  PROVE  tx'.result = Allow
<1>1. /\ source \in Signers /\ source # None
      /\ pc \in OneCallNames /\ command.fn = pc /\ admin = source
  BY NoneAssumption DEF Call, CliInv, JobOK, OneCallNames, WorkDone
<1>2. AdminGate(source) = Allow
  BY <1>1, GatesDecide
<1>3. CASE pc = "configure" /\ SetConfig(source, ConfiguredPolicy, ConfiguredPassthrough)
  <2>1. config = [policy |-> ConfiguredPolicy, sacPassthrough |-> ConfiguredPassthrough]
    BY <1>1, <1>3 DEF WorkDone, ConfiguredPolicy, ConfiguredPassthrough
  <2> QED  BY <1>2, <1>3, <2>1 DEF SetConfig, Rejects, Leaves
<1>4. CASE pc = "bind" /\ BindToken(source, TokenMeant, BoundSac)
  BY <1>2, <1>4 DEF BindToken, Rejects, Leaves, Commits
<1>5. CASE pc = "unbind" /\ UnbindToken(source, TokenMeant)
  BY <1>2, <1>5 DEF UnbindToken, Rejects, Leaves, Commits
<1>6. CASE \/ pc = "freeze" /\ Freeze(source, TokenMeant, command.account)
           \/ pc = "unfreeze" /\ Unfreeze(source, TokenMeant, command.account)
  <2>1. config # None /\ IsTokenBound(TokenMeant)
    BY <1>1, <1>6 DEF WorkDone, TokenMeant, IsTokenBound
  <2>2. FreezeAdminGate(source, TokenMeant) = Allow
    BY <1>1, <2>1, GatesDecide
  <2> QED  BY <1>6, <2>2 DEF Freeze, Unfreeze, Rejects, Leaves, Commits
<1> QED  BY <1>3, <1>4, <1>5, <1>6 DEF Call

\* A step that leaves the contract, the record and the lost answer alone.
LEMMA StillRepeats ==
  ASSUME RepeatInv, UNCHANGED <<store, record, applied>>,
         pc' = "idle" \/ (pc # "idle" /\ UNCHANGED <<command, source>>)
  PROVE  RepeatInv'
<1>1. WorkDone(admin, config, binding, frozen, applied[1], applied[2], record)'
        <=> WorkDone(admin, config, binding, frozen, applied[1], applied[2], record)
  BY DEF store, WorkDone, ResolveToken, SacFor, TokenNamed, Named, ValueOr
<1> QED  BY <1>1 DEF RepeatInv

\* The command whose answer is lost now is deploy: nothing is said of its work.
LEMMA DeployRepeats ==
  ASSUME RepeatInv, command.fn = "deploy", pc # "idle",
         applied' \in {applied, <<command, source>>},
         pc' = "idle" \/ UNCHANGED <<command, source>>
  PROVE  RepeatInv'
<1> SUFFICES ASSUME applied' \in Commands \X Signers
             PROVE  /\ pc' # "idle" => applied' = <<command', source'>>
                    /\ applied'[1].fn \notin OneCallNames
  BY DEF RepeatInv, OneCallNames
<1>1. applied' = <<command, source>>
  BY DEF RepeatInv
<1> QED  BY <1>1 DEF OneCallNames

LEMMA OneCallRepeats ==
  ASSUME CliInv, RecordInv, RepeatInv, OneCallStep
  PROVE  RepeatInv'
<1>1. /\ CallEnds /\ pc' = "idle" /\ source \in Signers /\ command \in Commands
      /\ UNCHANGED record /\ applied' \in {applied, <<command, source>>}
  BY OneCallForm DEF CliInv, CallEnds, Ends
<1>2. pc \in OneCallNames /\ command.fn = pc
  BY OneCallStage DEF CliInv
<1>3. record = conf /\ pc # "idle"
  BY <1>2 DEF RecordInv, OneCallNames
<1>4. CASE UNCHANGED <<store, applied>>
  BY <1>1, <1>4, StillRepeats
<1>5. CASE conf.hooks # "here"
  BY <1>1, <1>3, <1>5 DEF RepeatInv
<1>6. CASE conf.hooks = "here" /\ Call /\ tx'.result = Allow
  <2> SUFFICES ASSUME applied' \in Commands \X Signers,
                      applied'[1].fn \in OneCallNames \ {"init"}
               PROVE  WorkDone(admin, config, binding, frozen, applied[1], applied[2], record)'
    BY <1>1 DEF RepeatInv
  <2>1. applied' = <<command, source>>
    BY <1>1, <1>3 DEF RepeatInv
  <2>2. WorkDone(admin', config', binding', frozen', command, source, conf)
    BY <1>2, <1>6, <2>1, AcceptedCall
  <2>3. applied'[1] = command /\ applied'[2] = source /\ record' = conf
    BY <1>1, <1>3, <2>1
  <2>4. WorkDone(admin', config', binding', frozen', applied'[1], applied'[2], record')
    BY <2>2, <2>3
  <2>5. WorkDone(admin, config, binding, frozen, applied[1], applied[2], record)'
          <=> WorkDone(admin', config', binding', frozen', applied'[1], applied'[2], record')
    BY DEF WorkDone, ResolveToken, SacFor, TokenNamed, Named, ValueOr
  <2> QED  BY <2>4, <2>5
<1>7. CASE Call /\ tx'.result # Allow /\ UNCHANGED applied
  BY <1>4, <1>7, RefusedCall
<1> QED  BY <1>4, <1>5, <1>6, <1>7, OneCallOutcome DEF CallOutcome, vars

LEMMA StepRepeats ==
  ASSUME CliInv, RecordInv, RepeatInv, [CliNext]_<<vars, cliVars>>
  PROVE  RepeatInv'
<1>1. CASE UNCHANGED <<vars, cliVars>>
  BY <1>1, StillRepeats DEF vars, cliVars, job
<1>2. CASE EnsureNetwork \/ TakeSource \/ ShowCommand
  <2>1. UNCHANGED <<vars, record, applied>>
    BY <1>2 DEF EnsureNetwork, TakeSource, ShowCommand, Read, UnknownToken
  <2>2. pc' = "idle" \/ (pc # "idle" /\ UNCHANGED <<command, source>>)
    BY <1>2 DEF EnsureNetwork, TakeSource, ShowCommand, Read, UnknownToken, Goes, Ends, job
  <2> QED  BY <2>1, <2>2, StillRepeats DEF vars
<1>3. CASE DeployStep
  <2>1. pc \in DeployStages \cup {"deploy"}
    BY <1>3 DEF DeployStep, DeployHooks, ResolvePolicy, InitializeFresh, ConfigureFresh,
                BindListed, FinishDeploy, TruncateRecord, WriteRecord, DeployStages
  <2>2. command.fn = "deploy" /\ pc # "idle"
    BY <2>1 DEF CliInv, JobOK, DeployStages
  <2>3. CASE DeployHooks \/ ResolvePolicy \/ FinishDeploy \/ TruncateRecord \/ WriteRecord
    <3>1. UNCHANGED applied
      BY <2>3 DEF DeployHooks, ResolvePolicy, FinishDeploy, TruncateRecord, WriteRecord
    <3>2. pc' = "idle" \/ UNCHANGED <<command, source>>
      BY <2>3 DEF DeployHooks, Mints, ResolvePolicy, FinishDeploy, TruncateRecord, WriteRecord,
                  Goes, Ends, job
    <3> QED  BY <2>2, <3>1, <3>2, DeployRepeats
  <2>4. CASE InitializeFresh \/ ConfigureFresh \/ BindListed
    <3>1. applied' \in {applied, <<command, source>>}
          /\ (pc' = "idle" \/ UNCHANGED <<command, source>>)
      BY <2>4, InitializeForm, ConfigureFreshForm, BindListedForm DEF CliInv, CallGoes, Ends
    <3> QED  BY <2>2, <3>1, DeployRepeats
  <2> QED  BY <1>3, <2>3, <2>4 DEF DeployStep
<1>4. CASE StartUnreadable
  BY <1>4, StillRepeats DEF StartUnreadable, job, vars
<1>5. ASSUME NEW cmd, NEW explicit, Start(cmd, explicit)
      PROVE  RepeatInv'
  <2>1. CASE applied' = None
    BY <2>1, NoneIsNothing DEF RepeatInv
  <2>2. CASE applied' = applied /\ applied = <<cmd, source'>>
    <3>1. UNCHANGED <<store, record, applied>> /\ command' = cmd
      BY <1>5, <2>2 DEF Start, vars
    <3>2. WorkDone(admin, config, binding, frozen, applied[1], applied[2], record)'
            <=> WorkDone(admin, config, binding, frozen, applied[1], applied[2], record)
      BY <3>1 DEF store, WorkDone, ResolveToken, SacFor, TokenNamed, Named, ValueOr
    <3> QED  BY <2>2, <3>1, <3>2 DEF RepeatInv
  <2> QED  BY <1>5, <2>1, <2>2 DEF Start
<1>6. CASE Kill
  BY <1>6, StillRepeats DEF Kill, Ends, vars
<1>7. CASE OtherStep
  BY <1>7, NoneIsNothing DEF OtherStep, RepeatInv
<1> QED  BY <1>1, <1>2, <1>3, <1>4, <1>5, <1>6, <1>7, OneCallRepeats
         DEF CliNext, CommandStep, OperatorStep

LEMMA InitRepeats ==
  ASSUME CliInit
  PROVE  RepeatInv
  BY NoneIsNothing DEF CliInit, RepeatInv

LEMMA StepRepeatAccepted ==
  ASSUME CliInv, RecordInv, RepeatInv, [CliNext]_<<vars, cliVars>>,
         IsRefused, conf.hooks = "here", applied = <<command, source>>
  PROVE  command.fn \in {"init", "deploy"}
<1>1. CASE InitializeFresh \/ ConfigureFresh \/ BindListed
  BY <1>1 DEF InitializeFresh, ConfigureFresh, BindListed, CliInv, JobOK, DeployStages
<1>2. CASE OneCallStep /\ command.fn # "init"
  <2>1. pc \in OneCallNames /\ command.fn = pc
    BY <1>2, OneCallStage DEF CliInv
  <2>2. record = conf /\ record # None
    BY <1>2, <2>1, OneCallStage DEF RecordInv, CliInv, OneCallNames
  <2>3. source \in Signers /\ command \in Commands /\ applied \in Commands \X Signers
    BY <1>2, OneCallForm DEF CliInv
  <2>4. WorkDone(admin, config, binding, frozen, command, source, conf)
    BY <1>2, <2>1, <2>2, <2>3 DEF RepeatInv
  <2>5. Call /\ tx'.result # Allow
    BY <1>2, OneCallOutcome DEF CallOutcome, IsRefused
  <2> QED  BY <1>2, <2>1, <2>4, <2>5, RepeatedCall
<1> QED  BY <1>1, <1>2, RefusedWhere

(***************************************************************************)
(* Repeating a command is safe: whatever command of one call was applied   *)
(* and its answer lost, the contract accepts the same command again, for   *)
(* every record and every command line; only init runs once.               *)
(***************************************************************************)
THEOREM RepeatsAreAccepted == CliSpec => RepeatIsAccepted
<1> DEFINE Inv == CliInv /\ RecordInv /\ RepeatInv
<1>1. CliInit => Inv
  BY InitCliInv, InitRecordInv, InitRepeats
<1>2. Inv /\ [CliNext]_<<vars, cliVars>> => Inv'
  BY StepCliInv, StepRecordInv, StepRepeats
<1>3. Inv /\ [CliNext]_<<vars, cliVars>> =>
        [IsRefused /\ conf.hooks = "here" /\ applied = <<command, source>>
           => command.fn \in {"init", "deploy"}]_<<vars, cliVars>>
  BY StepRepeatAccepted
<1> HIDE DEF Inv
<1> QED  BY <1>1, <1>2, <1>3, PTL DEF CliSpec, RepeatIsAccepted
-----------------------------------------------------------------------------
\* Whatever a command does, it does nothing to the contract, or one of the
\* administrative transactions.
LEMMA CommandsCall ==
  ASSUME CliInv, CommandStep
  PROVE  Called
<1>1. CASE OneCallStep
  BY <1>1, OneCallForm DEF CliInv, CallEnds
<1>2. CASE InitializeFresh \/ ConfigureFresh \/ BindListed
  BY <1>2, InitializeForm, ConfigureFreshForm, BindListedForm DEF CliInv, CallGoes
<1>3. CASE \/ EnsureNetwork \/ TakeSource \/ ShowCommand
           \/ DeployHooks \/ ResolvePolicy \/ FinishDeploy
           \/ TruncateRecord \/ WriteRecord
  BY <1>3 DEF EnsureNetwork, TakeSource, ShowCommand, Read, UnknownToken, DeployHooks,
              ResolvePolicy, FinishDeploy, TruncateRecord, WriteRecord, Called
<1> QED  BY <1>1, <1>2, <1>3 DEF CommandStep, DeployStep

(***************************************************************************)
(* The commands reach the contract through its entry points only: between  *)
(* the watched deployment's birth and whatever an operator does to it, it  *)
(* behaves as a contract that is deployed alone, and whatever is proved of *)
(* that one holds here.                                                    *)
(***************************************************************************)
THEOREM CommandsOnlyCall == CliSpec => Spec
<1>1. CliInit => Init
  BY DEF CliInit, Init
<1>2. ASSUME CliTogether, [CliNext]_<<vars, cliVars>>
      PROVE  [Next]_vars
  <2>1. CASE CommandStep
    BY <1>2, <2>1, CommandsCall DEF CliTogether, Called, Next
  <2>2. CASE OperatorStep \/ Kill
    BY <2>2 DEF OperatorStep, StartUnreadable, Start, Kill
  <2>3. CASE OtherStep
    BY <2>3 DEF OtherStep, Next
  <2> QED  BY <1>2, <2>1, <2>2, <2>3 DEF CliNext
<1> QED  BY <1>1, <1>2, AlwaysTogether, PTL DEF CliSpec, Spec
-----------------------------------------------------------------------------
(***************************************************************************)
(* What changes the contract: somebody else's transaction, or an accepted  *)
(* call of a command that works from the record on disk and finds the      *)
(* contract by it, or by the deployment it is in the middle of.            *)
(***************************************************************************)

Reaching ==
  /\ record = conf /\ conf \in OurRecords /\ conf # None
  /\ tx'.result = Allow
  /\ \/ conf.hooks = "here" /\ OneCallStep /\ Call
     \/ target = "here" /\ (InitializeFresh \/ ConfigureFresh \/ BindListed) /\ StageCall

LEMMA WhatChanges ==
  ASSUME CliInv, RecordInv, CliNext, store' # store
  PROVE  Reaching \/ (OtherStep /\ others' # others)
<1>1. CASE OneCallStep
  <2>1. conf.hooks = "here" /\ Call /\ tx'.result = Allow
    BY <1>1, OneCallOutcome, RefusedCall DEF CallOutcome, vars
  <2>2. pc \notin {"idle", "write"} /\ conf \in OurRecords /\ conf # None
    BY <1>1, OneCallStage DEF CliInv, OneCallNames
  <2> QED  BY <1>1, <2>1, <2>2 DEF Reaching, RecordInv
<1>2. CASE InitializeFresh \/ ConfigureFresh \/ BindListed
  <2>1. target = "here" /\ StageCall /\ tx'.result = Allow
    BY <1>2, DeployCallOutcome, RefusedStage DEF StageOutcome, vars
  <2>2. pc \notin {"idle", "write"}
    BY <2>1 DEF StageCall
  <2>3. conf \in OurRecords /\ conf # None
    BY <2>2, NoneIsNothing DEF CliInv, JobOK
  <2> QED  BY <1>2, <2>1, <2>2, <2>3 DEF Reaching, RecordInv
<1>3. CASE OtherStep
  <2>1. others \in Nat /\ others' = others + 1
    BY <1>3, CLIAssumption DEF OtherStep, CliInv, RestOK
  <2> QED  BY <1>3, <2>1
<1>4. CASE \/ EnsureNetwork \/ TakeSource \/ ShowCommand \/ DeployHooks \/ ResolvePolicy
           \/ FinishDeploy \/ TruncateRecord \/ WriteRecord \/ OperatorStep \/ Kill
  BY <1>4 DEF EnsureNetwork, TakeSource, ShowCommand, Read, UnknownToken, DeployHooks,
              ResolvePolicy, FinishDeploy, TruncateRecord, WriteRecord, OperatorStep,
              StartUnreadable, Start, Kill, vars
<1> QED  BY <1>1, <1>2, <1>3, <1>4 DEF CliNext, CommandStep, DeployStep

\* A command that reported success left a record that parses.
TornInv == record = None /\ pc = "idle" => exit # "ok"

\* With a torn record, a step is a failure to start, the end of the write that
\* tore it, or somebody else's.
LEMMA TornSteps ==
  ASSUME CliInv, RecordInv, CliNext, record = None
  PROVE  StartUnreadable \/ WriteRecord \/ Kill \/ OtherStep
<1>1. pc \in {"idle", "write"}
  <2>1. pc # "idle" => conf # None
    BY NoneIsNothing DEF CliInv, JobOK
  <2> QED  BY <2>1 DEF RecordInv
<1>2. ~ OneCallStep
  BY <1>1, OneCallStage DEF CliInv, OneCallNames
<1> QED  BY <1>1, <1>2 DEF CliNext, CommandStep, DeployStep, OperatorStep, Start,
            EnsureNetwork, TakeSource, ShowCommand, DeployHooks, ResolvePolicy,
            InitializeFresh, ConfigureFresh, BindListed, FinishDeploy, TruncateRecord

\* A step that tears the record, or ends with it torn, does not report success.
LEMMA StepTorn ==
  ASSUME CliInv, RecordInv, TornInv, CliNext
  PROVE  TornInv'
<1> SUFFICES ASSUME record' = None, pc' = "idle"
             PROVE  exit' # "ok"
  BY DEF TornInv
<1>1. CASE record = None
  <2>1. StartUnreadable \/ WriteRecord \/ Kill \/ OtherStep
    BY <1>1, TornSteps
  <2>2. WriteRecord => UpdatedRecord # None
    BY UpdatedIsRecord, NoneIsNothing DEF WriteRecord, CliInv
  <2> QED  BY <1>1, <2>1, <2>2 DEF StartUnreadable, WriteRecord, Kill, OtherStep, Ends, TornInv
<1>2. CASE record # None
  <2>1. record' # record
    BY <1>2
  <2>2. ~ OneCallStep
    BY <2>1, OneCallForm DEF CliInv, CallEnds
  <2>3. ~ (InitializeFresh \/ ConfigureFresh \/ BindListed)
    BY <2>1, InitializeForm, ConfigureFreshForm, BindListedForm DEF CliInv, CallGoes
  <2>4. WriteRecord => record = None
    BY DEF WriteRecord, RecordInv
  <2>5. TruncateRecord
    BY <1>2, <2>1, <2>2, <2>3, <2>4
       DEF CliNext, CommandStep, DeployStep, OperatorStep, StartUnreadable, Start, Kill,
           OtherStep, EnsureNetwork, TakeSource, ShowCommand, Read, UnknownToken, DeployHooks,
           ResolvePolicy, FinishDeploy
  <2> QED  BY <2>1, <2>5 DEF TruncateRecord, Goes, Ends
<1> QED  BY <1>1, <1>2

LEMMA StepInert ==
  ASSUME CliInv, RecordInv, TornInv, CliNext, record = None
  PROVE  /\ record' # None => pc = "write"
         /\ store' # store => others' # others
         /\ pc' = "idle" /\ record' = None => exit' # "ok"
<1>1. record' # None => pc = "write"
  BY TornSteps DEF StartUnreadable, WriteRecord, Kill, OtherStep
<1>2. store' # store => others' # others
  BY WhatChanges DEF Reaching
<1>3. pc' = "idle" /\ record' = None => exit' # "ok"
  BY StepTorn DEF TornInv
<1> QED  BY <1>1, <1>2, <1>3

(***************************************************************************)
(* A record that is torn, by a deploy that died or failed between emptying *)
(* the file and writing it, stops the operator: no command of his changes  *)
(* the contract or reports success until the file is written.              *)
(***************************************************************************)
THEOREM TornRecordsAreInert == CliSpec => TornRecordIsInert
<1> DEFINE Inv == CliInv /\ RecordInv /\ TornInv
<1>1. CliInit => Inv
  BY InitCliInv, InitRecordInv DEF CliInit, TornInv
<1>2. Inv /\ [CliNext]_<<vars, cliVars>> => Inv'
  <2>1. TornInv /\ UNCHANGED <<vars, cliVars>> => TornInv'
    BY DEF TornInv, cliVars
  <2> QED  BY <2>1, StepCliInv, StepRecordInv, StepTorn
<1>3. Inv /\ [CliNext]_<<vars, cliVars>> =>
        [record = None =>
           /\ record' # None => pc = "write"
           /\ store' # store => others' # others
           /\ pc' = "idle" /\ record' = None => exit' # "ok"]_<<vars, cliVars>>
  BY StepInert
<1> HIDE DEF Inv
<1> QED  BY <1>1, <1>2, <1>3, PTL DEF CliSpec, TornRecordIsInert
-----------------------------------------------------------------------------
(* Contracts that no record names. *)

\* A contract that exists goes on existing, and no later deploy mints it.
LEMMA MintedOnce ==
  ASSUME CliInv, CliNext, exists
  PROVE  exists' /\ (target' = "here" => target = "here")
<1>1. None # "here"
  BY NoneIsNothing DEF Places
<1>2. \A how : Ends(how) => target' = None
  BY DEF Ends
<1>3. CASE OneCallStep
  BY <1>1, <1>2, <1>3, OneCallForm DEF CliInv, CallEnds
<1>4. CASE InitializeFresh \/ ConfigureFresh \/ BindListed
  BY <1>1, <1>2, <1>4, InitializeForm, ConfigureFreshForm, BindListedForm
     DEF CliInv, CallGoes
<1> HIDE DEF Ends
<1>5. CASE DeployHooks
  BY <1>1, <1>2, <1>5 DEF DeployHooks, Mints
<1>6. CASE EnsureNetwork \/ TakeSource \/ ShowCommand \/ ResolvePolicy \/ FinishDeploy
             \/ TruncateRecord \/ WriteRecord
  BY <1>1, <1>2, <1>6 DEF EnsureNetwork, TakeSource, ShowCommand, Read, UnknownToken,
     ResolvePolicy, FinishDeploy, TruncateRecord, WriteRecord, Goes, job
<1>7. CASE OperatorStep \/ Kill \/ OtherStep
  BY <1>1, <1>2, <1>7 DEF OperatorStep, StartUnreadable, Start, Kill, OtherStep, job
<1> QED  BY <1>3, <1>4, <1>5, <1>6, <1>7 DEF CliNext, CommandStep, DeployStep

\* A step leaves the record, tears it, or writes the one deploy has worked for.
LEMMA RecordSteps ==
  ASSUME CliInv, CliNext
  PROVE  record' \in {record, None} \/ (pc = "write" /\ record' = UpdatedRecord)
<1>1. CASE OneCallStep
  BY <1>1, OneCallForm DEF CliInv, CallEnds
<1>2. CASE InitializeFresh \/ ConfigureFresh \/ BindListed
  BY <1>2, InitializeForm, ConfigureFreshForm, BindListedForm DEF CliInv, CallGoes
<1>3. CASE \/ EnsureNetwork \/ TakeSource \/ ShowCommand \/ DeployHooks \/ ResolvePolicy
           \/ FinishDeploy \/ TruncateRecord \/ WriteRecord
  BY <1>3 DEF EnsureNetwork, TakeSource, ShowCommand, Read, UnknownToken, DeployHooks,
              ResolvePolicy, FinishDeploy, TruncateRecord, WriteRecord
<1>4. CASE OperatorStep \/ Kill \/ OtherStep
  BY <1>4 DEF OperatorStep, StartUnreadable, Start, Kill, OtherStep
<1> QED  BY <1>1, <1>2, <1>3, <1>4 DEF CliNext, CommandStep, DeployStep

LEMMA StaysOrphan ==
  ASSUME CliInv, RecordInv, CliNext, Orphan
  PROVE  Orphan' /\ (store' # store => others' # others)
<1>1. exists' /\ target' # "here"
  BY MintedOnce DEF Orphan
<1>2. record' # None => record'.hooks # "here"
  <2>1. pc = "write" => UpdatedRecord.hooks = target
    BY DEF UpdatedRecord, CliInv, JobOK, OurRecords, Records
  <2> QED  BY <2>1, RecordSteps DEF Orphan
<1>3. store' # store => others' # others
  BY WhatChanges DEF Reaching, Orphan
<1> QED  BY <1>1, <1>2, <1>3 DEF Orphan

\* A deploy that ends while it resolves its policy has asked nothing yet.
LEMMA EndsAtPolicy ==
  ASSUME CliInv, RecordInv, FreshInv, LifecycleOrder, CliNext,
         pc = "policy", pc' = "idle", target = "here"
  PROVE  Orphan' /\ (others = 0 => Bare')
<1>1. ResolvePolicy \/ Kill
  <2>1. ~ OneCallStep
    BY OneCallStage DEF CliInv, OneCallNames
  <2> QED  BY <2>1 DEF CliNext, CommandStep, DeployStep, OperatorStep, StartUnreadable, Start,
              OtherStep, EnsureNetwork, TakeSource, ShowCommand, DeployHooks, InitializeFresh,
              ConfigureFresh, BindListed, FinishDeploy, TruncateRecord, WriteRecord
<1>2. UNCHANGED <<vars, record, exists>> /\ target' = None
  BY <1>1 DEF ResolvePolicy, Kill, Ends
<1>3. record = conf /\ exists /\ conf.hooks # "here"
  BY DEF RecordInv
<1>4. Orphan'
  BY <1>2, <1>3, NoneIsNothing DEF Orphan, Places
<1>5. ASSUME others = 0
      PROVE  Bare'
  <2>1. admin = None /\ config = None
    BY <1>5 DEF FreshInv, Pristine
  <2>2. Bare
    BY <2>1 DEF Bare, LifecycleOrder, IsTokenBound
  <2> QED  BY <1>2, <2>2 DEF Bare, IsTokenBound, vars, store
<1> QED  BY <1>4, <1>5

(***************************************************************************)
(* A contract whose deploy stopped before it was recorded is out of every  *)
(* command's reach for good, and one that stopped for want of its policy   *)
(* has nothing on it, for every record and every number of strangers.      *)
(***************************************************************************)
THEOREM OrphansStayOut == CliSpec => OrphanIsOutOfReach
<1> DEFINE Inv == CliInv /\ RecordInv /\ FreshInv
<1>1. CliInit => Inv
  BY InitCliInv, InitRecordInv, InitFreshInv
<1>2. Inv /\ [CliNext]_<<vars, cliVars>> => Inv'
  BY StepCliInv, StepRecordInv, StepFresh
<1>3. CliSpec => []LifecycleOrder
  BY CommandsOnlyCall, Lifecycle, PTL
<1>4. Inv /\ LifecycleOrder /\ [CliNext]_<<vars, cliVars>> =>
        [/\ Orphan => Orphan' /\ (store' # store => others' # others)
         /\ pc = "policy" /\ pc' = "idle" /\ target = "here" =>
              Orphan' /\ (others = 0 => Bare')]_<<vars, cliVars>>
  BY StaysOrphan, EndsAtPolicy
<1> HIDE DEF Inv
<1> QED  BY <1>1, <1>2, <1>3, <1>4, PTL DEF CliSpec, OrphanIsOutOfReach
-----------------------------------------------------------------------------
(* The SACs of the tokens. *)

\* Three of the calls leave every binding as it is.
LEMMA BindingsLeft ==
  ASSUME NEW signer, NEW a, NEW p, NEW b, NEW t, tx'.result = Allow,
         \/ Initialize(signer, a)
         \/ SetConfig(signer, p, b)
         \/ Freeze(signer, t, a)
         \/ Unfreeze(signer, t, a)
  PROVE  binding' = binding
<1>1. Initialize(signer, a) => binding' = binding
  BY DEF Initialize, Leaves, store
<1> QED  BY <1>1, AcceptedRewrite, AcceptedFreeze

\* An unbind takes the binding of its token away, and of no other.
LEMMA UnbindTakes ==
  ASSUME TypeOK, NEW signer, NEW t \in Tokens, UnbindToken(signer, t), NEW u \in Tokens
  PROVE  binding'[u] \in {binding[u], None}
  BY DEF UnbindToken, Rejects, Leaves, RemoveBinding, store, TypeOK

\* A bind touches no other token's binding.
LEMMA BindPuts ==
  ASSUME TypeOK, NEW signer, NEW t \in Tokens, NEW s, BindToken(signer, t, s),
         tx'.result = Allow, NEW u \in Tokens, binding'[u] # binding[u]
  PROVE  u = t /\ binding'[u] = [sac |-> s]
<1>1. binding' = [binding EXCEPT ![t] = [sac |-> s]]
  BY AcceptedBind
<1> QED  BY <1>1 DEF TypeOK

LEMMA StepSacLost ==
  ASSUME CliInv, RecordInv, CliNext, NEW t \in Tokens,
         binding[t] \in [sac : Sacs], binding'[t] = [sac |-> None], others' = others
  PROVE  \/ command.fn = "bind" /\ command.sac = None /\ Named(conf, command.token) = {}
         \/ [sac |-> None] \in Listings(conf, t)
<1>1. binding'[t] # binding[t] /\ binding'[t] # None
  BY NoneAssumption DEF Bindings
<1>2. Reaching
  <2>1. store' # store
    BY <1>1 DEF store
  <2> QED  BY <2>1, WhatChanges
<1>3. TypeOK /\ conf \in OurRecords /\ tx'.result = Allow
  BY <1>2 DEF CliInv, Reaching
<1>4. CASE OneCallStep /\ Call
  <2>1. TokenMeant \in Tokens /\ pc = "bind" /\ BindToken(source, TokenMeant, BoundSac)
    BY <1>1, <1>3, <1>4, BindingsLeft, UnbindTakes DEF Call
  <2>2. t = TokenMeant /\ BoundSac = None
    <3>1. t = TokenMeant /\ binding'[t] = [sac |-> BoundSac]
      BY <1>1, <1>3, <2>1, BindPuts
    <3>2. [sac |-> BoundSac].sac = [sac |-> None].sac
      BY <3>1
    <3> QED  BY <3>1, <3>2
  <2>3. command.sac = None /\ SacFor(conf, command.token) = None
    BY <2>2 DEF BoundSac, ValueOr
  <2>4. command.fn = "bind"
    BY <1>4, <2>1, OneCallStage DEF CliInv
  <2>5. CASE Named(conf, command.token) # {}
    BY <1>3, <2>2, <2>3, <2>5, ListedSac DEF TokenMeant
  <2> QED  BY <2>3, <2>4, <2>5
<1>5. CASE (InitializeFresh \/ ConfigureFresh \/ BindListed) /\ StageCall
  <2> DEFINE token == conf.tokens[done + 1]
  <2>1. pc = "bind_token" /\ done < Len(conf.tokens)
        /\ BindToken(source, token.id, token.sac)
    BY <1>1, <1>3, <1>5, BindingsLeft DEF StageCall
  <2>2. done + 1 \in DOMAIN conf.tokens
    <3>1. conf.tokens \in Seq(ListedTokens(Tokens, Sacs)) /\ done \in Nat
      BY <1>3, RecordFields DEF CliInv, JobOK
    <3> QED  BY <2>1, <3>1
  <2>3. token.id \in Tokens
    BY <1>3, <2>2, ListedFields
  <2>4. t = token.id /\ binding'[t] = [sac |-> token.sac]
    <3>1. binding' = [binding EXCEPT ![token.id] = [sac |-> token.sac]]
      BY <1>3, <2>1, <2>3, AcceptedBind
    <3> HIDE DEF token
    <3> QED  BY <1>1, <1>3, <2>3, <3>1 DEF TypeOK
  <2>5. [sac |-> token.sac] \in Listings(conf, token.id)
    BY <2>2 DEF Listings
  <2> HIDE DEF token
  <2> QED  BY <2>4, <2>5
<1> QED  BY <1>2, <1>4, <1>5 DEF Reaching

(***************************************************************************)
(* A token keeps its SAC through every command but a bind by its address   *)
(* that names none, and a deployment of a record that lists it without     *)
(* one: for every record, every command line and every listing.            *)
(***************************************************************************)
THEOREM SacsAreKept == CliSpec => SacLostByAddressOnly
<1> DEFINE Inv == CliInv /\ RecordInv
<1>1. CliInit => Inv
  BY InitCliInv, InitRecordInv
<1>2. Inv /\ [CliNext]_<<vars, cliVars>> => Inv'
  BY StepCliInv, StepRecordInv
<1>3. Inv /\ [CliNext]_<<vars, cliVars>> =>
        [\A t \in Tokens :
           binding[t] \in [sac : Sacs] /\ binding'[t] = [sac |-> None] /\ others' = others =>
             \/ command.fn = "bind" /\ command.sac = None /\ Named(conf, command.token) = {}
             \/ [sac |-> None] \in Listings(conf, t)]_<<vars, cliVars>>
  BY StepSacLost
<1> HIDE DEF Inv
<1> QED  BY <1>1, <1>2, <1>3, PTL DEF CliSpec, SacLostByAddressOnly
-----------------------------------------------------------------------------
(***************************************************************************)
(* How far a command is from its end: the stages before it, and the rounds *)
(* its loop over the listed tokens has left.                               *)
(***************************************************************************)
Left(at, made, n) ==
  CASE at = "idle"       -> 0
    [] at = "network"    -> 2 * n + 9
    [] at = "source"     -> 2 * n + 8
    [] at = "show"       -> 2 * n + 7 - made
    [] at = "deploy"     -> n + 7
    [] at = "policy"     -> n + 6
    [] at = "initialize" -> n + 5
    [] at = "set_config" -> n + 4
    [] at = "bind_token" -> n + 3 - made
    [] at = "truncate"   -> 2
    [] OTHER             -> 1

StepsLeft == Left(pc, done, Len(conf.tokens))

\* The loops stay within what they go over.
LoopsInv ==
  /\ pc = "show" => done <= ShowReads
  /\ pc = "bind_token" => done <= Len(conf.tokens)

\* Show reads four values, and one or two per token.
LEMMA ReadsCount ==
  ASSUME CliInv, pc # "idle"
  PROVE  /\ Len(conf.tokens) \in Nat
         /\ ShowReads \in 4 .. 2 * Len(conf.tokens) + 6
<1>1. conf \in OurRecords
  BY DEF CliInv, JobOK
<1>2. Len(conf.tokens) \in Nat
  BY <1>1, RecordFields
<1> DEFINE n == Len(conf.tokens)
<1>3. Targets \in {1, n}
  BY DEF Targets
<1>4. ShowReads \in {4 + Targets, 4 + 2 * Targets}
  <2>1. Targets \in Nat
    BY <1>2, <1>3
  <2> HIDE DEF Targets
  <2> QED  BY <2>1 DEF ShowReads
<1> HIDE DEF n, ShowReads, Targets
<1>5. n \in Nat /\ Targets \in Nat /\ Targets <= n + 1
  BY <1>2, <1>3 DEF n
<1>6. ShowReads \in 4 .. 2 * n + 6
  BY <1>4, <1>5
<1> QED  BY <1>2, <1>6 DEF n

\* What a step of a command does to where the command stands.
Advances ==
  /\ UNCHANGED <<conf, command>>
  /\ \/ done' = done /\ <<pc, pc'>> \in
          {<<"network", "source">>, <<"deploy", "policy">>, <<"policy", "initialize">>,
           <<"initialize", "set_config">>, <<"set_config", "bind_token">>,
           <<"bind_token", "truncate">>, <<"truncate", "write">>}
     \/ done' = done /\ pc = "source" /\ pc' \in OneCallNames \cup {"deploy", "show"}
     \/ done' = done + 1 /\ pc = "show" /\ pc' = "show" /\ done < ShowReads
     \/ done' = done + 1 /\ pc = "bind_token" /\ pc' = "bind_token"
        /\ done < Len(conf.tokens)

LEMMA CommandsAdvance ==
  ASSUME CliInv, CommandStep
  PROVE  pc # "idle" /\ (Advances \/ pc' = "idle")
<1>1. CASE EnsureNetwork
  BY <1>1 DEF EnsureNetwork, Goes, Ends, job, Advances
<1>2. CASE TakeSource
  <2>1. command.fn \in OneCallNames \cup {"deploy", "show"}
    BY <1>2, CommandFields DEF TakeSource, CliInv, JobOK
  <2> QED  BY <1>2, <2>1 DEF TakeSource, Goes, Ends, job, Advances
<1>3. CASE OneCallStep
  BY <1>3, OneCallForm, OneCallStage DEF CliInv, CallEnds, Ends, OneCallNames
<1>4. CASE ShowCommand
  <2>1. pc = "show" /\ 4 <= ShowReads /\ ShowReads \in Nat /\ done \in Nat
    BY <1>4, ReadsCount DEF ShowCommand, CliInv, JobOK
  <2>2. \/ pc' = "idle"
        \/ done' = done + 1 /\ pc' = pc /\ UNCHANGED <<conf, command>>
           /\ (done < 4 \/ done \in 4 .. ShowReads - 1)
    BY <1>4 DEF ShowCommand, Read, UnknownToken, Ends
  <2> HIDE DEF ShowReads
  <2> QED  BY <2>1, <2>2 DEF Advances
<1>5. CASE DeployHooks \/ ResolvePolicy
  BY <1>5 DEF DeployHooks, Mints, ResolvePolicy, Ends, Advances
<1>6. CASE InitializeFresh \/ ConfigureFresh \/ BindListed
  BY <1>6, InitializeForm, ConfigureFreshForm, BindListedForm
     DEF CliInv, CallGoes, InitializeFresh, ConfigureFresh, BindListed, Ends, Advances
<1>7. CASE FinishDeploy \/ TruncateRecord \/ WriteRecord
  BY <1>7 DEF FinishDeploy, TruncateRecord, WriteRecord, Goes, Ends, job, Advances
<1> QED  BY <1>1, <1>2, <1>3, <1>4, <1>5, <1>6, <1>7 DEF CommandStep, DeployStep

\* The count is a number that only the end of a command brings to zero.
LEMMA LeftCounts ==
  ASSUME NEW at \in Stages \ {"idle"}, NEW made \in Nat, NEW n \in Nat,
         at = "show" => made <= 2 * n + 6, at = "bind_token" => made <= n
  PROVE  Left(at, made, n) \in 1 .. 2 * n + 9
<1>1. CASE at \in {"network", "source", "show"}
  BY <1>1 DEF Left, OneCallNames
<1>2. CASE at \in OneCallNames \cup {"truncate", "write"}
  BY <1>2 DEF Left, OneCallNames
<1>3. CASE at \in {"deploy", "policy", "initialize", "set_config", "bind_token"}
  BY <1>3 DEF Left, OneCallNames
<1> QED  BY <1>1, <1>2, <1>3 DEF Stages, DeployStages

\* A step of a command keeps its loops within their bounds and brings it nearer
\* its end.
LEMMA AdvancingCounts ==
  ASSUME CliInv, CliInv', RecordInv, LoopsInv, pc # "idle", Advances \/ pc' = "idle"
  PROVE  LoopsInv' /\ StepsLeft' < StepsLeft
<1> DEFINE n == Len(conf.tokens)
<1>1. n \in Nat /\ ShowReads \in 4 .. 2 * n + 6 /\ done \in Nat
  BY ReadsCount DEF CliInv, JobOK
<1>2. StepsLeft = Left(pc, done, n)
  BY DEF StepsLeft
<1>3. pc \in Stages /\ pc' \in Stages
  BY DEF CliInv, JobOK
<1>4. /\ pc = "show" => done <= ShowReads
      /\ pc = "bind_token" => done <= n
      /\ pc \notin {"show", "bind_token", "truncate", "write"} => done = 0
  BY DEF LoopsInv, RecordInv
<1>5. CASE pc' = "idle"
  <2>1. StepsLeft' = 0
    BY <1>5 DEF StepsLeft, Left
  <2>2. Left(pc, done, n) > 0
    <3> HIDE DEF n, ShowReads
    <3>1. pc = "show" => done <= 2 * n + 6
      BY <1>1, <1>4
    <3>2. Left(pc, done, n) \in 1 .. 2 * n + 9
      BY <1>1, <1>3, <1>4, <3>1, LeftCounts
    <3> QED  BY <1>1, <3>2
  <2> QED  BY <1>2, <1>5, <2>1, <2>2 DEF LoopsInv
<1>6. CASE Advances
  <2>1. conf' = conf /\ command' = command
    BY <1>6 DEF Advances
  <2>2. StepsLeft' = Left(pc', done', n)
    BY <2>1 DEF StepsLeft
  <2>3. ShowReads' = ShowReads
    BY <2>1, Zenon DEF ShowReads, Targets
  <2> HIDE DEF n, ShowReads
  <2>4. \/ done' = done /\ <<pc, pc'>> \in
             {<<"network", "source">>, <<"deploy", "policy">>, <<"policy", "initialize">>,
              <<"initialize", "set_config">>, <<"set_config", "bind_token">>,
              <<"bind_token", "truncate">>, <<"truncate", "write">>}
        \/ done' = done /\ pc = "source" /\ pc' \in OneCallNames \cup {"deploy", "show"}
        \/ done' = done + 1 /\ pc = "show" /\ pc' = "show" /\ done < ShowReads
        \/ done' = done + 1 /\ pc = "bind_token" /\ pc' = "bind_token" /\ done < n
    BY <1>6 DEF Advances, n
  <2>5. /\ pc' = "show" => done' <= ShowReads
        /\ pc' = "bind_token" => done' <= n
    BY <1>1, <1>4, <2>4 DEF OneCallNames
  <2>6. LoopsInv'
    BY <2>1, <2>3, <2>5 DEF LoopsInv, n
  <2>7. Left(pc', done', n) < Left(pc, done, n)
    BY <1>1, <1>4, <2>4 DEF Left, OneCallNames
  <2> QED  BY <1>2, <2>2, <2>6, <2>7
<1> QED  BY <1>5, <1>6

LEMMA StepLoops ==
  ASSUME CliInv, CliInv', RecordInv, LoopsInv, [CliNext]_<<vars, cliVars>>
  PROVE  /\ LoopsInv'
         /\ pc # "idle" =>
              \/ StepsLeft' < StepsLeft
              \/ UNCHANGED <<pc, job>> /\ (OtherStep \/ UNCHANGED <<vars, cliVars>>)
<1>1. CASE CommandStep
  BY <1>1, CommandsAdvance, AdvancingCounts
<1>2. CASE OperatorStep
  BY <1>2 DEF OperatorStep, StartUnreadable, Start, LoopsInv
<1>3. CASE Kill
  BY <1>3, AdvancingCounts DEF Kill, Ends
<1>4. ASSUME UNCHANGED <<pc, job>>
      PROVE  LoopsInv'
  <2>1. pc' = pc /\ done' = done /\ conf' = conf /\ command' = command
    BY <1>4 DEF job
  <2>2. ShowReads' = ShowReads
    BY <2>1, Zenon DEF ShowReads, Targets
  <2> QED  BY <2>1, <2>2, Zenon DEF LoopsInv
<1>5. OtherStep \/ UNCHANGED <<vars, cliVars>> => UNCHANGED <<pc, job>>
  BY DEF OtherStep, cliVars
<1> QED  BY <1>1, <1>2, <1>3, <1>4, <1>5 DEF CliNext

LEMMA StepsCount ==
  ASSUME CliInv, RecordInv, LoopsInv, pc # "idle"
  PROVE  StepsLeft \in 1 .. 2 * Len(conf.tokens) + 9
<1> DEFINE n == Len(conf.tokens)
<1>1. n \in Nat /\ ShowReads \in 4 .. 2 * n + 6 /\ done \in Nat /\ pc \in Stages
  BY ReadsCount DEF CliInv, JobOK
<1>2. /\ pc = "show" => done <= ShowReads
      /\ pc = "bind_token" => done <= n
  BY DEF LoopsInv
<1> HIDE DEF n, ShowReads
<1>3. Left(pc, done, n) \in 1 .. 2 * n + 9
  BY <1>1, <1>2, LeftCounts
<1> QED  BY <1>3 DEF n, StepsLeft

(***************************************************************************)
(* The safety half of EveryCommandEnds: a command takes at most two steps  *)
(* for every listed token and nine besides.  While it runs, every step is  *)
(* one of its own or its death, and brings it nearer its end, or somebody  *)
(* else's transaction, which leaves it where it stands; it never loops.    *)
(***************************************************************************)
THEOREM CommandsRunDown ==
  CliSpec => /\ [](pc # "idle" => StepsLeft \in 1 .. 2 * Len(conf.tokens) + 9)
             /\ [][pc # "idle" => \/ StepsLeft' < StepsLeft
                                  \/ OtherStep /\ UNCHANGED <<pc, job>>]_<<vars, cliVars>>
<1> DEFINE Together == CliInv /\ RecordInv /\ LoopsInv
<1>1. CliInit => Together
  <2>1. CliInit => LoopsInv
    BY DEF CliInit, LoopsInv
  <2> QED  BY <2>1, InitCliInv, InitRecordInv
<1>2. Together /\ [CliNext]_<<vars, cliVars>> => Together'
  BY StepCliInv, StepRecordInv, StepLoops
<1>3. Together => (pc # "idle" => StepsLeft \in 1 .. 2 * Len(conf.tokens) + 9)
  BY StepsCount
<1>4. Together /\ [CliNext]_<<vars, cliVars>> =>
        [pc # "idle" => \/ StepsLeft' < StepsLeft
                        \/ OtherStep /\ UNCHANGED <<pc, job>>]_<<vars, cliVars>>
  BY StepCliInv, StepLoops
<1> HIDE DEF Together
<1> QED  BY <1>1, <1>2, <1>3, <1>4, PTL DEF CliSpec
=============================================================================
