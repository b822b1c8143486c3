-------------------------- MODULE ComplianceHooks ---------------------------
(***************************************************************************)
(* The enforcement contract (contracts/compliance-hooks) over its storage  *)
(* (crates/storage) and its authority gates (crates/authorization).        *)
(*                                                                         *)
(* One step is one transaction: the host runs an entry point to its end    *)
(* and commits what it wrote, or reverts all of it when the entry point    *)
(* returns an error or traps.  `tx' is what an observer sees of the last   *)
(* transaction: the entry point, its result and the event it published.    *)
(* The results "host_auth" and "host_overflow" are traps, the others are   *)
(* Ok (Allow) or the contract's error.                                     *)
(***************************************************************************)
EXTENDS Compliance

CONSTANTS
  Signers,    \* addresses that can sign a transaction
  Tokens,     \* addresses passed as a token
  Accounts,   \* addresses passed as a party of an operation
  Policies,   \* policy contracts
  Sacs,       \* Stellar asset contracts a token may wrap
  MaxU32      \* the largest u32, small when model checked

\* storage/config.rs: ComplianceConfig; storage/bindings.rs: TokenBinding.
Configs  == [policy : Policies \cup {None}, sacPassthrough : BOOLEAN]
Bindings == [sac : Sacs \cup {None}]

\* The events of crates/events, with the fields they publish.
Events ==
       [type : {"Initialized"}, admin : Signers]
  \cup [type : {"AccountFrozen", "AccountUnfrozen"}, token : Tokens, account : Accounts]
  \cup [type : {"TokenBound", "TokenUnbound"}, token : Tokens]
  \cup [type : {"ComplianceConfigChanged"}, config : Configs]

\* None is no address, no record and no event.
ASSUME NoneAssumption ==
  /\ None \notin Signers
  /\ None \notin Policies
  /\ None \notin Sacs
  /\ None \notin Configs
  /\ None \notin Bindings
  /\ None \notin Events

ASSUME MaxU32Assumption == MaxU32 \in Nat \ {0}

VARIABLES
  admin,           \* instance entry Admin, or None
  config,          \* instance entry Config, or None
  configVersion,   \* instance entry ConfigVersion, 0 when absent
  stateVersion,    \* instance entry Version, 0 when absent
  binding,         \* persistent entries TokenBinding(token), None when absent
  frozen,          \* the (token, account) pairs that have a Freeze entry
  upgraded,        \* history: the storage was laid out by pre-stamping code
  tx               \* the last transaction, as observed

store == <<admin, config, configVersion, stateVersion, binding, frozen>>

vars == <<store, upgraded, tx>>

AdminCalls ==
  {"initialize", "set_config", "bind_token", "unbind_token", "freeze", "unfreeze"}

Results == Decisions \cup {"already_initialized", "host_auth", "host_overflow"}

TypeOK ==
  /\ admin \in Signers \cup {None}
  /\ config \in Configs \cup {None}
  /\ configVersion \in 0 .. MaxU32
  /\ stateVersion \in 0 .. 1
  /\ binding \in [Tokens -> Bindings \cup {None}]
  /\ frozen \subseteq Tokens \X Accounts
  /\ upgraded \in BOOLEAN
  /\ tx \in [fn : AdminCalls \cup Operations \cup {"none"},
             result : Results, event : Events \cup {None}]

-----------------------------------------------------------------------------
(* Storage helpers: what crates/storage writes. *)

\* versions.rs: VERSION
LayoutVersion == 1

\* Mutant: the configuration is written, a missing stamp is not healed.
SetComplianceConfig_NoStamp(next) ==
  /\ config' = next
  /\ UNCHANGED stateVersion

\* Mutant: the stamp is counted up on every write.
SetComplianceConfig_CountsStamp(next) ==
  /\ config' = next
  /\ stateVersion' = stateVersion + 1

\* The layout stamp is written along with the configuration when it is absent.
SetComplianceConfig(next) ==
  /\ config' = next
  /\ stateVersion' = IF stateVersion = 0 THEN LayoutVersion ELSE stateVersion

\* Mutant: only the first configuration is counted.
BumpConfigVersion_FirstOnly == configVersion' = 1

BumpConfigVersion == configVersion' = configVersion + 1

StoreBinding(token, sac) == binding' = [binding EXCEPT ![token] = [sac |-> sac]]

\* Mutant: unbinding also clears the token's freezes.
RemoveBinding_Thaws(token) ==
  /\ binding' = [binding EXCEPT ![token] = None]
  /\ frozen' = {f \in frozen : f[1] # token}

\* Only the binding entry goes; the freeze entries of the token stay.
RemoveBinding(token) ==
  /\ binding' = [binding EXCEPT ![token] = None]
  /\ UNCHANGED frozen

FreezeAccount(token, account) == frozen' = frozen \cup {<<token, account>>}

UnfreezeAccount(token, account) == frozen' = frozen \ {<<token, account>>}

IsFrozen(token, account) == <<token, account>> \in frozen

IsTokenBound(token) == binding[token] # None

\* Mutant: only a recorded SAC is compared.
SameBinding_SomeOnly(token, sac) == sac # None /\ binding[token] = [sac |-> sac]

\* Whether the token is bound, and to that SAC.
SameBinding(token, sac) == binding[token] = [sac |-> sac]

-----------------------------------------------------------------------------
(* Gates, and the ways a transaction ends. *)

\* Mutant: a contract without an admin lets the call through.
AdminGate_UninitializedPasses(signer) ==
  IF admin # None /\ signer # admin THEN "host_auth" ELSE Allow

\* The stored admin must have signed; without one the contract cannot say who.
AdminGate(signer) ==
  CASE admin = None                      -> "invalid_configuration"
    [] admin # None /\ signer # admin    -> "host_auth"
    [] admin # None /\ signer = admin    -> Allow

\* Mutant: the token need not be bound.
ScopeGate_ConfigOnly(token) ==
  IF config = None THEN "invalid_configuration" ELSE Allow

\* Freeze administration needs a configuration and a bound token.
ScopeGate(token) ==
  CASE config = None                           -> "invalid_configuration"
    [] config # None /\ ~ IsTokenBound(token)  -> "unbound_token"
    [] config # None /\ IsTokenBound(token)    -> Allow

FreezeAdminGate(signer, token) == AndThen(AdminGate(signer), ScopeGate(token))

\* The transaction of `fn' commits and publishes `event'.
Commits(fn, event) == tx' = [fn |-> fn, result |-> Allow, event |-> event]

\* The transaction of `fn' changes nothing: an early Ok, a denial or a trap.
Leaves(fn, result) ==
  /\ tx' = [fn |-> fn, result |-> result, event |-> None]
  /\ UNCHANGED store

\* A gate other than Allow ends the transaction with that result.
Rejects(fn, gate) == gate # Allow /\ Leaves(fn, gate)

-----------------------------------------------------------------------------
(* Deployment and administration. *)

\* The initialized check comes before the authorization of the new admin.
Initialize(signer, newAdmin) ==
  \/ admin # None /\ Leaves("initialize", "already_initialized")
  \/ admin = None /\ signer # newAdmin /\ Leaves("initialize", "host_auth")
  \/ /\ admin = None
     /\ signer = newAdmin
     /\ admin' = newAdmin
     /\ stateVersion' = LayoutVersion
     /\ Commits("initialize", [type |-> "Initialized", admin |-> newAdmin])
     /\ UNCHANGED <<config, configVersion, binding, frozen>>

\* Mutant: the version is counted up before the configurations are compared.
SetConfig_CountsFirst(signer, policy, passthrough) ==
  LET next == [policy |-> policy, sacPassthrough |-> passthrough]
  IN  \/ Rejects("set_config", AdminGate(signer))
      \/ /\ AdminGate(signer) = Allow
         /\ configVersion = MaxU32
         /\ Leaves("set_config", "host_overflow")
      \/ /\ AdminGate(signer) = Allow
         /\ configVersion < MaxU32
         /\ SetComplianceConfig(next)
         /\ BumpConfigVersion
         /\ Commits("set_config", [type |-> "ComplianceConfigChanged", config |-> next])
         /\ UNCHANGED <<admin, binding, frozen>>

\* An identical configuration is an early Ok; a bump past MaxU32 traps.
SetConfig(signer, policy, passthrough) ==
  LET next == [policy |-> policy, sacPassthrough |-> passthrough]
  IN  \/ Rejects("set_config", AdminGate(signer))
      \/ /\ AdminGate(signer) = Allow
         /\ config = next
         /\ Leaves("set_config", Allow)
      \/ /\ AdminGate(signer) = Allow
         /\ config # next
         /\ configVersion = MaxU32
         /\ Leaves("set_config", "host_overflow")
      \/ /\ AdminGate(signer) = Allow
         /\ config # next
         /\ configVersion < MaxU32
         /\ SetComplianceConfig(next)
         /\ BumpConfigVersion
         /\ Commits("set_config", [type |-> "ComplianceConfigChanged", config |-> next])
         /\ UNCHANGED <<admin, binding, frozen>>

\* Binding to the SAC already recorded is an early Ok.
BindToken(signer, token, sac) ==
  \/ Rejects("bind_token", AdminGate(signer))
  \/ /\ AdminGate(signer) = Allow
     /\ SameBinding(token, sac)
     /\ Leaves("bind_token", Allow)
  \/ /\ AdminGate(signer) = Allow
     /\ ~ SameBinding(token, sac)
     /\ StoreBinding(token, sac)
     /\ Commits("bind_token", [type |-> "TokenBound", token |-> token])
     /\ UNCHANGED <<admin, config, configVersion, stateVersion, frozen>>

UnbindToken(signer, token) ==
  \/ Rejects("unbind_token", AdminGate(signer))
  \/ /\ AdminGate(signer) = Allow
     /\ ~ IsTokenBound(token)
     /\ Leaves("unbind_token", Allow)
  \/ /\ AdminGate(signer) = Allow
     /\ IsTokenBound(token)
     /\ RemoveBinding(token)
     /\ Commits("unbind_token", [type |-> "TokenUnbound", token |-> token])
     /\ UNCHANGED <<admin, config, configVersion, stateVersion>>

-----------------------------------------------------------------------------
(* Freeze administration. *)

Freeze(signer, token, account) ==
  \/ Rejects("freeze", FreezeAdminGate(signer, token))
  \/ /\ FreezeAdminGate(signer, token) = Allow
     /\ IsFrozen(token, account)
     /\ Leaves("freeze", Allow)
  \/ /\ FreezeAdminGate(signer, token) = Allow
     /\ ~ IsFrozen(token, account)
     /\ FreezeAccount(token, account)
     /\ Commits("freeze",
          [type |-> "AccountFrozen", token |-> token, account |-> account])
     /\ UNCHANGED <<admin, config, configVersion, stateVersion, binding>>

Unfreeze(signer, token, account) ==
  \/ Rejects("unfreeze", FreezeAdminGate(signer, token))
  \/ /\ FreezeAdminGate(signer, token) = Allow
     /\ ~ IsFrozen(token, account)
     /\ Leaves("unfreeze", Allow)
  \/ /\ FreezeAdminGate(signer, token) = Allow
     /\ IsFrozen(token, account)
     /\ UnfreezeAccount(token, account)
     /\ Commits("unfreeze",
          [type |-> "AccountUnfrozen", token |-> token, account |-> account])
     /\ UNCHANGED <<admin, config, configVersion, stateVersion, binding>>

-----------------------------------------------------------------------------
(***************************************************************************)
(* Hook entry points.  Anyone may invoke one, for any token.  The answers  *)
(* of the policy and of the SAC are given per party, not per account: an   *)
(* external contract may answer differently each time it is asked.         *)
(***************************************************************************)
Enforce(op, token, parties, policyAnswer, sacAnswer) ==
  LET frozenHere == {a \in Accounts : IsFrozen(token, a)}
  IN  Leaves(op, Evaluate(config, binding[token], frozenHere, op, parties,
                          policyAnswer, sacAnswer))

BeforeRegister(token, account, pa, sa) ==
  Enforce("register", token, <<account>>, pa, sa)

BeforeDeposit(token, from, to, pa, sa) ==
  Enforce("deposit", token, <<from, to>>, pa, sa)

\* Mutant: the sender is named twice, the receiver is not screened.
BeforeTransfer_ToUnscreened(token, from, to, pa, sa) ==
  Enforce("transfer", token, <<from, from>>, pa, sa)

BeforeTransfer(token, from, to, pa, sa) ==
  Enforce("transfer", token, <<from, to>>, pa, sa)

\* The exiting account is both parties, and is screened once for each.
BeforeWithdraw(token, account, pa, sa) ==
  Enforce("withdraw", token, <<account, account>>, pa, sa)

BeforeMerge(token, account, pa, sa) ==
  Enforce("merge", token, <<account>>, pa, sa)

BeforeTransferFrom(token, spender, from, to, pa, sa) ==
  Enforce("transfer_from", token, <<spender, from, to>>, pa, sa)

-----------------------------------------------------------------------------
(***************************************************************************)
(* The specification.  A deployment is fresh, or was upgraded in place     *)
(* from code that had every entry but the layout stamp: it has an admin,   *)
(* and it was configured if it has a version or a freeze.                  *)
(***************************************************************************)
NoTx == [fn |-> "none", result |-> Allow, event |-> None]

InitFresh ==
  /\ admin = None
  /\ config = None
  /\ configVersion = 0
  /\ binding = [t \in Tokens |-> None]
  /\ frozen = {}
  /\ upgraded = FALSE

InitUpgraded ==
  /\ admin \in Signers
  /\ \/ config = None /\ configVersion = 0 /\ frozen = {}
     \/ config \in Configs /\ configVersion \in 1 .. MaxU32
        /\ frozen \in SUBSET (Tokens \X Accounts)
  /\ binding \in [Tokens -> Bindings \cup {None}]
  /\ upgraded = TRUE

Init ==
  /\ InitFresh \/ InitUpgraded
  /\ stateVersion = 0
  /\ tx = NoTx

AdminNext ==
  \E signer \in Signers :
    \/ \E a \in Signers : Initialize(signer, a)
    \/ \E p \in Policies \cup {None}, b \in BOOLEAN : SetConfig(signer, p, b)
    \/ \E t \in Tokens :
         \/ \E s \in Sacs \cup {None} : BindToken(signer, t, s)
         \/ UnbindToken(signer, t)
         \/ \E a \in Accounts : Freeze(signer, t, a) \/ Unfreeze(signer, t, a)

\* The answers an evaluation of n parties may be given; an answer that no
\* configured gate asks for is "yes".
PolicyAnswers(n) ==
  [1 .. n -> IF config # None /\ config.policy # None THEN Answers ELSE {"yes"}]

SacAnswers(n) ==
  [1 .. n -> IF config # None /\ config.sacPassthrough THEN Answers ELSE {"yes"}]

HookNext ==
  \E t \in Tokens, x \in Accounts :
    \/ \E pa \in PolicyAnswers(1), sa \in SacAnswers(1) :
         BeforeRegister(t, x, pa, sa) \/ BeforeMerge(t, x, pa, sa)
    \/ \E pa \in PolicyAnswers(2), sa \in SacAnswers(2) : BeforeWithdraw(t, x, pa, sa)
    \/ \E y \in Accounts, pa \in PolicyAnswers(2), sa \in SacAnswers(2) :
         BeforeDeposit(t, x, y, pa, sa) \/ BeforeTransfer(t, x, y, pa, sa)
    \/ \E y, z \in Accounts, pa \in PolicyAnswers(3), sa \in SacAnswers(3) :
         BeforeTransferFrom(t, x, y, z, pa, sa)

Next == (AdminNext \/ HookNext) /\ UNCHANGED upgraded

Spec == Init /\ [][Next]_vars

-----------------------------------------------------------------------------
(* Properties. *)

(***************************************************************************)
(* The deployment lifecycle, whatever the order of the calls: only an      *)
(* initialized contract is configured or has a token in scope, only a      *)
(* configured one has frozen accounts, and the version is absent exactly   *)
(* as long as the configuration is.  The layout stamp can be absent from   *)
(* an initialized contract only when it was upgraded in place.             *)
(***************************************************************************)
LifecycleOrder ==
  /\ admin = None => config = None /\ \A t \in Tokens : binding[t] = None
  /\ config = None => frozen = {}
  /\ config = None <=> configVersion = 0
  /\ stateVersion = 0 => admin = None \/ upgraded

(***************************************************************************)
(* What the audit bridge can rebuild from the events alone, and how it     *)
(* applies one.                                                            *)
(***************************************************************************)
AuditView ==
  [admin |-> admin, config |-> config, configChanges |-> configVersion,
   scope |-> {t \in Tokens : IsTokenBound(t)}, frozen |-> frozen]

Apply(view, event) ==
  CASE event = None -> view
    [] event # None /\ event.type = "Initialized" ->
         [view EXCEPT !.admin = event.admin]
    [] event # None /\ event.type = "ComplianceConfigChanged" ->
         [view EXCEPT !.config = event.config, !.configChanges = @ + 1]
    [] event # None /\ event.type = "TokenBound" ->
         [view EXCEPT !.scope = @ \cup {event.token}]
    [] event # None /\ event.type = "TokenUnbound" ->
         [view EXCEPT !.scope = @ \ {event.token}]
    [] event # None /\ event.type = "AccountFrozen" ->
         [view EXCEPT !.frozen = @ \cup {<<event.token, event.account>>}]
    [] event # None /\ event.type = "AccountUnfrozen" ->
         [view EXCEPT !.frozen = @ \ {<<event.token, event.account>>}]

(***************************************************************************)
(* The event of a transaction, or its silence, is all the audit bridge     *)
(* needs to follow the authority, the configuration, the scope and every   *)
(* freeze: nothing changes unrecorded, nothing recorded did not happen,    *)
(* and the count of configuration events is config_version() itself.       *)
(***************************************************************************)
EventsTellAll == [][AuditView' = Apply(AuditView, tx'.event)]_vars

(***************************************************************************)
(* A repeated or retried call that finds its work done is silent: an       *)
(* event is published only by a transaction that changed storage.          *)
(***************************************************************************)
NoSpuriousEvent == [][tx'.event # None => store' # store]_vars

(***************************************************************************)
(* The layout stamp follows the configuration: every transaction that      *)
(* really rewrites the configuration leaves the layout stamped, and no     *)
(* transaction ever removes a stamp.                                       *)
(***************************************************************************)
RewriteStampsLayout ==
  [][/\ config' # config => stateVersion' = LayoutVersion
     /\ stateVersion # 0 => stateVersion' = stateVersion]_vars

(***************************************************************************)
(* The contract implements the ledger of EnforcementLedger: every          *)
(* transaction, whichever entry point it runs and however that ends, is    *)
(* one transition of the ledger or leaves it alone.  Rebinding a token to  *)
(* another SAC, an idempotent call, a denial and every hook leave it alone.*)
(***************************************************************************)
Ledger == INSTANCE EnforcementLedger WITH
  Authorities <- Signers, Rules <- Configs, Assets <- Tokens,
  Holders <- Accounts, Nobody <- None,
  authority <- admin, rules <- config, revision <- configVersion,
  scope <- {t \in Tokens : IsTokenBound(t)}, holds <- frozen

ImplementsLedger == Ledger!Spec
=============================================================================
