----------------------- MODULE ComplianceHooksProofs ------------------------
(***************************************************************************)
(* Proofs about the enforcement contract, for all sets of signers, tokens, *)
(* accounts, policies and SACs and any width of the version counter.       *)
(***************************************************************************)
EXTENDS ComplianceHooks, ComplianceProofs

\* A gate either allows or rejects with a result of the contract or the host.
LEMMA GatesDecide ==
  ASSUME NEW signer, NEW token
  PROVE  /\ AdminGate(signer) \in Results
         /\ FreezeAdminGate(signer, token) \in Results
         /\ AdminGate(signer) = Allow <=> admin # None /\ signer = admin
         /\ FreezeAdminGate(signer, token) = Allow <=>
              /\ admin # None /\ signer = admin
              /\ config # None /\ IsTokenBound(token)
  BY DEF AdminGate, FreezeAdminGate, ScopeGate, AndThen, Results, Decisions,
         RejectionReasons, Allow

(***************************************************************************)
(* What a hook does: it leaves the storage alone, publishes nothing, and   *)
(* ends with the decision of the evaluation.                               *)
(***************************************************************************)
LEMMA HookStep ==
  ASSUME HookNext
  PROVE  /\ UNCHANGED store
         /\ tx' \in [fn : Operations, result : Decisions, event : {None}]
<1> DEFINE Outcome ==
             /\ UNCHANGED store
             /\ tx' \in [fn : Operations, result : Decisions, event : {None}]
<1>1. ASSUME NEW op \in Operations, NEW t, NEW parties, NEW pa, NEW sa,
             DOMAIN parties = 1 .. Len(Parties(op)), Len(parties) = Len(Parties(op)),
             \A j \in DOMAIN parties : pa[j] \in Answers /\ sa[j] \in Answers,
             Enforce(op, t, parties, pa, sa)
      PROVE  Outcome
  <2> DEFINE frozenHere == {a \in Accounts : IsFrozen(t, a)}
  <2>1. Evaluate(config, binding[t], frozenHere, op, parties, pa, sa) \in Decisions
    BY <1>1, EvaluateDecides
  <2> QED  BY <1>1, <2>1 DEF Enforce, Leaves
<1>2. \A n : \A pa \in PolicyAnswers(n), sa \in SacAnswers(n) :
        \A j \in 1 .. n : pa[j] \in Answers /\ sa[j] \in Answers
  BY DEF PolicyAnswers, SacAnswers, Answers
<1>3. PICK t \in Tokens, x \in Accounts :
        \/ \E pa \in PolicyAnswers(1), sa \in SacAnswers(1) :
             BeforeRegister(t, x, pa, sa) \/ BeforeMerge(t, x, pa, sa)
        \/ \E pa \in PolicyAnswers(2), sa \in SacAnswers(2) :
             BeforeWithdraw(t, x, pa, sa)
        \/ \E y \in Accounts, pa \in PolicyAnswers(2), sa \in SacAnswers(2) :
             BeforeDeposit(t, x, y, pa, sa) \/ BeforeTransfer(t, x, y, pa, sa)
        \/ \E y, z \in Accounts, pa \in PolicyAnswers(3), sa \in SacAnswers(3) :
             BeforeTransferFrom(t, x, y, z, pa, sa)
  BY DEF HookNext
<1>4. ASSUME NEW pa \in PolicyAnswers(1), NEW sa \in SacAnswers(1),
             BeforeRegister(t, x, pa, sa) \/ BeforeMerge(t, x, pa, sa)
      PROVE  Outcome
  <2>1. \A op \in {"register", "merge"} :
          op \in Operations /\ Parties(op) = <<"account">>
    BY DEF Operations, Parties
  <2> QED  BY <1>1, <1>2, <1>4, <2>1 DEF BeforeRegister, BeforeMerge
<1>5. ASSUME NEW pa \in PolicyAnswers(2), NEW sa \in SacAnswers(2), NEW y \in Accounts,
             \/ BeforeWithdraw(t, x, pa, sa)
             \/ BeforeDeposit(t, x, y, pa, sa)
             \/ BeforeTransfer(t, x, y, pa, sa)
      PROVE  Outcome
  <2>1. \A op \in {"deposit", "transfer", "withdraw"} :
          op \in Operations /\ Parties(op) = <<"from", "to">>
    BY DEF Operations, Parties
  <2> QED  BY <1>1, <1>2, <1>5, <2>1 DEF BeforeWithdraw, BeforeDeposit, BeforeTransfer
<1>6. ASSUME NEW pa \in PolicyAnswers(3), NEW sa \in SacAnswers(3),
             NEW y \in Accounts, NEW z \in Accounts,
             BeforeTransferFrom(t, x, y, z, pa, sa)
      PROVE  Outcome
  <2>1. "transfer_from" \in Operations
        /\ Parties("transfer_from") = <<"spender", "from", "to">>
    BY DEF Operations, Parties
  <2> QED  BY <1>1, <1>2, <1>6, <2>1 DEF BeforeTransferFrom
<1> QED  BY <1>3, <1>4, <1>5, <1>6
-----------------------------------------------------------------------------
(***************************************************************************)
(* What a transaction can do to the storage, one effect per way an entry   *)
(* point commits.  The theorems below go by these effects.                 *)
(***************************************************************************)
Quiet ==
  /\ UNCHANGED store
  /\ tx' \in [fn : AdminCalls \cup Operations, result : Results, event : {None}]

Claims(a) ==
  /\ admin = None
  /\ admin' = a
  /\ stateVersion' = LayoutVersion
  /\ Commits("initialize", [type |-> "Initialized", admin |-> a])
  /\ UNCHANGED <<config, configVersion, binding, frozen>>

Rewrites(next) ==
  /\ admin # None
  /\ config # next
  /\ configVersion < MaxU32
  /\ SetComplianceConfig(next)
  /\ BumpConfigVersion
  /\ Commits("set_config", [type |-> "ComplianceConfigChanged", config |-> next])
  /\ UNCHANGED <<admin, binding, frozen>>

Binds(token, sac) ==
  /\ admin # None
  /\ ~ SameBinding(token, sac)
  /\ StoreBinding(token, sac)
  /\ Commits("bind_token", [type |-> "TokenBound", token |-> token])
  /\ UNCHANGED <<admin, config, configVersion, stateVersion, frozen>>

Unbinds(token) ==
  /\ IsTokenBound(token)
  /\ RemoveBinding(token)
  /\ Commits("unbind_token", [type |-> "TokenUnbound", token |-> token])
  /\ UNCHANGED <<admin, config, configVersion, stateVersion>>

Freezes(token, account) ==
  /\ config # None /\ IsTokenBound(token)
  /\ ~ IsFrozen(token, account)
  /\ FreezeAccount(token, account)
  /\ Commits("freeze", [type |-> "AccountFrozen", token |-> token, account |-> account])
  /\ UNCHANGED <<admin, config, configVersion, stateVersion, binding>>

Thaws(token, account) ==
  /\ config # None /\ IsTokenBound(token)
  /\ IsFrozen(token, account)
  /\ UnfreezeAccount(token, account)
  /\ Commits("unfreeze", [type |-> "AccountUnfrozen", token |-> token, account |-> account])
  /\ UNCHANGED <<admin, config, configVersion, stateVersion, binding>>

Effect ==
  \/ Quiet
  \/ \E a \in Signers : Claims(a)
  \/ \E c \in Configs : Rewrites(c)
  \/ \E t \in Tokens, s \in Sacs \cup {None} : Binds(t, s)
  \/ \E t \in Tokens : Unbinds(t)
  \/ \E t \in Tokens, a \in Accounts : Freezes(t, a) \/ Thaws(t, a)

\* A transaction that rejects or leaves things as they are is quiet.
LEMMA LeavesIsQuiet ==
  ASSUME NEW fn \in AdminCalls, NEW result \in Results, Leaves(fn, result)
  PROVE  Quiet
  BY DEF Leaves, Quiet

\* Every administrative transaction has one of the effects.
LEMMA AdminStepHasEffect ==
  ASSUME AdminNext
  PROVE  Effect
<1>1. PICK signer \in Signers :
        \/ \E a \in Signers : Initialize(signer, a)
        \/ \E p \in Policies \cup {None}, b \in BOOLEAN : SetConfig(signer, p, b)
        \/ \E t \in Tokens :
             \/ \E s \in Sacs \cup {None} : BindToken(signer, t, s)
             \/ UnbindToken(signer, t)
             \/ \E a \in Accounts : Freeze(signer, t, a) \/ Unfreeze(signer, t, a)
  BY DEF AdminNext
<1>2. \A r : r \in {"already_initialized", "host_auth", "host_overflow", Allow} => r \in Results
  BY DEF Results, Decisions
<1>3. \A fn \in AdminCalls, gate \in Results : Rejects(fn, gate) => Quiet
  BY LeavesIsQuiet DEF Rejects
<1>4. {"initialize", "set_config", "bind_token", "unbind_token", "freeze", "unfreeze"}
        \subseteq AdminCalls
  BY DEF AdminCalls
<1>5. ASSUME NEW a \in Signers, Initialize(signer, a)
      PROVE  Effect
  <2>1. \/ Leaves("initialize", "already_initialized")
        \/ Leaves("initialize", "host_auth")
        \/ Claims(a)
    BY <1>5 DEF Initialize, Claims
  <2> QED  BY <1>2, <1>4, <2>1, LeavesIsQuiet DEF Effect
<1>6. ASSUME NEW p \in Policies \cup {None}, NEW b \in BOOLEAN, SetConfig(signer, p, b)
      PROVE  Effect
  <2> DEFINE next == [policy |-> p, sacPassthrough |-> b]
  <2>1. next \in Configs
    BY DEF Configs
  <2>2. \/ Rejects("set_config", AdminGate(signer))
        \/ Leaves("set_config", Allow)
        \/ Leaves("set_config", "host_overflow")
        \/ Rewrites(next)
    BY <1>6, GatesDecide DEF SetConfig, Rewrites
  <2> QED  BY <1>2, <1>3, <1>4, <2>1, <2>2, GatesDecide, LeavesIsQuiet DEF Effect
<1>7. ASSUME NEW t \in Tokens, NEW s \in Sacs \cup {None}, BindToken(signer, t, s)
      PROVE  Effect
  <2>1. \/ Rejects("bind_token", AdminGate(signer))
        \/ Leaves("bind_token", Allow)
        \/ Binds(t, s)
    BY <1>7, GatesDecide DEF BindToken, Binds
  <2> QED  BY <1>2, <1>3, <1>4, <2>1, GatesDecide, LeavesIsQuiet DEF Effect
<1>8. ASSUME NEW t \in Tokens, UnbindToken(signer, t)
      PROVE  Effect
  <2>1. \/ Rejects("unbind_token", AdminGate(signer))
        \/ Leaves("unbind_token", Allow)
        \/ Unbinds(t)
    BY <1>8 DEF UnbindToken, Unbinds
  <2> QED  BY <1>2, <1>3, <1>4, <2>1, GatesDecide, LeavesIsQuiet DEF Effect
<1>9. ASSUME NEW t \in Tokens, NEW a \in Accounts,
             Freeze(signer, t, a) \/ Unfreeze(signer, t, a)
      PROVE  Effect
  <2>1. \/ Rejects("freeze", FreezeAdminGate(signer, t))
        \/ Rejects("unfreeze", FreezeAdminGate(signer, t))
        \/ Leaves("freeze", Allow)
        \/ Leaves("unfreeze", Allow)
        \/ Freezes(t, a)
        \/ Thaws(t, a)
    BY <1>9, GatesDecide DEF Freeze, Unfreeze, Freezes, Thaws
  <2> QED  BY <1>2, <1>3, <1>4, <2>1, GatesDecide, LeavesIsQuiet DEF Effect
<1> QED  BY <1>1, <1>5, <1>6, <1>7, <1>8, <1>9

\* Every transaction has one of the effects.
LEMMA StepHasEffect ==
  ASSUME Next
  PROVE  Effect /\ UNCHANGED upgraded
<1>1. CASE HookNext
  <2>1. UNCHANGED store /\ tx' \in [fn : Operations, result : Decisions, event : {None}]
    BY <1>1, HookStep
  <2> QED  BY <2>1 DEF Effect, Quiet, Results, Next
<1>2. CASE AdminNext
  BY <1>2, AdminStepHasEffect DEF Next
<1> QED  BY <1>1, <1>2 DEF Next
-----------------------------------------------------------------------------
(* Type correctness. *)

\* A contract starts well typed, fresh or upgraded.
LEMMA InitTypeOK ==
  ASSUME Init
  PROVE  TypeOK
<1>1. tx \in [fn : AdminCalls \cup Operations \cup {"none"},
              result : Results, event : Events \cup {None}]
  BY DEF Init, NoTx, Results, Decisions
<1>2. /\ admin \in Signers \cup {None}
      /\ config \in Configs \cup {None}
      /\ configVersion \in 0 .. MaxU32
  BY MaxU32Assumption DEF Init, InitFresh, InitUpgraded
<1>3. binding \in [Tokens -> Bindings \cup {None}]
  <2>1. CASE InitFresh
    BY <2>1 DEF InitFresh
  <2>2. CASE InitUpgraded
    BY <2>2 DEF InitUpgraded
  <2> QED  BY <2>1, <2>2 DEF Init
<1>4. frozen \subseteq Tokens \X Accounts /\ stateVersion \in 0 .. 1
  BY DEF Init, InitFresh, InitUpgraded
<1>5. upgraded \in BOOLEAN
  BY Zenon DEF Init, InitFresh, InitUpgraded
<1> QED  BY <1>1, <1>2, <1>3, <1>4, <1>5 DEF TypeOK

\* Every transaction keeps the types: effect by effect, only the fields it writes.
LEMMA StepTypeOK ==
  ASSUME TypeOK, [Next]_vars
  PROVE  TypeOK'
<1>1. CASE UNCHANGED vars
  BY <1>1 DEF TypeOK, vars, store
<1>2. CASE Next
  <2>1. Effect /\ UNCHANGED upgraded
    BY <1>2, StepHasEffect
  <2>2. Allow \in Results
    BY DEF Results, Decisions
  <2>3. CASE Quiet
    BY <2>1, <2>3 DEF TypeOK, Quiet, store
  <2>4. ASSUME NEW a \in Signers, Claims(a)
        PROVE  TypeOK'
    BY <2>1, <2>2, <2>4 DEF TypeOK, Claims, Commits, LayoutVersion, Events, AdminCalls
  <2>5. ASSUME NEW c \in Configs, Rewrites(c)
        PROVE  TypeOK'
    <3>1. configVersion' \in 0 .. MaxU32
      BY <2>5, MaxU32Assumption DEF TypeOK, Rewrites, BumpConfigVersion
    <3>2. config' \in Configs /\ stateVersion' \in 0 .. 1
      BY <2>5 DEF TypeOK, Rewrites, SetComplianceConfig, LayoutVersion
    <3> QED  BY <2>1, <2>2, <2>5, <3>1, <3>2 DEF TypeOK, Rewrites, Commits, Events, AdminCalls
  <2>6. ASSUME NEW t \in Tokens, NEW s \in Sacs \cup {None}, Binds(t, s)
        PROVE  TypeOK'
    <3>1. binding' \in [Tokens -> Bindings \cup {None}]
      BY <2>6 DEF TypeOK, Binds, StoreBinding, Bindings
    <3> QED  BY <2>1, <2>2, <2>6, <3>1 DEF TypeOK, Binds, Commits, Events, AdminCalls
  <2>7. ASSUME NEW t \in Tokens, Unbinds(t)
        PROVE  TypeOK'
    BY <2>1, <2>2, <2>7 DEF TypeOK, Unbinds, RemoveBinding, Commits, Events, AdminCalls
  <2>8. ASSUME NEW t \in Tokens, NEW a \in Accounts, Freezes(t, a) \/ Thaws(t, a)
        PROVE  TypeOK'
    BY <2>1, <2>2, <2>8 DEF TypeOK, Freezes, Thaws, FreezeAccount, UnfreezeAccount,
                            Commits, Events, AdminCalls
  <2> QED  BY <2>1, <2>3, <2>4, <2>5, <2>6, <2>7, <2>8 DEF Effect
<1> QED  BY <1>1, <1>2

(***************************************************************************)
(* Whatever is called, the storage of the contract and the outcome of a    *)
(* transaction keep their types; in particular the version counter stays   *)
(* within its width and the layout stamp is never counted past LayoutVersion. *)
(***************************************************************************)
THEOREM TypeCorrect == Spec => []TypeOK
  BY InitTypeOK, StepTypeOK, PTL DEF Spec

-----------------------------------------------------------------------------
(* The lifecycle. *)

\* A contract starts within its lifecycle.
LEMMA InitLifecycle ==
  ASSUME Init
  PROVE  LifecycleOrder
  BY NoneAssumption, MaxU32Assumption DEF Init, InitFresh, InitUpgraded, LifecycleOrder

\* Every transaction keeps the lifecycle.
LEMMA StepLifecycle ==
  ASSUME TypeOK, LifecycleOrder, [Next]_vars
  PROVE  LifecycleOrder'
<1>1. CASE UNCHANGED vars
  BY <1>1 DEF LifecycleOrder, vars, store
<1>2. CASE Next
  <2>1. Effect /\ UNCHANGED upgraded
    BY <1>2, StepHasEffect
  <2>2. CASE Quiet
    BY <2>1, <2>2 DEF LifecycleOrder, Quiet, store
  <2>3. ASSUME NEW a \in Signers, Claims(a)
        PROVE  LifecycleOrder'
    BY <2>1, <2>3, NoneAssumption DEF LifecycleOrder, Claims, LayoutVersion
  <2>4. ASSUME NEW c \in Configs, Rewrites(c)
        PROVE  LifecycleOrder'
    <3>1. configVersion' # 0
      BY <2>4 DEF TypeOK, Rewrites, BumpConfigVersion
    <3>2. config' # None /\ admin' # None /\ stateVersion' # 0
      BY <2>4, NoneAssumption DEF Rewrites, SetComplianceConfig, LayoutVersion
    <3> QED  BY <3>1, <3>2 DEF LifecycleOrder
  <2>5. ASSUME NEW t \in Tokens, NEW s \in Sacs \cup {None}, Binds(t, s)
        PROVE  LifecycleOrder'
    BY <2>1, <2>5 DEF LifecycleOrder, Binds
  <2>6. ASSUME NEW t \in Tokens, Unbinds(t)
        PROVE  LifecycleOrder'
    BY <2>1, <2>6 DEF LifecycleOrder, TypeOK, Unbinds, RemoveBinding
  <2>7. ASSUME NEW t \in Tokens, NEW a \in Accounts, Freezes(t, a) \/ Thaws(t, a)
        PROVE  LifecycleOrder'
    BY <2>1, <2>7 DEF LifecycleOrder, Freezes, Thaws
  <2> QED  BY <2>1, <2>2, <2>3, <2>4, <2>5, <2>6, <2>7 DEF Effect
<1> QED  BY <1>1, <1>2

(***************************************************************************)
(* No order of calls takes the contract out of its lifecycle: nothing is   *)
(* configured or bound before there is an admin, nothing frozen before     *)
(* there is a configuration, the version counts from the first one, and a  *)
(* contract deployed by this code is stamped as soon as it has an admin.   *)
(***************************************************************************)
THEOREM Lifecycle == Spec => []LifecycleOrder
<1>1. Init => TypeOK /\ LifecycleOrder
  BY InitTypeOK, InitLifecycle
<1>2. TypeOK /\ LifecycleOrder /\ [Next]_vars => (TypeOK /\ LifecycleOrder)'
  BY StepTypeOK, StepLifecycle
<1> QED  BY <1>1, <1>2, PTL DEF Spec
-----------------------------------------------------------------------------
(* What the events tell. *)

\* As long as the bindings stay, so does the scope.
LEMMA SameBindingsSameScope ==
  ASSUME UNCHANGED binding
  PROVE  {u \in Tokens : IsTokenBound(u)}' = {u \in Tokens : IsTokenBound(u)}
  BY DEF IsTokenBound

\* Applying the event of one transaction to the view before it gives the view after.
LEMMA StepAudited ==
  ASSUME TypeOK, Next
  PROVE  AuditView' = Apply(AuditView, tx'.event)
<1>1. Effect
  BY StepHasEffect
<1>2. CASE Quiet
  <2>1. tx'.event = None
    BY <1>2 DEF Quiet
  <2>2. AuditView' = AuditView
    BY <1>2 DEF Quiet, AuditView, IsTokenBound, store
  <2> QED  BY <2>1, <2>2 DEF Apply
<1>3. ASSUME NEW a \in Signers, Claims(a)
      PROVE  AuditView' = Apply(AuditView, tx'.event)
  <2>1. tx'.event = [type |-> "Initialized", admin |-> a] /\ tx'.event # None
    BY <1>3, NoneAssumption DEF Claims, Commits, Events
  <2> QED  BY <1>3, <2>1 DEF Claims, AuditView, Apply, IsTokenBound
<1>4. ASSUME NEW c \in Configs, Rewrites(c)
      PROVE  AuditView' = Apply(AuditView, tx'.event)
  <2>1. tx'.event = [type |-> "ComplianceConfigChanged", config |-> c] /\ tx'.event # None
    BY <1>4, NoneAssumption DEF Rewrites, Commits, Events
  <2> DEFINE scope == {u \in Tokens : IsTokenBound(u)}
             count == configVersion + 1
             after == [admin |-> admin, config |-> c, configChanges |-> count,
                       scope |-> scope, frozen |-> frozen]
  <2>2. Apply(AuditView, tx'.event) = after
    <3>1. Apply(AuditView, tx'.event)
            = [AuditView EXCEPT !.config = c, !.configChanges = count]
      BY <2>1 DEF Apply, AuditView
    <3>2. AuditView = [admin |-> admin, config |-> config, configChanges |-> configVersion,
                       scope |-> scope, frozen |-> frozen]
      BY DEF AuditView
    <3> DEFINE half == [admin |-> admin, config |-> c, configChanges |-> configVersion,
                        scope |-> scope, frozen |-> frozen]
    <3> HIDE DEF scope, count
    <3>3. [AuditView EXCEPT !.config = c] = half
      BY <3>2
    <3>4. [half EXCEPT !.configChanges = count] = after
      OBVIOUS
    <3> QED  BY <3>1, <3>3, <3>4
  <2>3. /\ config' = c /\ configVersion' = configVersion + 1
        /\ UNCHANGED <<admin, binding, frozen>>
    BY <1>4 DEF Rewrites, SetComplianceConfig, BumpConfigVersion
  <2>4. AuditView' = after
    BY <2>3, SameBindingsSameScope DEF AuditView
  <2> QED  BY <2>2, <2>4
<1>5. ASSUME NEW t \in Tokens, NEW s \in Sacs \cup {None}, Binds(t, s)
      PROVE  AuditView' = Apply(AuditView, tx'.event)
  <2>1. tx'.event = [type |-> "TokenBound", token |-> t] /\ tx'.event # None
    BY <1>5, NoneAssumption DEF Binds, Commits, Events
  <2>2. [sac |-> s] # None
    BY NoneAssumption DEF Bindings
  <2>3. {u \in Tokens : IsTokenBound(u)}' = {u \in Tokens : IsTokenBound(u)} \cup {t}
    BY <1>5, <2>2 DEF TypeOK, Binds, StoreBinding, IsTokenBound
  <2> QED  BY <1>5, <2>1, <2>3 DEF Binds, AuditView, Apply
<1>6. ASSUME NEW t \in Tokens, Unbinds(t)
      PROVE  AuditView' = Apply(AuditView, tx'.event)
  <2>1. tx'.event = [type |-> "TokenUnbound", token |-> t] /\ tx'.event # None
    BY <1>6, NoneAssumption DEF Unbinds, Commits, Events
  <2>2. {u \in Tokens : IsTokenBound(u)}' = {u \in Tokens : IsTokenBound(u)} \ {t}
    BY <1>6 DEF TypeOK, Unbinds, RemoveBinding, IsTokenBound
  <2> QED  BY <1>6, <2>1, <2>2 DEF Unbinds, RemoveBinding, AuditView, Apply
<1>7. ASSUME NEW t \in Tokens, NEW a \in Accounts, Freezes(t, a)
      PROVE  AuditView' = Apply(AuditView, tx'.event)
  <2>1. /\ tx'.event = [type |-> "AccountFrozen", token |-> t, account |-> a]
        /\ tx'.event # None
    BY <1>7, NoneAssumption DEF Freezes, Commits, Events
  <2> QED  BY <1>7, <2>1 DEF Freezes, FreezeAccount, AuditView, Apply, IsTokenBound
<1>8. ASSUME NEW t \in Tokens, NEW a \in Accounts, Thaws(t, a)
      PROVE  AuditView' = Apply(AuditView, tx'.event)
  <2>1. /\ tx'.event = [type |-> "AccountUnfrozen", token |-> t, account |-> a]
        /\ tx'.event # None
    BY <1>8, NoneAssumption DEF Thaws, Commits, Events
  <2>2. /\ frozen' = frozen \ {<<t, a>>}
        /\ UNCHANGED <<admin, config, configVersion, binding>>
    BY <1>8 DEF Thaws, UnfreezeAccount
  <2> DEFINE scope == {u \in Tokens : IsTokenBound(u)}
             after == [admin |-> admin, config |-> config, configChanges |-> configVersion,
                       scope |-> scope, frozen |-> frozen \ {<<t, a>>}]
  <2>3. AuditView' = after
    BY <2>2, SameBindingsSameScope DEF AuditView
  <2>4. Apply(AuditView, tx'.event) = after
    BY <2>1 DEF Apply, AuditView
  <2> QED  BY <2>3, <2>4
<1> QED  BY <1>1, <1>2, <1>3, <1>4, <1>5, <1>6, <1>7, <1>8 DEF Effect

(***************************************************************************)
(* The events a contract publishes are a complete record: an observer that *)
(* applies each one to its view of the contract has, after every           *)
(* transaction, the contract's own admin, configuration, number of         *)
(* configuration changes, tokens in scope and frozen accounts.             *)
(***************************************************************************)
THEOREM EventsAreComplete == Spec => EventsTellAll
<1>1. TypeOK /\ [Next]_vars => [AuditView' = Apply(AuditView, tx'.event)]_vars
  BY StepAudited
<1> QED  BY <1>1, TypeCorrect, PTL DEF Spec, EventsTellAll

\* A transaction that publishes has changed the admin, the configuration, a
\* binding or a freeze.
LEMMA StepPublishesChange ==
  ASSUME TypeOK, Next, tx'.event # None
  PROVE  store' # store
<1>1. Effect
  BY StepHasEffect
<1>2. ASSUME Quiet
      PROVE  FALSE
  BY <1>2 DEF Quiet
<1>3. ASSUME NEW a \in Signers, Claims(a)
      PROVE  store' # store
  BY <1>3, NoneAssumption DEF Claims, store
<1>4. ASSUME NEW c \in Configs, Rewrites(c)
      PROVE  store' # store
  BY <1>4 DEF Rewrites, SetComplianceConfig, store
<1>5. ASSUME NEW t \in Tokens, NEW s \in Sacs \cup {None}, Binds(t, s)
      PROVE  store' # store
  <2>1. binding'[t] # binding[t]
    BY <1>5 DEF TypeOK, Binds, StoreBinding, SameBinding
  <2> QED  BY <2>1 DEF store
<1>6. ASSUME NEW t \in Tokens, Unbinds(t)
      PROVE  store' # store
  <2>1. binding'[t] # binding[t]
    BY <1>6 DEF TypeOK, Unbinds, RemoveBinding, IsTokenBound
  <2> QED  BY <2>1 DEF store
<1>7. ASSUME NEW t \in Tokens, NEW a \in Accounts, Freezes(t, a) \/ Thaws(t, a)
      PROVE  store' # store
  <2>1. frozen' # frozen
    BY <1>7 DEF Freezes, Thaws, FreezeAccount, UnfreezeAccount, IsFrozen
  <2> QED  BY <2>1 DEF store
<1> QED  BY <1>1, <1>2, <1>3, <1>4, <1>5, <1>6, <1>7 DEF Effect

(***************************************************************************)
(* A call that finds its work done, is denied or fails publishes nothing:  *)
(* repeating a call whose answer was lost never shows up twice in the      *)
(* audit trail.                                                            *)
(***************************************************************************)
THEOREM RepeatsAreSilent == Spec => NoSpuriousEvent
<1>1. TypeOK /\ [Next]_vars => [tx'.event # None => store' # store]_vars
  BY StepPublishesChange
<1> QED  BY <1>1, TypeCorrect, PTL DEF Spec, NoSpuriousEvent

\* What one transaction does to the layout stamp.
LEMMA StepStamps ==
  ASSUME TypeOK, Next
  PROVE  /\ config' # config => stateVersion' = LayoutVersion
         /\ stateVersion # 0 => stateVersion' = stateVersion
<1>1. stateVersion \in {0, LayoutVersion}
  BY DEF TypeOK, LayoutVersion
<1>2. CASE Quiet
  BY <1>2 DEF Quiet, store
<1>3. CASE \E a \in Signers : Claims(a)
  BY <1>1, <1>3 DEF Claims
<1>4. CASE \E c \in Configs : Rewrites(c)
  BY <1>1, <1>4 DEF Rewrites, SetComplianceConfig
<1>5. CASE \/ \E t \in Tokens, s \in Sacs \cup {None} : Binds(t, s)
           \/ \E t \in Tokens : Unbinds(t)
           \/ \E t \in Tokens, a \in Accounts : Freezes(t, a) \/ Thaws(t, a)
  BY <1>5 DEF Binds, Unbinds, Freezes, Thaws
<1> QED  BY <1>2, <1>3, <1>4, <1>5, StepHasEffect DEF Effect

(***************************************************************************)
(* A contract upgraded in place heals at the first real change of its      *)
(* configuration, and a stamped layout stays stamped.                      *)
(***************************************************************************)
THEOREM RewritesHealTheStamp == Spec => RewriteStampsLayout
<1>1. TypeOK /\ [Next]_vars =>
        [/\ config' # config => stateVersion' = LayoutVersion
         /\ stateVersion # 0 => stateVersion' = stateVersion]_vars
  BY StepStamps
<1> QED  BY <1>1, TypeCorrect, PTL DEF Spec, RewriteStampsLayout
-----------------------------------------------------------------------------
(* The contract implements the ledger. *)

\* A contract starts as a ledger may start.
LEMMA InitImplements ==
  ASSUME Init
  PROVE  Ledger!Init
<1>1. TypeOK /\ LifecycleOrder
  BY InitTypeOK, InitLifecycle
<1>2. admin = None => {t \in Tokens : IsTokenBound(t)} = {}
  BY <1>1 DEF LifecycleOrder, IsTokenBound
<1>3. configVersion \in Nat
  BY <1>1, MaxU32Assumption DEF TypeOK
<1>4. {t \in Tokens : IsTokenBound(t)} \in SUBSET Tokens
  OBVIOUS
<1> QED  BY <1>1, <1>2, <1>3, <1>4 DEF Ledger!Init, TypeOK, LifecycleOrder

\* Every transaction is a transition of the ledger or leaves it alone.
LEMMA StepImplements ==
  ASSUME TypeOK, LifecycleOrder, [Next]_vars
  PROVE  [Ledger!Next]_Ledger!ledgerVars
<1> DEFINE scope == {t \in Tokens : IsTokenBound(t)}
<1>1. ASSUME UNCHANGED store
      PROVE  UNCHANGED Ledger!ledgerVars
  BY <1>1, SameBindingsSameScope DEF store, Ledger!ledgerVars
<1>2. CASE UNCHANGED vars
  BY <1>1, <1>2 DEF vars
<1>3. CASE Quiet
  BY <1>1, <1>3 DEF Quiet
<1>4. ASSUME NEW a \in Signers, Claims(a)
      PROVE  Ledger!Next
  <2>1. Ledger!Claim(a)
    BY <1>4, SameBindingsSameScope DEF Claims, Ledger!Claim
  <2> QED  BY <2>1 DEF Ledger!Next
<1>5. ASSUME NEW c \in Configs, Rewrites(c)
      PROVE  Ledger!Next
  <2>1. Ledger!Rewrite(c)
    BY <1>5, SameBindingsSameScope
    DEF Rewrites, SetComplianceConfig, BumpConfigVersion, Ledger!Rewrite
  <2> QED  BY <2>1 DEF Ledger!Next
<1>6. ASSUME NEW t \in Tokens, NEW s \in Sacs \cup {None}, Binds(t, s)
      PROVE  [Ledger!Next]_Ledger!ledgerVars
  <2>1. [sac |-> s] # None
    BY NoneAssumption DEF Bindings
  <2>2. scope' = scope \cup {t}
    BY <1>6, <2>1 DEF TypeOK, Binds, StoreBinding, IsTokenBound
  <2>3. UNCHANGED <<admin, config, configVersion, frozen>> /\ admin # None
    BY <1>6 DEF Binds
  <2>4. CASE t \in scope
    BY <2>2, <2>3, <2>4 DEF Ledger!ledgerVars
  <2>5. CASE t \notin scope
    <3>1. Ledger!Admit(t)
      BY <2>2, <2>3, <2>5 DEF Ledger!Admit
    <3> QED  BY <3>1 DEF Ledger!Next
  <2> QED  BY <2>4, <2>5
<1>7. ASSUME NEW t \in Tokens, Unbinds(t)
      PROVE  Ledger!Next
  <2>1. scope' = scope \ {t}
    BY <1>7 DEF TypeOK, Unbinds, RemoveBinding, IsTokenBound
  <2>2. Ledger!Dismiss(t)
    BY <1>7, <2>1 DEF Unbinds, RemoveBinding, Ledger!Dismiss
  <2> QED  BY <2>2 DEF Ledger!Next
<1>8. ASSUME NEW t \in Tokens, NEW a \in Accounts, Freezes(t, a)
      PROVE  Ledger!Next
  <2>1. Ledger!Place(t, a)
    BY <1>8, SameBindingsSameScope DEF Freezes, FreezeAccount, IsFrozen, Ledger!Place
  <2> QED  BY <2>1 DEF Ledger!Next
<1>9. ASSUME NEW t \in Tokens, NEW a \in Accounts, Thaws(t, a)
      PROVE  Ledger!Next
  <2>1. Ledger!Lift(t, a)
    BY <1>9, SameBindingsSameScope DEF Thaws, UnfreezeAccount, IsFrozen, Ledger!Lift
  <2> QED  BY <2>1 DEF Ledger!Next
<1> QED  BY <1>2, <1>3, <1>4, <1>5, <1>6, <1>7, <1>8, <1>9, StepHasEffect DEF Effect

(***************************************************************************)
(* The contract, with its storage, its authorizations, its idempotent      *)
(* calls and its hooks, does nothing but what the ledger of                *)
(* EnforcementLedger allows.                                               *)
(***************************************************************************)
THEOREM Refinement == Spec => ImplementsLedger
<1>1. Init => Ledger!Init
  BY InitImplements
<1>2. TypeOK /\ LifecycleOrder /\ [Next]_vars => [Ledger!Next]_Ledger!ledgerVars
  BY StepImplements
<1> QED  BY <1>1, <1>2, TypeCorrect, Lifecycle, PTL DEF Spec, ImplementsLedger, Ledger!Spec
-----------------------------------------------------------------------------
(***************************************************************************)
(* An answer that no configured gate asks for changes no decision, so that *)
(* a hook that gets any answers decides as with some of those the          *)
(* specification chooses from.                                             *)
(***************************************************************************)
LEMMA UnaskedAnswers ==
  ASSUME TypeOK, NEW op \in Operations, NEW t \in Tokens, NEW n \in Nat,
         NEW parties, DOMAIN parties = 1 .. n, NEW pa, NEW sa,
         \A j \in 1 .. n : pa[j] \in Answers /\ sa[j] \in Answers,
         Enforce(op, t, parties, pa, sa)
  PROVE  \E q \in PolicyAnswers(n), r \in SacAnswers(n) : Enforce(op, t, parties, q, r)
<1> DEFINE q == [j \in 1 .. n |-> IF config # None /\ config.policy # None THEN pa[j] ELSE "yes"]
           r == [j \in 1 .. n |-> IF config # None /\ config.sacPassthrough THEN sa[j] ELSE "yes"]
           frozenHere == {a \in Accounts : IsFrozen(t, a)}
           Screened(p, s) ==
             [j \in DOMAIN parties |->
               ScreenParty(config, binding[t].sac, Parties(op)[j],
                           parties[j] \in frozenHere, p[j], s[j])]
<1>1. q \in PolicyAnswers(n) /\ r \in SacAnswers(n)
  BY DEF PolicyAnswers, SacAnswers
<1>2. Evaluate(config, binding[t], frozenHere, op, parties, q, r)
        = Evaluate(config, binding[t], frozenHere, op, parties, pa, sa)
  <2>1. CASE config = None
    BY <2>1 DEF Evaluate, StructuralGate, AndThen, Allow
  <2>2. CASE config # None
    <3>1. config.sacPassthrough \in BOOLEAN
      BY <2>2 DEF TypeOK, Configs
    <3>2. ASSUME NEW j \in 1 .. n
          PROVE  /\ PolicyGate(config.policy, Parties(op)[j], q[j])
                      = PolicyGate(config.policy, Parties(op)[j], pa[j])
                 /\ SacGate(config.sacPassthrough, binding[t].sac, Parties(op)[j], r[j])
                      = SacGate(config.sacPassthrough, binding[t].sac, Parties(op)[j], sa[j])
      BY <2>2, <3>1 DEF PolicyGate, SacGate, SacApplies
    <3>3. Screened(q, r) = Screened(pa, sa)
      BY <3>2, Zenon DEF ScreenParty
    <3> QED  BY <3>3, Zenon DEF Evaluate
  <2> QED  BY <2>1, <2>2
<1>3. Enforce(op, t, parties, q, r)
  BY <1>2, Zenon DEF Enforce
<1> HIDE DEF q, r
<1> QED  BY <1>1, <1>3

\* A hook that gets any answers is a hook of the specification.
LEMMA AnyAnswersWillDo ==
  ASSUME TypeOK, NEW t \in Tokens,
         NEW x \in Accounts, NEW y \in Accounts, NEW z \in Accounts
  PROVE  /\ \A pa, sa \in [1 .. 1 -> Answers] :
              BeforeRegister(t, x, pa, sa) \/ BeforeMerge(t, x, pa, sa) => HookNext
         /\ \A pa, sa \in [1 .. 2 -> Answers] :
              BeforeWithdraw(t, x, pa, sa) \/ BeforeDeposit(t, x, y, pa, sa)
                \/ BeforeTransfer(t, x, y, pa, sa) => HookNext
         /\ \A pa, sa \in [1 .. 3 -> Answers] :
              BeforeTransferFrom(t, z, x, y, pa, sa) => HookNext
<1>1. ASSUME NEW pa \in [1 .. 1 -> Answers], NEW sa \in [1 .. 1 -> Answers],
             NEW op \in {"register", "merge"}, Enforce(op, t, <<x>>, pa, sa)
      PROVE  \E q \in PolicyAnswers(1), r \in SacAnswers(1) : Enforce(op, t, <<x>>, q, r)
  <2>1. 1 \in Nat /\ DOMAIN <<x>> = 1 .. 1 /\ op \in Operations
    BY DEF Operations
  <2>2. \A j \in 1 .. 1 : pa[j] \in Answers /\ sa[j] \in Answers
    BY <1>1
  <2> QED  BY <1>1, <2>1, <2>2, UnaskedAnswers
<1>2. ASSUME NEW pa \in [1 .. 2 -> Answers], NEW sa \in [1 .. 2 -> Answers],
             NEW op \in {"withdraw", "deposit", "transfer"}, NEW to \in Accounts,
             Enforce(op, t, <<x, to>>, pa, sa)
      PROVE  \E q \in PolicyAnswers(2), r \in SacAnswers(2) : Enforce(op, t, <<x, to>>, q, r)
  <2>1. 2 \in Nat /\ DOMAIN <<x, to>> = 1 .. 2 /\ op \in Operations
    BY DEF Operations
  <2>2. \A j \in 1 .. 2 : pa[j] \in Answers /\ sa[j] \in Answers
    BY <1>2
  <2> QED  BY <1>2, <2>1, <2>2, UnaskedAnswers
<1>3. ASSUME NEW pa \in [1 .. 3 -> Answers], NEW sa \in [1 .. 3 -> Answers],
             Enforce("transfer_from", t, <<z, x, y>>, pa, sa)
      PROVE  \E q \in PolicyAnswers(3), r \in SacAnswers(3) :
               Enforce("transfer_from", t, <<z, x, y>>, q, r)
  <2>1. 3 \in Nat /\ DOMAIN <<z, x, y>> = 1 .. 3 /\ "transfer_from" \in Operations
    BY DEF Operations
  <2>2. \A j \in 1 .. 3 : pa[j] \in Answers /\ sa[j] \in Answers
    BY <1>3
  <2> QED  BY <1>3, <2>1, <2>2, UnaskedAnswers
<1>4. \A pa, sa \in [1 .. 1 -> Answers] :
        BeforeRegister(t, x, pa, sa) \/ BeforeMerge(t, x, pa, sa) => HookNext
  BY <1>1 DEF BeforeRegister, BeforeMerge, HookNext
<1>5. \A pa, sa \in [1 .. 2 -> Answers] :
        BeforeWithdraw(t, x, pa, sa) \/ BeforeDeposit(t, x, y, pa, sa)
          \/ BeforeTransfer(t, x, y, pa, sa) => HookNext
  BY <1>2 DEF BeforeWithdraw, BeforeDeposit, BeforeTransfer, HookNext
<1>6. \A pa, sa \in [1 .. 3 -> Answers] :
        BeforeTransferFrom(t, z, x, y, pa, sa) => HookNext
  BY <1>3 DEF BeforeTransferFrom, HookNext
<1> QED  BY <1>4, <1>5, <1>6
=============================================================================
