----------------------------- MODULE Compliance -----------------------------
(***************************************************************************)
(* The compliance evaluation (crates/compliance) as a function: the        *)
(* decision on one operation, given the contract's storage and the answers *)
(* the external policy and SAC contracts give.  Evaluator.tla models the   *)
(* same evaluation call by call.                                           *)
(*                                                                         *)
(* An answer is what a cross-contract call returns: "yes" and "no" for a   *)
(* Boolean, "fault" for a revert, a missing contract or a value that is    *)
(* not a Boolean.                                                          *)
(***************************************************************************)
EXTENDS HookCore

CONSTANT
  None    \* Rust's Option::None, and a ledger entry that is absent

Answers == {"yes", "no", "fault"}

\* Mutant: a frozen account may still receive.
FreezeGate_SenderOnly(role, isFrozen) ==
  IF HoldsFunds(role) /\ role # "to" /\ isFrozen THEN "account_frozen" ELSE Allow

\* A frozen fund-holder is stopped; the spender is not freeze-gated.
FreezeGate(role, isFrozen) ==
  IF HoldsFunds(role) /\ isFrozen THEN "account_frozen" ELSE Allow

\* Mutant: the spender's denial is not told apart.
PolicyGate_OneReason(policy, role, answer) ==
  CASE policy = None \/ answer = "yes"   -> Allow
    [] policy # None /\ answer = "no"    -> "policy_denied"
    [] policy # None /\ answer = "fault" -> "policy_unavailable"

\* Mutant: a policy that cannot be evaluated passes.
PolicyGate_FaultAllows(policy, role, answer) ==
  CASE policy = None \/ answer # "no" -> Allow
    [] policy # None /\ answer = "no" ->
         IF role = "spender" THEN "spender_not_authorized" ELSE "policy_denied"

\* Every role is screened by the policy, when one is configured.
PolicyGate(policy, role, answer) ==
  CASE policy = None \/ answer = "yes" -> Allow
    [] policy # None /\ answer = "no"  ->
         IF role = "spender" THEN "spender_not_authorized" ELSE "policy_denied"
    [] policy # None /\ answer = "fault" -> "policy_unavailable"

\* Whether a party's role, the configuration and the token call for the SAC.
SacApplies(passthrough, sac, role) == HoldsFunds(role) /\ passthrough /\ sac # None

\* The SAC gate fails on a refusal and on a fault alike.
SacGate(passthrough, sac, role, answer) ==
  IF SacApplies(passthrough, sac, role) /\ answer # "yes"
  THEN "sac_authorization_failed"
  ELSE Allow

\* One party through its gates: freeze, then policy, then SAC.
ScreenParty(config, sac, role, isFrozen, policyAnswer, sacAnswer) ==
  AndThen(FreezeGate(role, isFrozen),
    AndThen(PolicyGate(config.policy, role, policyAnswer),
            SacGate(config.sacPassthrough, sac, role, sacAnswer)))

\* The decision of the first party that is denied, in screening order.
FirstDenial(decisions) ==
  LET denied == {i \in DOMAIN decisions : decisions[i] # Allow}
  IN  IF denied = {} THEN Allow
      ELSE decisions[CHOOSE i \in denied : \A j \in denied : i <= j]

\* What is checked before any party: configuration, binding, arity.
StructuralGate(config, binding, op, parties) ==
  CASE config = None -> "invalid_configuration"
    [] config # None /\ binding = None -> "unbound_token"
    [] config # None /\ binding # None ->
         IF Len(parties) # Len(Parties(op)) THEN "invalid_configuration" ELSE Allow

(***************************************************************************)
(* The whole evaluation.  `binding' is None for an unbound token and a     *)
(* record with the token's SAC otherwise; `frozenHere' is the set of       *)
(* accounts frozen on the token; the i-th answers are those given for the  *)
(* i-th party.                                                             *)
(***************************************************************************)
Evaluate(config, binding, frozenHere, op, parties, policyAnswer, sacAnswer) ==
  AndThen(StructuralGate(config, binding, op, parties),
    FirstDenial([i \in DOMAIN parties |->
      ScreenParty(config, binding.sac, Parties(op)[i],
                  parties[i] \in frozenHere, policyAnswer[i], sacAnswer[i])]))
=============================================================================
