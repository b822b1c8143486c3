------------------------------ MODULE HookCore ------------------------------
(***************************************************************************)
(* The shared vocabulary of the enforcement layer (crates/hook-core): the  *)
(* gated operations and the parties each one names, the class of gates a   *)
(* party's role requires, and the decision algebra.  A decision is Allow   *)
(* or the reason of a denial.                                              *)
(***************************************************************************)
EXTENDS Naturals, Sequences

Operations ==
  {"register", "deposit", "merge", "transfer", "transfer_from", "withdraw"}

\* The roles an operation names, in the order they are screened.
Parties(op) ==
  CASE op \in {"register", "merge"}                -> <<"account">>
    [] op \in {"deposit", "transfer", "withdraw"}  -> <<"from", "to">>
    [] op = "transfer_from"                        -> <<"spender", "from", "to">>

\* Fund-holding roles pass every gate, the spender the policy gate only.
GateClass(role) == IF role = "spender" THEN "policy_only" ELSE "full"

HoldsFunds(role) == GateClass(role) = "full"

RejectionReasons ==
  {"unbound_token", "policy_denied", "account_frozen", "spender_not_authorized",
   "sac_authorization_failed", "invalid_configuration", "policy_unavailable"}

\* The stable code of a reason, the number a contract error carries.  The
\* codes of reasons that were removed are not issued again.
Code(reason) ==
  CASE reason = "unbound_token"            -> 2
    [] reason = "policy_denied"            -> 3
    [] reason = "account_frozen"           -> 4
    [] reason = "spender_not_authorized"   -> 5
    [] reason = "sac_authorization_failed" -> 8
    [] reason = "invalid_configuration"    -> 9
    [] reason = "policy_unavailable"       -> 10

\* Mutant: the code is taken for a position in the list of reasons.
FromCode_ByPosition(code) ==
  LET all == <<"unbound_token", "policy_denied", "account_frozen",
               "spender_not_authorized", "sac_authorization_failed",
               "invalid_configuration", "policy_unavailable">>
  IN  IF code \in DOMAIN all THEN all[code] ELSE "undocumented"

\* The reason a code stands for, if it stands for one.
FromCode(code) ==
  IF \E reason \in RejectionReasons : Code(reason) = code
  THEN CHOOSE reason \in RejectionReasons : Code(reason) = code
  ELSE "undocumented"

Allow == "allow"

Decisions == {Allow} \cup RejectionReasons

\* Two decisions combine to the earlier denial.
AndThen(decision, next) == IF decision = Allow THEN next ELSE decision
=============================================================================
