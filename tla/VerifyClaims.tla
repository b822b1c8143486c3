---------------------------- MODULE VerifyClaims ----------------------------
(* A statement the docs make of verify that its code does not bear out. *)
EXTENDS MCVerifyCLI

(***************************************************************************)
(* docs/deployment.md:176: "the live `policy` equals the config's recorded *)
(* policy, catching a reconfiguration that never made it back into the     *)
(* deployment record": where a policy is on record, a contract that passes *)
(* undisturbed asks that policy.                                           *)
(***************************************************************************)
RecordedPolicyIsLive ==
  Passes /\ quiet /\ record.policy # None => config.policy = record.policy
=============================================================================
