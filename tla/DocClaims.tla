----------------------------- MODULE DocClaims ------------------------------
(***************************************************************************)
(* A statement the repository's docs make of the contract that its code    *)
(* does not bear out.  It is checked alone and found violated.             *)
(***************************************************************************)
EXTENDS MCComplianceHooks

(***************************************************************************)
(* docs/storage.md:28: after an upgrade in place "the first admin-gated    *)
(* set_config ... stamps the layout": an accepted set_config leaves a      *)
(* stamp.                                                                  *)
(***************************************************************************)
SetConfigHealsStamp ==
  [][tx'.fn = "set_config" /\ tx'.result = Allow => stateVersion' # 0]_vars
=============================================================================
