------------------------- MODULE MCComplianceHooks --------------------------
(* ComplianceHooks on small sets, for TLC. *)
EXTENDS ComplianceHooks, TLC

\* Tokens and accounts are interchangeable: no definition names one of them.
Symmetry == Permutations(Tokens) \cup Permutations(Accounts)

\* The administration alone: hooks leave the storage as it is.
AdminSpec == Init /\ [][AdminNext /\ UNCHANGED upgraded]_vars
=============================================================================
