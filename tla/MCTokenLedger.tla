--------------------------- MODULE MCTokenLedger ----------------------------
(* TokenLedger on small sets, for TLC. *)
EXTENDS TokenLedger, TLC

\* Accounts are interchangeable: no definition names one of them.
Symmetry == Permutations(Accounts)

\* The last transaction is observed, never read: states that differ in it only
\* have the same steps.
LedgerView == <<store, upgraded, ledger, world>>
=============================================================================
