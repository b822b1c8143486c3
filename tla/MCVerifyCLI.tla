---------------------------- MODULE MCVerifyCLI ----------------------------
(* VerifyCLI on small sets, for TLC. *)
EXTENDS VerifyCLI

CONSTANTS op, other, usd, t1, p1, p2, c1, a1

CheckedRecord(pol, adm, listed) ==
  [hooks |-> "here", policy |-> pol, sacPassthrough |-> FALSE, admin |-> adm,
   identity |-> None, namesSecret |-> FALSE, tokens |-> listed]

ListsUsd == [alias |-> usd, id |-> t1, sac |-> None]

\* A record with a policy, and one without that was never filled in.
MCCheckedRecords ==
  {CheckedRecord(p1, op, <<ListsUsd>>), CheckedRecord(None, Placeholder, <<ListsUsd>>)}

\* What no action reads is not told apart.
VerifyView == <<store, verifyVars>>
=============================================================================
