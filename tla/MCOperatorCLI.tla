--------------------------- MODULE MCOperatorCLI ---------------------------
(* OperatorCLI on small sets, for TLC. *)
EXTENDS OperatorCLI

CONSTANTS op, other, usd, eur, t1, t2, cadx, p1, c1, a1

\* Filled-in example records: a policy or none, and an admin who signs with an
\* identity or with a secret.
ExampleRecord(pol, id, listed) ==
  [hooks |-> "elsewhere", policy |-> pol, sacPassthrough |-> TRUE,
   admin |-> op, identity |-> id, namesSecret |-> TRUE, tokens |-> listed]

ListsUsd == [alias |-> usd, id |-> t1, sac |-> c1]
ListsEur == [alias |-> eur, id |-> t2, sac |-> None]

\* The first token again, under another name and without its SAC.
ListsUsdBare == [alias |-> eur, id |-> t1, sac |-> None]

\* Two tokens on record, one of them with a SAC, or one token in two ways.
TwoTokenRecords ==
  {ExampleRecord(p1, op, <<ListsUsd, ListsEur>>),
   ExampleRecord(None, op, <<ListsUsd, ListsUsdBare>>)}

OneTokenRecords == {ExampleRecord(None, None, <<ListsUsd>>)}

\* What no action reads is not told apart.
DeployView == <<store, record, exists, pc, job, drifted, others>>

OperateView == <<store, record, exists, pc, job, applied>>
=============================================================================
