---------------------------- MODULE MCEvaluator -----------------------------
(* Evaluator on small sets, for TLC. *)
EXTENDS Evaluator

(***************************************************************************)
(* Only the answers of the contracts that are asked: any answer of a gate  *)
(* that is off gives the same evaluation.                                  *)
(***************************************************************************)
AskedAnswers ==
  LET yes == [j \in DOMAIN parties |-> "yes"]
  IN  /\ config = None \/ binding = None => policyAnswer = yes /\ sacAnswer = yes
      /\ config # None =>
           /\ config.policy = None => policyAnswer = yes
           /\ ~ config.sacPassthrough => sacAnswer = yes

AskedInit == Init /\ AskedAnswers

AskedSpec == AskedInit /\ [][Next]_vars
=============================================================================
