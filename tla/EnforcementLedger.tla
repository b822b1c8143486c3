------------------------- MODULE EnforcementLedger --------------------------
(***************************************************************************)
(* What the enforcement contract promises of its state, with no word on    *)
(* who signs, what is stored where, or which calls fail: an authority      *)
(* claimed once and for good, a configuration that changes only by counted *)
(* rewrites, a scope of tokens, and holds (freezes) that are placed and    *)
(* lifted one at a time, only while enforcement is configured and the      *)
(* token is in scope.  A hold ends in no other way: neither a rewrite of   *)
(* the configuration nor a token leaving the scope lifts it.               *)
(***************************************************************************)
EXTENDS Naturals

CONSTANTS Authorities, Rules, Assets, Holders, Nobody

VARIABLES
  authority,   \* who administers, or Nobody
  rules,       \* the configuration, or Nobody
  revision,    \* how many times the rules were rewritten
  scope,       \* the assets enforced
  holds        \* the (asset, holder) pairs on hold

ledgerVars == <<authority, rules, revision, scope, holds>>

\* A new ledger is empty; a ledger taken over holds what its rules allowed.
Init ==
  /\ authority \in Authorities \cup {Nobody}
  /\ rules \in Rules \cup {Nobody}
  /\ revision \in Nat
  /\ scope \in SUBSET Assets
  /\ holds \in SUBSET (Assets \X Holders)
  /\ authority = Nobody => rules = Nobody /\ scope = {}
  /\ rules = Nobody => revision = 0 /\ holds = {}

Claim(who) ==
  /\ authority = Nobody
  /\ authority' = who
  /\ UNCHANGED <<rules, revision, scope, holds>>

Rewrite(new) ==
  /\ authority # Nobody
  /\ new # rules
  /\ rules' = new
  /\ revision' = revision + 1
  /\ UNCHANGED <<authority, scope, holds>>

Admit(asset) ==
  /\ authority # Nobody
  /\ asset \notin scope
  /\ scope' = scope \cup {asset}
  /\ UNCHANGED <<authority, rules, revision, holds>>

Dismiss(asset) ==
  /\ asset \in scope
  /\ scope' = scope \ {asset}
  /\ UNCHANGED <<authority, rules, revision, holds>>

Place(asset, holder) ==
  /\ rules # Nobody
  /\ asset \in scope
  /\ <<asset, holder>> \notin holds
  /\ holds' = holds \cup {<<asset, holder>>}
  /\ UNCHANGED <<authority, rules, revision, scope>>

Lift(asset, holder) ==
  /\ rules # Nobody
  /\ asset \in scope
  /\ <<asset, holder>> \in holds
  /\ holds' = holds \ {<<asset, holder>>}
  /\ UNCHANGED <<authority, rules, revision, scope>>

Next ==
  \/ \E a \in Authorities : Claim(a)
  \/ \E r \in Rules : Rewrite(r)
  \/ \E t \in Assets : Admit(t) \/ Dismiss(t)
  \/ \E t \in Assets, h \in Holders : Place(t, h) \/ Lift(t, h)

Spec == Init /\ [][Next]_ledgerVars
=============================================================================
