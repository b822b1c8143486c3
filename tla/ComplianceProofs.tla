-------------------------- MODULE ComplianceProofs --------------------------
(***************************************************************************)
(* What the evaluation returns, for every configuration, binding, set of   *)
(* frozen accounts and list of answers.                                    *)
(***************************************************************************)
EXTENDS Compliance, TLAPS

\* A party's gates decide, whatever is answered.
LEMMA ScreenPartyDecides ==
  ASSUME NEW cfg, NEW sac, NEW role, NEW isFrozen,
         NEW pa \in Answers, NEW sa \in Answers
  PROVE  ScreenParty(cfg, sac, role, isFrozen, pa, sa) \in Decisions
  BY DEF ScreenParty, AndThen, FreezeGate, PolicyGate, SacGate, Decisions,
         RejectionReasons, Allow, Answers

(***************************************************************************)
(* A party is let through exactly when it is not a frozen fund-holder, the *)
(* policy says yes if there is one, and the SAC says yes if it applies.    *)
(***************************************************************************)
LEMMA ScreenPartyAllows ==
  ASSUME NEW cfg, NEW sac, NEW role, NEW isFrozen,
         NEW pa \in Answers, NEW sa \in Answers
  PROVE  ScreenParty(cfg, sac, role, isFrozen, pa, sa) = Allow <=>
           /\ ~ (HoldsFunds(role) /\ isFrozen)
           /\ cfg.policy # None => pa = "yes"
           /\ SacApplies(cfg.sacPassthrough, sac, role) => sa = "yes"
  BY DEF ScreenParty, AndThen, FreezeGate, PolicyGate, SacGate, Allow, Answers

(***************************************************************************)
(* The first denial of one, two or three decisions, the numbers of parties *)
(* operations name, is a decision, and it is Allow exactly when all are.   *)
(***************************************************************************)
LEMMA FirstDenialDecides ==
  ASSUME NEW n \in 1 .. 3, NEW ds \in [1 .. n -> Decisions]
  PROVE  /\ FirstDenial(ds) \in Decisions
         /\ FirstDenial(ds) = Allow <=> \A j \in 1 .. n : ds[j] = Allow
<1> DEFINE denied == {j \in 1 .. n : ds[j] # Allow}
           least  == CHOOSE j \in denied : \A k \in denied : j <= k
<1>1. CASE denied = {}
  BY <1>1 DEF FirstDenial, Decisions
<1>2. CASE denied # {}
  <2>1. \E j \in denied : \A k \in denied : j <= k
    <3>1. CASE 1 \in denied
      BY <3>1
    <3>2. CASE 1 \notin denied /\ 2 \in denied
      BY <3>2
    <3>3. CASE 1 \notin denied /\ 2 \notin denied
      BY <3>3, <1>2
    <3> QED  BY <3>1, <3>2, <3>3
  <2>2. least \in denied
    BY <2>1
  <2>3. FirstDenial(ds) = ds[least]
    BY <1>2 DEF FirstDenial
  <2> QED  BY <2>2, <2>3
<1> QED  BY <1>1, <1>2

\* Operations name one, two or three parties.
LEMMA PartiesCount ==
  ASSUME NEW op \in Operations
  PROVE  /\ Len(Parties(op)) \in 1 .. 3
         /\ DOMAIN Parties(op) = 1 .. Len(Parties(op))
<1>1. CASE op \in {"register", "merge"}
  <2>1. Parties(op) = <<"account">>
    BY <1>1 DEF Parties
  <2> QED  BY <2>1
<1>2. CASE op \in {"deposit", "transfer", "withdraw"}
  <2>1. Parties(op) = <<"from", "to">>
    BY <1>2 DEF Parties
  <2> QED  BY <2>1
<1>3. CASE op = "transfer_from"
  <2>1. Parties(op) = <<"spender", "from", "to">>
    BY <1>3 DEF Parties
  <2> QED  BY <2>1
<1> QED  BY <1>1, <1>2, <1>3 DEF Operations

(***************************************************************************)
(* An evaluation with one account per role always ends in a decision, and  *)
(* it is Allow exactly when the contract is configured, the token is bound *)
(* and every party is let through.                                         *)
(***************************************************************************)
THEOREM EvaluateDecides ==
  ASSUME NEW config, NEW binding, NEW frozenHere, NEW op \in Operations,
         NEW parties, DOMAIN parties = 1 .. Len(Parties(op)),
         Len(parties) = Len(Parties(op)),
         NEW pa, NEW sa,
         \A j \in DOMAIN parties : pa[j] \in Answers /\ sa[j] \in Answers
  PROVE  LET decision == Evaluate(config, binding, frozenHere, op, parties, pa, sa)
         IN  /\ decision \in Decisions
             /\ decision = Allow <=>
                  /\ config # None
                  /\ binding # None
                  /\ \A j \in DOMAIN parties :
                       ScreenParty(config, binding.sac, Parties(op)[j],
                                   parties[j] \in frozenHere, pa[j], sa[j]) = Allow
<1> DEFINE n == Len(Parties(op))
           ds == [j \in DOMAIN parties |->
                    ScreenParty(config, binding.sac, Parties(op)[j],
                                parties[j] \in frozenHere, pa[j], sa[j])]
           structure == StructuralGate(config, binding, op, parties)
<1>1. n \in 1 .. 3
  BY PartiesCount
<1>2. ds \in [1 .. n -> Decisions]
  <2> SUFFICES ASSUME NEW j \in 1 .. n
               PROVE  ScreenParty(config, binding.sac, Parties(op)[j],
                                  parties[j] \in frozenHere, pa[j], sa[j]) \in Decisions
    OBVIOUS
  <2> QED  BY ScreenPartyDecides, Zenon
<1>3. /\ FirstDenial(ds) \in Decisions
      /\ FirstDenial(ds) = Allow <=> \A j \in 1 .. n : ds[j] = Allow
  <2> HIDE DEF ds, n
  <2> QED  BY <1>1, <1>2, FirstDenialDecides
<1>4. /\ structure \in Decisions
      /\ structure = Allow <=> config # None /\ binding # None
  BY DEF StructuralGate, Decisions, RejectionReasons, Allow
<1>5. Evaluate(config, binding, frozenHere, op, parties, pa, sa)
        = AndThen(structure, FirstDenial(ds))
  BY DEF Evaluate
<1>6. \A j \in 1 .. n :
        ds[j] = ScreenParty(config, binding.sac, Parties(op)[j],
                            parties[j] \in frozenHere, pa[j], sa[j])
  OBVIOUS
<1> HIDE DEF ds, structure
<1> QED  BY <1>3, <1>4, <1>5, <1>6 DEF AndThen
=============================================================================
