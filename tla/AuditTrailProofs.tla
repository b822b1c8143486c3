-------------------------- MODULE AuditTrailProofs --------------------------
(***************************************************************************)
(* Proofs about the contract and the bridge that follows its events, for   *)
(* every width of the counter, any number of events in flight, and any     *)
(* events missed.                                                          *)
(***************************************************************************)
EXTENDS AuditTrail, ComplianceHooksProofs, FiniteSetTheorems

-----------------------------------------------------------------------------
(* Events, and what applying one does to a view. *)

Views == [admin : Signers \cup {None}, config : Configs \cup {None}, configChanges : Nat,
          scope : SUBSET Tokens, frozen : SUBSET (Tokens \X Accounts)]

IsChange(event) == event.type = "ComplianceConfigChanged"

\* An event names its type, and one of a changed configuration that configuration.
LEMMA EventFields ==
  ASSUME NEW e \in Events
  PROVE  /\ e # None /\ e.type \in EventTypes
         /\ IsChange(e) => e.config \in Configs
         /\ e.type = "Initialized" => e.admin \in Signers
         /\ e.type \in {"TokenBound", "TokenUnbound"} => e.token \in Tokens
         /\ e.type \in {"AccountFrozen", "AccountUnfrozen"} =>
              e.token \in Tokens /\ e.account \in Accounts
         /\ e.type \in {"Initialized", "ComplianceConfigChanged", "TokenBound", "TokenUnbound",
                        "AccountFrozen", "AccountUnfrozen"}
<1>1. e # None /\ e.type \in EventTypes
  BY NoneAssumption DEF EventTypes
<1>2. CASE e \in [type : {"Initialized"}, admin : Signers]
  BY <1>1, <1>2 DEF IsChange
<1>3. CASE e \in [type : {"AccountFrozen", "AccountUnfrozen"},
                  token : Tokens, account : Accounts]
  BY <1>1, <1>3 DEF IsChange
<1>4. CASE e \in [type : {"TokenBound", "TokenUnbound"}, token : Tokens]
  BY <1>1, <1>4 DEF IsChange
<1>5. CASE e \in [type : {"ComplianceConfigChanged"}, config : Configs]
  BY <1>1, <1>5 DEF IsChange
<1> QED  BY <1>2, <1>3, <1>4, <1>5 DEF Events

\* Only a change of the configuration touches the configuration and its count.
LEMMA ApplyFields ==
  ASSUME NEW v \in Views, NEW e \in Events
  PROVE  /\ Apply(v, e) \in Views
         /\ IsChange(e) => /\ Apply(v, e).config = e.config
                           /\ Apply(v, e).configChanges = v.configChanges + 1
         /\ ~ IsChange(e) => /\ Apply(v, e).config = v.config
                             /\ Apply(v, e).configChanges = v.configChanges
<1>1. e # None
  BY EventFields
<1>2. CASE e.type = "Initialized"
  <2>1. Apply(v, e) = [v EXCEPT !.admin = e.admin] /\ e.admin \in Signers
    BY <1>1, <1>2, EventFields DEF Apply
  <2> QED  BY <1>2, <2>1 DEF Views, IsChange
<1>3. CASE e.type = "ComplianceConfigChanged"
  <2> DEFINE half == [v EXCEPT !.config = e.config]
             count == v.configChanges + 1
  <2>1. Apply(v, e) = [v EXCEPT !.config = e.config, !.configChanges = @ + 1]
    BY <1>1, <1>3 DEF Apply
  <2>2. e.config \in Configs /\ count \in Nat
    BY <1>3, EventFields DEF IsChange, Views
  <2>3. half \in Views /\ half.config = e.config /\ half.configChanges = v.configChanges
    BY <2>2 DEF Views
  <2>4. Apply(v, e) = [half EXCEPT !.configChanges = count]
    BY <2>1 DEF Views
  <2> HIDE DEF half, count
  <2>5. Apply(v, e) \in Views /\ Apply(v, e).config = e.config
        /\ Apply(v, e).configChanges = count
    BY <2>2, <2>3, <2>4 DEF Views
  <2> QED  BY <1>3, <2>5 DEF IsChange, count
<1>4. CASE e.type = "TokenBound"
  <2>1. Apply(v, e) = [v EXCEPT !.scope = @ \cup {e.token}] /\ e.token \in Tokens
    BY <1>1, <1>4, EventFields DEF Apply
  <2> QED  BY <1>4, <2>1 DEF Views, IsChange
<1>5. CASE e.type = "TokenUnbound"
  <2>1. Apply(v, e) = [v EXCEPT !.scope = @ \ {e.token}]
    BY <1>1, <1>5 DEF Apply
  <2> QED  BY <1>5, <2>1 DEF Views, IsChange
<1>6. CASE e.type = "AccountFrozen"
  <2>1. /\ Apply(v, e) = [v EXCEPT !.frozen = @ \cup {<<e.token, e.account>>}]
        /\ e.token \in Tokens /\ e.account \in Accounts
    BY <1>1, <1>6, EventFields DEF Apply
  <2> QED  BY <1>6, <2>1 DEF Views, IsChange
<1>7. CASE e.type = "AccountUnfrozen"
  <2>1. Apply(v, e) = [v EXCEPT !.frozen = @ \ {<<e.token, e.account>>}]
    BY <1>1, <1>7 DEF Apply
  <2> QED  BY <1>7, <2>1 DEF Views, IsChange
<1> QED  BY <1>2, <1>3, <1>4, <1>5, <1>6, <1>7, EventFields

-----------------------------------------------------------------------------
(***************************************************************************)
(* Taking one out of a numbered line: those behind it move up, and of the  *)
(* marked ones there is one less if it was marked itself.                  *)
(***************************************************************************)
MoveUp(i, j) == IF j < i THEN j ELSE j + 1

LEMMA MarksMoveUp ==
  ASSUME NEW n \in Nat, NEW i \in 1 .. n, NEW marks \in SUBSET (1 .. n),
         NEW left \in SUBSET (1 .. n - 1),
         \A j \in 1 .. n - 1 : j \in left <=> MoveUp(i, j) \in marks
  PROVE  /\ IsFiniteSet(marks) /\ IsFiniteSet(left)
         /\ Cardinality(marks) \in Nat /\ Cardinality(left) \in Nat
         /\ Cardinality(marks) = Cardinality(left) + (IF i \in marks THEN 1 ELSE 0)
<1> DEFINE others == marks \ {i}
           up == [j \in left |-> MoveUp(i, j)]
<1>1. IsFiniteSet(marks)
  <2>1. IsFiniteSet(1 .. n)
    BY FS_Interval
  <2> QED  BY <2>1, FS_Subset
<1>2. /\ IsFiniteSet(others)
      /\ Cardinality(others) = IF i \in marks THEN Cardinality(marks) - 1 ELSE Cardinality(marks)
  BY <1>1, FS_RemoveElement
<1>3. IsFiniteSet(left)
  <2>1. left \in SUBSET (1 .. n - 1) /\ IsFiniteSet(1 .. n - 1)
    BY FS_Interval
  <2> QED  BY <2>1, FS_Subset
<1>4. ExistsBijection(left, others)
  <2>1. up \in [left -> others]
    BY DEF MoveUp
  <2>2. \A j, k \in left : up[j] = up[k] => j = k
    BY DEF MoveUp
  <2>3. \A m \in others : \E j \in left : up[j] = m
    <3> SUFFICES ASSUME NEW m \in others
                 PROVE  \E j \in left : up[j] = m
      OBVIOUS
    <3>1. CASE m < i
      <4>1. m \in left /\ MoveUp(i, m) = m
        BY <3>1 DEF MoveUp
      <4> QED  BY <4>1
    <3>2. CASE m > i
      <4>1. m - 1 \in left /\ MoveUp(i, m - 1) = m
        BY <3>2 DEF MoveUp
      <4> QED  BY <4>1
    <3> QED  BY <3>1, <3>2
  <2>4. up \in Bijection(left, others)
    <3> HIDE DEF up, others
    <3> QED  BY <2>1, <2>2, <2>3 DEF Bijection, Injection, Surjection, IsInjective
  <2> QED  BY <2>4 DEF ExistsBijection
<1>5. Cardinality(others) = Cardinality(left)
  BY <1>3, <1>4, FS_Bijection
<1>6. Cardinality(marks) \in Nat /\ Cardinality(left) \in Nat
  BY <1>1, <1>3, FS_CardinalityType
<1> HIDE DEF others
<1> QED  BY <1>1, <1>2, <1>3, <1>5, <1>6

-----------------------------------------------------------------------------
(***************************************************************************)
(* The trail.  What the bridge has counted and what is still on the wire   *)
(* add up to config_version(), less what was missed; the last change on    *)
(* the wire, or else the bridge, has the configuration in force; and with  *)
(* nothing missed the wire leads from the bridge's view to the contract's. *)
(***************************************************************************)
Changes == {k \in DOMAIN wire : IsChange(wire[k])}

MissedChange == "ComplianceConfigChanged" \in missed

CountInv ==
  /\ view.configChanges + Cardinality(Changes) <= configVersion
  /\ ~ MissedChange => view.configChanges + Cardinality(Changes) = configVersion
  /\ MissedChange => view.configChanges + Cardinality(Changes) < configVersion

Latest(k) == k \in Changes /\ \A j \in Changes : j <= k

ConfigInv ==
  ~ MissedChange =>
    /\ Changes = {} => view.config = config
    /\ Changes # {} => \E k \in Changes : Latest(k) /\ wire[k].config = config

\* The views an observer passes through.
Leads(h) ==
  /\ h[0] = view
  /\ h[Len(wire)] = AuditView
  /\ \A j \in 1 .. Len(wire) : h[j] = Apply(h[j - 1], wire[j])

PathInv == missed = {} => \E h \in [0 .. Len(wire) -> Views] : Leads(h)

TrailInv == CountInv /\ ConfigInv /\ PathInv

\* The types, as the lemmas below use them.
LEMMA TrailTypes ==
  ASSUME AuditTypeOK
  PROVE  /\ wire \in Seq(Events) /\ Len(wire) \in Nat /\ DOMAIN wire = 1 .. Len(wire)
         /\ \A k \in 1 .. Len(wire) : wire[k] \in Events
         /\ view \in Views /\ view.configChanges \in Nat
         /\ AuditView \in Views /\ configVersion \in Nat /\ configVersion <= MaxU32
         /\ MaxU32 \in Nat /\ Changes \in SUBSET (1 .. Len(wire))
         /\ IsFiniteSet(Changes) /\ Cardinality(Changes) \in Nat
<1>1. /\ wire \in Seq(Events) /\ Len(wire) \in Nat /\ DOMAIN wire = 1 .. Len(wire)
      /\ \A k \in 1 .. Len(wire) : wire[k] \in Events
  BY DEF AuditTypeOK
<1>2. /\ configVersion \in Nat /\ configVersion <= MaxU32 /\ MaxU32 \in Nat
      /\ admin \in Signers \cup {None} /\ config \in Configs \cup {None}
      /\ frozen \in SUBSET (Tokens \X Accounts)
  BY MaxU32Assumption DEF AuditTypeOK, TypeOK
<1>3. AuditView \in Views
  BY <1>2 DEF AuditView, Views
<1>4. view \in Views /\ view.configChanges \in Nat
  BY MaxU32Assumption DEF AuditTypeOK, Views
<1>5. Changes \in SUBSET (1 .. Len(wire))
  BY <1>1 DEF Changes
<1>6. IsFiniteSet(1 .. Len(wire))
  BY <1>1, FS_Interval
<1>7. IsFiniteSet(Changes) /\ Cardinality(Changes) \in Nat
  BY <1>5, <1>6, FS_Subset, FS_CardinalityType
<1> QED  BY <1>1, <1>2, <1>3, <1>4, <1>5, <1>7

-----------------------------------------------------------------------------
(* The three steps, on the wire. *)

\* The i-th event goes, delivered or missed, and the others keep their order.
Removes(i) ==
  /\ wire' \in Seq(Events)
  /\ Len(wire') = Len(wire) - 1
  /\ \A j \in 1 .. Len(wire') : wire'[j] = wire[MoveUp(i, j)]

LEMMA DeliversRemoves ==
  ASSUME AuditTypeOK, Delivers
  PROVE  /\ 1 \in 1 .. Len(wire) /\ Removes(1)
         /\ view' = Apply(view, wire[1])
         /\ UNCHANGED <<vars, missed>>
<1>1. wire \in Seq(Events) /\ wire # <<>> /\ wire' = Tail(wire) /\ Head(wire) = wire[1]
  BY DEF Delivers, AuditTypeOK
<1>2. 1 \in 1 .. Len(wire)
  BY <1>1
<1>3. /\ Tail(wire) \in Seq(Events) /\ Len(Tail(wire)) = Len(wire) - 1
      /\ \A j \in 1 .. Len(wire) - 1 : Tail(wire)[j] = wire[j + 1]
  BY <1>1
<1>4. Removes(1)
  BY <1>1, <1>3 DEF Removes, MoveUp
<1> QED  BY <1>1, <1>2, <1>4 DEF Delivers

LEMMA MissesRemoves ==
  ASSUME AuditTypeOK, Misses
  PROVE  \E i \in 1 .. Len(wire) :
           /\ Removes(i)
           /\ missed' = missed \cup {wire[i].type}
           /\ UNCHANGED <<vars, view>>
<1>1. PICK i \in DOMAIN wire :
        /\ missed' = missed \cup {wire[i].type}
        /\ wire' = [j \in 1 .. Len(wire) - 1 |-> IF j < i THEN wire[j] ELSE wire[j + 1]]
        /\ UNCHANGED <<vars, view>>
  BY DEF Misses
<1>2. /\ DOMAIN wire = 1 .. Len(wire) /\ Len(wire) \in Nat
      /\ \A k \in 1 .. Len(wire) : wire[k] \in Events
  BY TrailTypes
<1> DEFINE n == Len(wire)
<1> HIDE DEF n
<1>3. n \in Nat /\ n - 1 \in Nat /\ i \in 1 .. n
  BY <1>1, <1>2 DEF n
<1>4. \A j \in 1 .. n - 1 : j \in 1 .. n /\ j + 1 \in 1 .. n
  BY <1>3
<1>5. wire' \in [1 .. n - 1 -> Events]
  BY <1>1, <1>2, <1>4 DEF n
<1>6. wire' \in Seq(Events) /\ Len(wire') = n - 1
  BY <1>3, <1>5
<1>7. \A j \in 1 .. n - 1 : wire'[j] = wire[MoveUp(i, j)]
  BY <1>1, Zenon DEF n, MoveUp
<1> QED  BY <1>1, <1>3, <1>6, <1>7 DEF n, Removes

\* The changes on the wire, when an event goes.
LEMMA RemovalCounts ==
  ASSUME AuditTypeOK, NEW i \in 1 .. Len(wire), Removes(i)
  PROVE  /\ Changes' = {j \in 1 .. Len(wire) - 1 : MoveUp(i, j) \in Changes}
         /\ Cardinality(Changes)' \in Nat
         /\ IsChange(wire[i]) => Cardinality(Changes) = Cardinality(Changes)' + 1
         /\ ~ IsChange(wire[i]) => Cardinality(Changes) = Cardinality(Changes)'
<1>1. /\ DOMAIN wire = 1 .. Len(wire) /\ Len(wire) \in Nat
      /\ Changes \in SUBSET (1 .. Len(wire))
  BY TrailTypes
<1>2. DOMAIN wire' = 1 .. Len(wire) - 1 /\ Len(wire') = Len(wire) - 1
  BY DEF Removes
<1>3. \A j \in 1 .. Len(wire) - 1 : MoveUp(i, j) \in 1 .. Len(wire)
  BY <1>1 DEF MoveUp
<1>4. Changes' = {j \in 1 .. Len(wire) - 1 : MoveUp(i, j) \in Changes}
  <2>1. \A j \in 1 .. Len(wire) - 1 : IsChange(wire'[j]) <=> MoveUp(i, j) \in Changes
    BY <1>1, <1>2, <1>3 DEF Removes, Changes, IsChange
  <2> QED  BY <1>2, <2>1, Zenon DEF Changes
<1>5. /\ Cardinality(Changes') \in Nat
      /\ Cardinality(Changes) = Cardinality(Changes') + (IF i \in Changes THEN 1 ELSE 0)
  <2>1. /\ Changes' \in SUBSET (1 .. Len(wire) - 1)
        /\ \A j \in 1 .. Len(wire) - 1 : j \in Changes' <=> MoveUp(i, j) \in Changes
    BY <1>4
  <2> DEFINE n == Len(wire)
             marks == Changes
             left == Changes'
  <2>2. n \in Nat /\ i \in 1 .. n /\ marks \in SUBSET (1 .. n)
    BY <1>1
  <2> HIDE DEF n, marks, left
  <2>3. /\ Cardinality(left) \in Nat
        /\ Cardinality(marks) = Cardinality(left) + (IF i \in marks THEN 1 ELSE 0)
    BY <2>1, <2>2, MarksMoveUp DEF n, marks, left
  <2> QED  BY <2>3, Zenon DEF marks, left
<1>6. i \in Changes <=> IsChange(wire[i])
  BY <1>1 DEF Changes
<1>7. Cardinality(Changes) \in Nat
  BY TrailTypes
<1> QED  BY <1>4, <1>5, <1>6, <1>7

\* The changes on the wire, when an event is published.
LEMMA AppendCounts ==
  ASSUME AuditTypeOK, NEW e \in Events, wire' = Append(wire, e)
  PROVE  /\ wire' \in Seq(Events) /\ Len(wire') = Len(wire) + 1
         /\ \A k \in 1 .. Len(wire) : wire'[k] = wire[k]
         /\ wire'[Len(wire) + 1] = e
         /\ IsChange(e) => /\ Changes' = Changes \cup {Len(wire) + 1}
                           /\ Cardinality(Changes)' = Cardinality(Changes) + 1
         /\ ~ IsChange(e) => Changes' = Changes
<1>1. /\ wire \in Seq(Events) /\ DOMAIN wire = 1 .. Len(wire) /\ Len(wire) \in Nat
      /\ Changes \in SUBSET (1 .. Len(wire)) /\ IsFiniteSet(Changes)
  BY TrailTypes
<1>2. /\ wire' \in Seq(Events) /\ Len(wire') = Len(wire) + 1
      /\ \A k \in 1 .. Len(wire) : wire'[k] = wire[k]
      /\ wire'[Len(wire) + 1] = e
      /\ DOMAIN wire' = 1 .. Len(wire) + 1
  BY <1>1
<1> DEFINE n == Len(wire)
<1> HIDE DEF n
<1>3. 1 .. n + 1 = (1 .. n) \cup {n + 1} /\ n + 1 \notin 1 .. n
  BY <1>1 DEF n
<1>4. \A k \in 1 .. n : IsChange(wire'[k]) <=> IsChange(wire[k])
  BY <1>2, Zenon DEF n, IsChange
<1>5. IsChange(wire'[n + 1]) <=> IsChange(e)
  BY <1>2, Zenon DEF n, IsChange
<1>6. Changes' = {k \in (1 .. n) \cup {n + 1} : IsChange(wire'[k])}
  BY <1>2, <1>3, Zenon DEF n, Changes
<1>7. Changes = {k \in 1 .. n : IsChange(wire[k])}
  BY <1>1, Zenon DEF n, Changes
<1>8. IsChange(e) => Changes' = Changes \cup {n + 1}
  BY <1>4, <1>5, <1>6, <1>7
<1>9. ~ IsChange(e) => Changes' = Changes
  BY <1>4, <1>5, <1>6, <1>7
<1>10. IsChange(e) => Cardinality(Changes') = Cardinality(Changes) + 1
  BY <1>1, <1>3, <1>8, FS_AddElement DEF n
<1> QED  BY <1>2, <1>8, <1>9, <1>10 DEF n

\* What a committed transaction publishes is applied to the contract itself.
LEMMA TransactsPublishes ==
  ASSUME AuditTypeOK, Transacts
  PROVE  /\ Next /\ TypeOK' /\ UNCHANGED <<view, missed>>
         /\ AuditView' = Apply(AuditView, tx'.event)
         /\ tx'.event = None => wire' = wire /\ AuditView' = AuditView
         /\ tx'.event # None => /\ tx'.event \in Events
                                /\ wire' = Append(wire, tx'.event)
                                /\ Len(wire) < MaxInFlight
<1>1. Next /\ UNCHANGED <<view, missed>> /\ wire' = Published(tx'.event)
      /\ Len(wire) < MaxInFlight /\ TypeOK
  BY DEF Transacts, Next, AuditTypeOK
<1>2. TypeOK'
  BY <1>1, StepTypeOK
<1>3. tx'.event \in Events \cup {None}
  BY <1>2 DEF TypeOK
<1>4. AuditView' = Apply(AuditView, tx'.event)
  BY <1>1, StepAudited
<1>5. tx'.event = None => AuditView' = AuditView
  BY <1>4 DEF Apply
<1> QED  BY <1>1, <1>2, <1>3, <1>4, <1>5 DEF Published

LEMMA ViewFields ==
  /\ AuditView.config = config /\ AuditView.configChanges = configVersion
  /\ AuditView'.config = config' /\ AuditView'.configChanges = configVersion'
BY DEF AuditView

LEMMA SameContract ==
  ASSUME UNCHANGED vars
  PROVE  AuditView' = AuditView /\ config' = config /\ configVersion' = configVersion
<1>1. UNCHANGED <<admin, config, configVersion, binding, frozen>>
  BY DEF vars, store
<1> QED  BY <1>1, SameBindingsSameScope DEF AuditView

\* What a step does to the trail, event by event.
TrailStep ==
  \/ /\ UNCHANGED <<wire, view, missed>> /\ AuditView' = AuditView
  \/ \E e \in Events : /\ wire' = Append(wire, e) /\ UNCHANGED <<view, missed>>
                       /\ AuditView' = Apply(AuditView, e)
  \/ /\ 1 \in 1 .. Len(wire) /\ Removes(1) /\ UNCHANGED missed
     /\ view' = Apply(view, wire[1]) /\ AuditView' = AuditView
  \/ \E i \in 1 .. Len(wire) : /\ Removes(i) /\ UNCHANGED view
                               /\ missed' = missed \cup {wire[i].type}
                               /\ AuditView' = AuditView

LEMMA StepIsTrailStep ==
  ASSUME AuditTypeOK, [AuditNext]_<<vars, auditVars>>
  PROVE  TrailStep
<1>1. CASE Transacts
  BY <1>1, TransactsPublishes DEF TrailStep
<1>2. CASE Delivers
  BY <1>2, DeliversRemoves, SameContract DEF TrailStep
<1>3. CASE Misses
  BY <1>3, MissesRemoves, SameContract DEF TrailStep
<1>4. CASE UNCHANGED <<vars, auditVars>>
  BY <1>4, SameContract DEF auditVars, TrailStep
<1> QED  BY <1>1, <1>2, <1>3, <1>4 DEF AuditNext

-----------------------------------------------------------------------------
(* The count. *)

LEMMA StepCount ==
  ASSUME AuditTypeOK, CountInv, TrailStep
  PROVE  CountInv'
<1>1. /\ view.configChanges \in Nat /\ configVersion \in Nat /\ Cardinality(Changes) \in Nat
      /\ view \in Views /\ AuditView \in Views
      /\ \A k \in 1 .. Len(wire) : wire[k] \in Events
  BY TrailTypes
<1>2. ASSUME AuditView' = AuditView
      PROVE  configVersion' = configVersion
  BY <1>2, ViewFields, Zenon
<1>3. CASE UNCHANGED <<wire, view, missed>> /\ AuditView' = AuditView
  <2>1. Changes' = Changes
    BY <1>3 DEF Changes
  <2> QED  BY <1>2, <1>3, <2>1 DEF CountInv, MissedChange
<1>4. ASSUME NEW e \in Events, wire' = Append(wire, e), UNCHANGED <<view, missed>>,
             AuditView' = Apply(AuditView, e)
      PROVE  CountInv'
  <2>1. configVersion' = IF IsChange(e) THEN configVersion + 1 ELSE configVersion
    BY <1>1, <1>4, ApplyFields, ViewFields
  <2>2. Cardinality(Changes)' = IF IsChange(e) THEN Cardinality(Changes) + 1
                                ELSE Cardinality(Changes)
    BY <1>4, AppendCounts, Zenon
  <2>3. view'.configChanges = view.configChanges /\ (MissedChange' <=> MissedChange)
    BY <1>4 DEF MissedChange
  <2>4. CASE IsChange(e)
    BY <1>1, <2>1, <2>2, <2>3, <2>4 DEF CountInv
  <2>5. CASE ~ IsChange(e)
    BY <1>1, <2>1, <2>2, <2>3, <2>5 DEF CountInv
  <2> QED  BY <2>4, <2>5
<1>5. CASE /\ 1 \in 1 .. Len(wire) /\ Removes(1) /\ UNCHANGED missed
           /\ view' = Apply(view, wire[1]) /\ AuditView' = AuditView
  <2>1. view'.configChanges = view.configChanges + (IF IsChange(wire[1]) THEN 1 ELSE 0)
    BY <1>1, <1>5, ApplyFields
  <2>2. /\ Cardinality(Changes)' \in Nat
        /\ Cardinality(Changes) = Cardinality(Changes)' + (IF IsChange(wire[1]) THEN 1 ELSE 0)
    BY <1>5, RemovalCounts
  <2>3. view'.configChanges + Cardinality(Changes)' = view.configChanges + Cardinality(Changes)
    BY <1>1, <2>1, <2>2
  <2> QED  BY <1>2, <1>5, <2>3 DEF CountInv, MissedChange
<1>6. ASSUME NEW i \in 1 .. Len(wire), Removes(i), UNCHANGED view,
             missed' = missed \cup {wire[i].type}, AuditView' = AuditView
      PROVE  CountInv'
  <2>1. MissedChange' <=> MissedChange \/ IsChange(wire[i])
    BY <1>6 DEF MissedChange, IsChange
  <2>2. /\ Cardinality(Changes)' \in Nat
        /\ Cardinality(Changes) = Cardinality(Changes)' + (IF IsChange(wire[i]) THEN 1 ELSE 0)
    BY <1>6, RemovalCounts
  <2> QED  BY <1>1, <1>2, <1>6, <2>1, <2>2 DEF CountInv
<1> QED  BY <1>3, <1>4, <1>5, <1>6 DEF TrailStep

-----------------------------------------------------------------------------
(* The configuration. *)

LEMMA StepConfig ==
  ASSUME AuditTypeOK, ConfigInv, TrailStep
  PROVE  ConfigInv'
<1> SUFFICES ASSUME ~ MissedChange'
             PROVE  /\ Changes' = {} => view'.config = config'
                    /\ Changes' # {} =>
                         \E k \in Changes' : (\A j \in Changes' : j <= k)
                                             /\ wire'[k].config = config'
  BY DEF ConfigInv, Latest
<1>1. /\ view \in Views /\ AuditView \in Views /\ Len(wire) \in Nat
      /\ \A k \in 1 .. Len(wire) : wire[k] \in Events
      /\ Changes \in SUBSET (1 .. Len(wire)) /\ DOMAIN wire = 1 .. Len(wire)
  BY TrailTypes
<1>2. AuditView' = AuditView => config' = config
  BY ViewFields, Zenon
<1>3. CASE UNCHANGED <<wire, view, missed>> /\ AuditView' = AuditView
  <2>1. Changes' = Changes /\ ~ MissedChange
    BY <1>3 DEF Changes, MissedChange
  <2> QED  BY <1>2, <1>3, <2>1 DEF ConfigInv, Latest
<1>4. ASSUME NEW e \in Events, wire' = Append(wire, e), UNCHANGED <<view, missed>>,
             AuditView' = Apply(AuditView, e)
      PROVE  /\ Changes' = {} => view'.config = config'
             /\ Changes' # {} =>
                  \E k \in Changes' : (\A j \in Changes' : j <= k)
                                      /\ wire'[k].config = config'
  <2>1. ~ MissedChange
    BY <1>4 DEF MissedChange
  <2>2. CASE IsChange(e)
    <3>1. config' = e.config
      BY <1>1, <1>4, <2>2, ApplyFields, ViewFields
    <3>2. Changes' = Changes \cup {Len(wire) + 1} /\ wire'[Len(wire) + 1] = e
      BY <1>4, <2>2, AppendCounts
    <3>3. \A j \in Changes' : j <= Len(wire) + 1
      BY <1>1, <3>2
    <3> QED  BY <3>1, <3>2, <3>3
  <2>3. CASE ~ IsChange(e)
    <3>1. config' = config
      BY <1>1, <1>4, <2>3, ApplyFields, ViewFields
    <3>2. Changes' = Changes /\ \A k \in 1 .. Len(wire) : wire'[k] = wire[k]
      BY <1>4, <2>3, AppendCounts
    <3> QED  BY <1>1, <1>4, <2>1, <3>1, <3>2 DEF ConfigInv, Latest
  <2> QED  BY <2>2, <2>3
<1>5. ASSUME NEW i \in 1 .. Len(wire), Removes(i), AuditView' = AuditView, ~ MissedChange,
             IsChange(wire[i]) => i = 1 /\ view'.config = wire[i].config,
             ~ IsChange(wire[i]) => view'.config = view.config
      PROVE  /\ Changes' = {} => view'.config = config'
             /\ Changes' # {} =>
                  \E k \in Changes' : (\A j \in Changes' : j <= k)
                                      /\ wire'[k].config = config'
  <2>1. Changes' = {j \in 1 .. Len(wire) - 1 : MoveUp(i, j) \in Changes}
    BY <1>5, RemovalCounts
  <2>2. i \in Changes <=> IsChange(wire[i])
    BY <1>1 DEF Changes
  <2>3. \A k \in Changes : k # i => \E j \in Changes' : MoveUp(i, j) = k
    <3> SUFFICES ASSUME NEW k \in Changes, k # i
                 PROVE  \E j \in Changes' : MoveUp(i, j) = k
      OBVIOUS
    <3>1. CASE k < i
      <4>1. k \in 1 .. Len(wire) - 1 /\ MoveUp(i, k) = k
        BY <1>1, <3>1 DEF MoveUp
      <4> QED  BY <2>1, <4>1
    <3>2. CASE k > i
      <4>1. k - 1 \in 1 .. Len(wire) - 1 /\ MoveUp(i, k - 1) = k
        BY <1>1, <3>2 DEF MoveUp
      <4> QED  BY <2>1, <4>1
    <3> QED  BY <1>1, <3>1, <3>2
  <2>4. CASE Changes' = {}
    <3>1. Changes \subseteq {i}
      BY <2>3, <2>4
    <3> QED  BY <1>2, <1>5, <2>2, <2>4, <3>1 DEF ConfigInv, Latest
  <2>5. CASE Changes' # {}
    <3>1. PICK j \in Changes' : TRUE
      BY <2>5
    <3>2. MoveUp(i, j) \in Changes
      BY <2>1
    <3>3. PICK k \in Changes : Latest(k) /\ wire[k].config = config
      BY <1>5, <3>2 DEF ConfigInv
    <3>4. k # i
      <4>1. ASSUME k = i
            PROVE  FALSE
        <5>1. i = 1
          BY <1>5, <2>2, <4>1
        <5>2. j \in 1 .. Len(wire) - 1 /\ MoveUp(i, j) = j + 1
          BY <1>1, <2>1, <5>1 DEF MoveUp
        <5>3. j + 1 <= k
          BY <3>2, <3>3, <5>2 DEF Latest
        <5> QED  BY <1>1, <4>1, <5>1, <5>2, <5>3
      <4> QED  BY <4>1
    <3>5. PICK m \in Changes' : MoveUp(i, m) = k
      BY <2>3, <3>4
    <3>6. \A l \in Changes' : l <= m
      <4> SUFFICES ASSUME NEW l \in Changes'
                   PROVE  l <= m
        OBVIOUS
      <4>1. MoveUp(i, l) <= MoveUp(i, m)
        BY <2>1, <3>3, <3>5 DEF Latest
      <4>2. l \in Nat /\ m \in Nat /\ i \in Nat
        BY <1>1, <2>1
      <4> QED  BY <4>1, <4>2 DEF MoveUp
    <3>7. wire'[m] = wire[k]
      <4>1. m \in 1 .. Len(wire')
        BY <1>5, <2>1 DEF Removes
      <4> QED  BY <1>5, <3>5, <4>1 DEF Removes
    <3> QED  BY <1>2, <1>5, <2>5, <3>3, <3>6, <3>7
  <2> QED  BY <2>4, <2>5
<1>6. CASE /\ 1 \in 1 .. Len(wire) /\ Removes(1) /\ UNCHANGED missed
           /\ view' = Apply(view, wire[1]) /\ AuditView' = AuditView
  <2>1. /\ IsChange(wire[1]) => view'.config = wire[1].config
        /\ ~ IsChange(wire[1]) => view'.config = view.config
    BY <1>1, <1>6, ApplyFields
  <2>2. ~ MissedChange
    BY <1>6 DEF MissedChange
  <2> QED  BY <1>5, <1>6, <2>1, <2>2
<1>7. ASSUME NEW i \in 1 .. Len(wire), Removes(i), UNCHANGED view,
             missed' = missed \cup {wire[i].type}, AuditView' = AuditView
      PROVE  /\ Changes' = {} => view'.config = config'
             /\ Changes' # {} =>
                  \E k \in Changes' : (\A j \in Changes' : j <= k)
                                      /\ wire'[k].config = config'
  <2>1. ~ MissedChange /\ ~ IsChange(wire[i])
    BY <1>7 DEF MissedChange, IsChange
  <2> QED  BY <1>5, <1>7, <2>1
<1> QED  BY <1>3, <1>4, <1>6, <1>7 DEF TrailStep

-----------------------------------------------------------------------------
(* The views on the way. *)

LEMMA StepPath ==
  ASSUME AuditTypeOK, PathInv, TrailStep, AuditView' \in Views
  PROVE  PathInv'
<1> SUFFICES ASSUME missed' = {}
             PROVE  \E h \in [0 .. Len(wire') -> Views] : Leads(h)'
  BY DEF PathInv
<1>1. /\ AuditView \in Views /\ Len(wire) \in Nat /\ wire \in Seq(Events)
  BY TrailTypes
<1> DEFINE n == Len(wire)
<1>2. CASE UNCHANGED <<wire, view, missed>> /\ AuditView' = AuditView
  <2>1. PICK h \in [0 .. n -> Views] : Leads(h)
    BY <1>2 DEF PathInv
  <2> QED  BY <1>2, <2>1 DEF Leads
<1>3. ASSUME NEW e \in Events, wire' = Append(wire, e), UNCHANGED <<view, missed>>,
             AuditView' = Apply(AuditView, e)
      PROVE  \E h \in [0 .. Len(wire') -> Views] : Leads(h)'
  <2>1. PICK h \in [0 .. n -> Views] : Leads(h)
    BY <1>3 DEF PathInv
  <2>2. /\ Len(wire') = n + 1 /\ wire'[n + 1] = e
        /\ \A k \in 1 .. n : wire'[k] = wire[k]
    BY <1>3, AppendCounts
  <2>3. h[0] = view /\ h[n] = AuditView /\ \A j \in 1 .. n : h[j] = Apply(h[j - 1], wire[j])
    BY <2>1 DEF Leads
  <2> DEFINE longer == [j \in 0 .. n + 1 |-> IF j <= n THEN h[j] ELSE AuditView']
             m == n + 1
  <2> HIDE DEF n
  <2>4. n \in Nat /\ m = n + 1
    BY <1>1 DEF n
  <2>5. longer \in [0 .. m -> Views]
    BY <2>1, <2>4
  <2>6. longer[0] = h[0] /\ longer[m] = AuditView' /\ longer[n] = h[n]
        /\ \A j \in 1 .. n : longer[j] = h[j] /\ longer[j - 1] = h[j - 1]
    BY <2>4
  <2> HIDE DEF longer, m
  <2>7. \A j \in 1 .. m : longer[j] = Apply(longer[j - 1], wire'[j])
    <3> SUFFICES ASSUME NEW j \in 1 .. m
                 PROVE  longer[j] = Apply(longer[j - 1], wire'[j])
      OBVIOUS
    <3>1. CASE j \in 1 .. n
      <4>1. longer[j] = h[j] /\ longer[j - 1] = h[j - 1] /\ wire'[j] = wire[j]
        BY <2>2, <2>6, <3>1
      <4> QED  BY <2>3, <3>1, <4>1, Zenon
    <3>2. CASE j = m
      <4>1. j - 1 = n
        BY <2>4, <3>2
      <4> QED  BY <1>3, <2>2, <2>3, <2>4, <2>6, <3>2, <4>1
    <3> QED  BY <2>4, <3>1, <3>2
  <2>8. longer[0] = view' /\ longer[m] = AuditView' /\ Len(wire') = m
    BY <1>3, <2>2, <2>3, <2>4, <2>6
  <2> QED  BY <2>5, <2>7, <2>8 DEF Leads
<1>4. CASE /\ 1 \in 1 .. Len(wire) /\ Removes(1) /\ UNCHANGED missed
           /\ view' = Apply(view, wire[1]) /\ AuditView' = AuditView
  <2>1. PICK h \in [0 .. n -> Views] : Leads(h)
    BY <1>4 DEF PathInv
  <2>2. h[0] = view /\ h[n] = AuditView /\ \A j \in 1 .. n : h[j] = Apply(h[j - 1], wire[j])
    BY <2>1 DEF Leads
  <2>3. Len(wire') = n - 1 /\ \A j \in 1 .. n - 1 : wire'[j] = wire[j + 1]
    BY <1>4 DEF Removes, MoveUp
  <2> DEFINE m == n - 1
             shorter == [j \in 0 .. m |-> h[j + 1]]
  <2>4. n \in Nat /\ m = n - 1 /\ n \in 1 .. n /\ m \in Nat /\ 1 \in 1 .. n
    BY <1>1, <1>4
  <2> HIDE DEF n, m
  <2>5. shorter \in [0 .. m -> Views]
    BY <2>1, <2>4
  <2>6. \A j \in 0 .. m : shorter[j] = h[j + 1]
    OBVIOUS
  <2> HIDE DEF shorter
  <2>7. shorter[0] = view'
    <3>1. shorter[0] = h[1] /\ h[1] = Apply(h[0], wire[1])
      BY <2>2, <2>4, <2>6
    <3> QED  BY <1>4, <2>2, <3>1
  <2>8. shorter[m] = AuditView'
    <3>1. shorter[m] = h[n]
      BY <2>4, <2>6
    <3> QED  BY <1>4, <2>2, <3>1, Zenon
  <2>9. \A j \in 1 .. m : shorter[j] = Apply(shorter[j - 1], wire'[j])
    <3> SUFFICES ASSUME NEW j \in 1 .. m
                 PROVE  shorter[j] = Apply(shorter[j - 1], wire'[j])
      OBVIOUS
    <3>1. j + 1 \in 1 .. n /\ j \in 0 .. m /\ j - 1 \in 0 .. m /\ j - 1 + 1 = j /\ j + 1 - 1 = j
      BY <2>4
    <3>2. shorter[j] = h[j + 1] /\ shorter[j - 1] = h[j]
      BY <2>6, <3>1
    <3>3. h[j + 1] = Apply(h[j], wire[j + 1])
      BY <2>2, <3>1
    <3>4. wire'[j] = wire[j + 1]
      BY <2>3 DEF m
    <3> QED  BY <3>2, <3>3, <3>4, Zenon
  <2>10. Len(wire') = m
    BY <2>3 DEF m
  <2> QED  BY <2>5, <2>7, <2>8, <2>9, <2>10 DEF Leads
<1>5. ASSUME NEW i \in 1 .. Len(wire), missed' = missed \cup {wire[i].type}
      PROVE  FALSE
  BY <1>5
<1> QED  BY <1>2, <1>3, <1>4, <1>5 DEF TrailStep

-----------------------------------------------------------------------------
(* The types: the bridge's count stays within the width of the version. *)

LEMMA ViewWithinWidth ==
  ASSUME NEW v \in Views, MaxU32 \in Nat, v.configChanges <= MaxU32
  PROVE  v \in [admin : Signers \cup {None}, config : Configs \cup {None},
                configChanges : 0 .. MaxU32, scope : SUBSET Tokens,
                frozen : SUBSET (Tokens \X Accounts)]
<1>1. v.configChanges \in 0 .. MaxU32
  BY DEF Views
<1> QED  BY <1>1 DEF Views

LEMMA StepAuditTypeOK ==
  ASSUME AuditTypeOK, CountInv, [AuditNext]_<<vars, auditVars>>
  PROVE  AuditTypeOK' /\ AuditView' \in Views
<1>1. /\ wire \in Seq(Events) /\ Len(wire) \in Nat
      /\ \A k \in 1 .. Len(wire) : wire[k] \in Events
      /\ view \in Views /\ AuditView \in Views /\ configVersion \in Nat /\ configVersion <= MaxU32
      /\ MaxU32 \in Nat /\ Cardinality(Changes) \in Nat
      /\ TypeOK /\ Len(wire) <= MaxInFlight /\ missed \subseteq EventTypes
      /\ MaxInFlight \in Nat
  BY TrailTypes, AuditAssumption DEF AuditTypeOK
<1>2. ASSUME UNCHANGED vars
      PROVE  TypeOK'
  BY <1>1, <1>2, StepTypeOK
<1>3. CASE Transacts
  <2>1. /\ TypeOK' /\ UNCHANGED <<view, missed>>
        /\ tx'.event = None => wire' = wire /\ AuditView' = AuditView
        /\ tx'.event # None => /\ tx'.event \in Events
                               /\ wire' = Append(wire, tx'.event)
                               /\ Len(wire) < MaxInFlight
        /\ AuditView' = Apply(AuditView, tx'.event)
    BY <1>3, TransactsPublishes
  <2>2. wire' \in Seq(Events) /\ Len(wire') <= MaxInFlight
    <3>1. CASE tx'.event = None
      BY <1>1, <2>1, <3>1
    <3>2. CASE tx'.event # None
      <4>1. wire' \in Seq(Events) /\ Len(wire') = Len(wire) + 1
        BY <2>1, <3>2, AppendCounts
      <4> QED  BY <1>1, <2>1, <3>2, <4>1
    <3> QED  BY <3>1, <3>2
  <2>3. AuditView' \in Views
    BY <1>1, <2>1, ApplyFields
  <2> QED  BY <2>1, <2>2, <2>3 DEF AuditTypeOK
<1>4. CASE Delivers
  <2>1. /\ 1 \in 1 .. Len(wire) /\ Removes(1) /\ view' = Apply(view, wire[1])
        /\ UNCHANGED <<vars, missed>>
    BY <1>4, DeliversRemoves
  <2>2. view' \in Views /\ view'.configChanges <= MaxU32
    <3>1. wire[1] \in Events
      BY <1>1, <2>1
    <3>2. CASE IsChange(wire[1])
      <4>1. Cardinality(Changes)' \in Nat /\ Cardinality(Changes) = Cardinality(Changes)' + 1
        BY <2>1, <3>2, RemovalCounts
      <4>2. view' \in Views /\ view'.configChanges = view.configChanges + 1
        BY <1>1, <2>1, <3>1, <3>2, ApplyFields
      <4>3. view.configChanges + Cardinality(Changes) <= configVersion
        BY DEF CountInv
      <4>4. view.configChanges \in Nat
        BY <1>1 DEF Views
      <4> QED  BY <1>1, <4>1, <4>2, <4>3, <4>4
    <3>3. CASE ~ IsChange(wire[1])
      <4>1. view' \in Views /\ view'.configChanges = view.configChanges
        BY <1>1, <2>1, <3>1, <3>3, ApplyFields
      <4>2. view.configChanges <= MaxU32
        BY DEF AuditTypeOK
      <4> QED  BY <4>1, <4>2
    <3> QED  BY <3>2, <3>3
  <2>3. wire' \in Seq(Events) /\ Len(wire') <= MaxInFlight
    BY <1>1, <2>1 DEF Removes
  <2>4. AuditView' \in Views
    BY <1>1, <2>1, SameContract
  <2> QED  BY <1>1, <1>2, <2>1, <2>2, <2>3, <2>4, ViewWithinWidth DEF AuditTypeOK
<1>5. CASE Misses
  <2>1. PICK i \in 1 .. Len(wire) :
          Removes(i) /\ missed' = missed \cup {wire[i].type} /\ UNCHANGED <<vars, view>>
    BY <1>5, MissesRemoves
  <2>2. wire' \in Seq(Events) /\ Len(wire') <= MaxInFlight
    BY <1>1, <2>1 DEF Removes
  <2>3. missed' \subseteq EventTypes
    BY <1>1, <2>1, EventFields
  <2>4. AuditView' \in Views
    BY <1>1, <2>1, SameContract
  <2> QED  BY <1>2, <2>1, <2>2, <2>3, <2>4 DEF AuditTypeOK
<1>6. CASE UNCHANGED <<vars, auditVars>>
  <2>1. UNCHANGED <<vars, wire, view, missed>> /\ AuditView' = AuditView
    BY <1>6, SameContract DEF auditVars
  <2> QED  BY <1>1, <1>2, <2>1 DEF AuditTypeOK
<1> QED  BY <1>3, <1>4, <1>5, <1>6 DEF AuditNext

LEMMA InitAudit ==
  ASSUME AuditInit
  PROVE  AuditTypeOK /\ TrailInv
<1>1. TypeOK /\ wire = <<>> /\ view = AuditView /\ missed = {}
  BY InitTypeOK DEF AuditInit
<1>2. /\ wire \in Seq(Events) /\ Len(wire) = 0 /\ DOMAIN wire = {}
      /\ MaxU32 \in Nat /\ 0 <= MaxInFlight
  BY <1>1, AuditAssumption, MaxU32Assumption
<1>3. AuditView \in Views /\ configVersion \in Nat /\ configVersion <= MaxU32
  <2>1. /\ configVersion \in Nat /\ configVersion <= MaxU32
        /\ admin \in Signers \cup {None} /\ config \in Configs \cup {None}
        /\ frozen \in SUBSET (Tokens \X Accounts)
    BY <1>1, <1>2 DEF TypeOK
  <2> QED  BY <2>1 DEF AuditView, Views
<1>4. view.configChanges = configVersion /\ view.config = config
  BY <1>1, ViewFields
<1>5. AuditTypeOK
  BY <1>1, <1>2, <1>3, <1>4, ViewWithinWidth DEF AuditTypeOK
<1>6. Changes = {} /\ ~ MissedChange
  BY <1>1, <1>2 DEF Changes, MissedChange
<1>7. Cardinality({}) = 0
  BY FS_EmptySet
<1>8. CountInv
  BY <1>3, <1>4, <1>6, <1>7 DEF CountInv
<1>9. ConfigInv
  BY <1>4, <1>6 DEF ConfigInv
<1>10. PathInv
  <2> DEFINE h == [j \in 0 .. 0 |-> view]
  <2>1. h \in [0 .. Len(wire) -> Views] /\ h[0] = view
    BY <1>1, <1>2, <1>3
  <2>2. 1 .. Len(wire) = {}
    BY <1>2
  <2> HIDE DEF h
  <2> QED  BY <1>1, <1>2, <2>1, <2>2 DEF PathInv, Leads
<1> QED  BY <1>5, <1>8, <1>9, <1>10 DEF TrailInv

LEMMA StepAudit ==
  ASSUME AuditTypeOK, TrailInv, [AuditNext]_<<vars, auditVars>>
  PROVE  AuditTypeOK' /\ TrailInv'
<1>1. AuditTypeOK' /\ AuditView' \in Views
  BY StepAuditTypeOK DEF TrailInv
<1> QED  BY <1>1, StepIsTrailStep, StepCount, StepConfig, StepPath DEF TrailInv

(***************************************************************************)
(* The bridge's view keeps its types whatever is missed: its count of      *)
(* configuration events never passes the version it is held against.       *)
(***************************************************************************)
THEOREM TrailTypeCorrect == AuditSpec => []AuditTypeOK
  BY InitAudit, StepAudit, PTL DEF AuditSpec

(***************************************************************************)
(* However long it lagged behind, a bridge that has seen every event       *)
(* believes of the authority, the configuration, the scope and every       *)
(* freeze exactly what is on the ledger.                                   *)
(***************************************************************************)
THEOREM EvidenceIsComplete == AuditSpec => []CaughtUpIsRight
<1>1. AuditTypeOK /\ TrailInv => CaughtUpIsRight
  <2> SUFFICES ASSUME AuditTypeOK, TrailInv, wire = <<>>, missed = {}
               PROVE  view = AuditView
    BY DEF CaughtUpIsRight
  <2>1. PICK h \in [0 .. Len(wire) -> Views] : Leads(h)
    BY DEF TrailInv, PathInv
  <2> QED  BY <2>1 DEF Leads
<1> QED  BY <1>1, InitAudit, StepAudit, PTL DEF AuditSpec

(***************************************************************************)
(* Holding the count of configuration events against config_version()      *)
(* shows a missed change of the configuration, and never accuses a bridge  *)
(* that missed none, whatever was lost and in whatever order.              *)
(***************************************************************************)
THEOREM GapsShow == AuditSpec => []VersionShowsGaps
<1>1. AuditTypeOK /\ TrailInv => VersionShowsGaps
  <2> SUFFICES ASSUME AuditTypeOK, TrailInv
               PROVE  VersionShowsGaps
    OBVIOUS
  <2>1. /\ view.configChanges \in Nat /\ configVersion \in Nat
        /\ Cardinality(Changes) \in Nat /\ IsFiniteSet(Changes)
    BY TrailTypes
  <2>2. Cardinality(Changes) = 0 <=> Changes = {}
    BY <2>1, FS_EmptySet
  <2>3. CASE view.configChanges = configVersion
    <3>1. ~ MissedChange /\ Changes = {}
      BY <2>1, <2>2, <2>3 DEF TrailInv, CountInv
    <3>2. view.config = config
      BY <3>1 DEF TrailInv, ConfigInv
    <3> QED  BY <2>3, <3>1, <3>2 DEF VersionShowsGaps, MissedChange
  <2>4. CASE view.configChanges # configVersion
    <3>1. wire = <<>> => Changes = {}
      BY DEF Changes
    <3>2. wire = <<>> => MissedChange
      BY <2>1, <2>2, <2>4, <3>1 DEF TrailInv, CountInv
    <3> QED  BY <2>4, <3>2 DEF VersionShowsGaps, MissedChange
  <2> QED  BY <2>3, <2>4
<1> QED  BY <1>1, InitAudit, StepAudit, PTL DEF AuditSpec
-----------------------------------------------------------------------------
(***************************************************************************)
(* Nothing a bridge does or misses reaches the contract: behind a bridge   *)
(* it runs as it does alone, so whatever is proved of it holds here too.   *)
(***************************************************************************)
THEOREM BridgeOnlyFollows == AuditSpec => Spec
<1>1. AuditInit => Init
  BY DEF AuditInit
<1>2. [AuditNext]_<<vars, auditVars>> => [Next]_vars
  BY DEF AuditNext, Transacts, Delivers, Misses, Next
<1> QED  BY <1>1, <1>2, PTL DEF AuditSpec, Spec
=============================================================================
