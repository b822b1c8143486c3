CONSTANTS
  None = None
  Signers = {s1, s2}
  Tokens = {t1, t2}
  Accounts = {a1}
  Policies = {p1}
  Sacs = {c1}
  MaxU32 = 2
SYMMETRY Symmetry
SPECIFICATION Spec
INVARIANTS TypeOK LifecycleOrder
PROPERTIES EventsTellAll NoSpuriousEvent RewriteStampsLayout ImplementsLedger
