CONSTANTS
  None = None
  Signers = {s1}
  Tokens = {t1}
  Accounts = {a1, a2}
  Policies = {p1}
  Sacs = {c1}
  MaxU32 = 2
  Supply = 1
SYMMETRY Symmetry
VIEW LedgerView
SPECIFICATION LedgerSpec
INVARIANTS LedgerTypeOK
PROPERTIES OnlyClearedFundsMove
