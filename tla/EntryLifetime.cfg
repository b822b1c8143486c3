CONSTANTS
  None = None
  op = op
  t1 = t1
  a1 = a1
  a2 = a2
  p1 = p1
  Signers = {op}
  Tokens = {t1}
  Accounts = {a1, a2}
  Policies = {p1}
  Sacs = {}
  MaxU32 = 1
  Threshold = 2
  ExtendTo = 3
  MinTtl = 4
SPECIFICATION LifetimeSpec
VIEW LifetimeView
INVARIANTS LifetimeTypeOK ReadEntriesStayLive
PROPERTIES HooksRenewNoFlag
