CONSTANTS
  None = None
  Signers = {s1}
  Tokens = {t1}
  Accounts = {a1}
  Policies = {p1}
  Sacs = {c1}
  MaxU32 = 1
SPECIFICATION AdminSpec
PROPERTIES SetConfigHealsStamp
