CONSTANTS
  None = None
  Placeholder = Placeholder
  op = op
  other = other
  usd = usd
  t1 = t1
  p1 = p1
  p2 = p2
  c1 = c1
  a1 = a1
  Signers = {op, other}
  Tokens = {op, t1}
  Accounts = {a1}
  Policies = {p1, p2}
  Sacs = {}
  MaxU32 = 1
  Texts = {usd, op, t1}
  AddressLike = {op, t1}
  CheckedRecords <- MCCheckedRecords
  MaxMeanwhile = 0
SPECIFICATION VerifySpec
VIEW VerifyView
INVARIANTS RecordedPolicyIsLive
CHECK_DEADLOCK FALSE
