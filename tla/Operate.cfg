CONSTANTS
  None = None
  op = op
  other = other
  usd = usd
  eur = eur
  t1 = t1
  t2 = t2
  cadx = cadx
  p1 = p1
  c1 = c1
  a1 = a1
  Signers = {op, other}
  Tokens = {t1}
  Accounts = {a1}
  Policies = {p1}
  Sacs = {c1}
  MaxU32 = 2
  Texts = {usd, t1, cadx, eur}
  AddressLike = {t1, cadx}
  InitialRecords <- OneTokenRecords
  AdminSecret = None
  MaxOthers = 0
SPECIFICATION CliSpec
VIEW OperateView
INVARIANTS CliTypeOK
PROPERTIES RepeatIsAccepted SacLostByAddressOnly
