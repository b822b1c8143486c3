CONSTANTS
  None = None
  op = op
  other = other
  usd = usd
  eur = eur
  t1 = t1
  t2 = t2
  cadx = cadx
  p1 = p1
  c1 = c1
  a1 = a1
  Signers = {op}
  Tokens = {t1}
  Accounts = {}
  Policies = {}
  Sacs = {c1}
  MaxU32 = 1
  Texts = {usd, t1, cadx, eur}
  AddressLike = {t1, cadx}
  InitialRecords <- OneTokenRecords
  AdminSecret = op
  MaxOthers = 0
SPECIFICATION FairCliSpec
PROPERTIES EveryCommandEnds
