CONSTANTS
  None = None
  op = op
  other = other
  usd = usd
  eur = eur
  t1 = t1
  t2 = t2
  cadx = cadx
  p1 = p1
  c1 = c1
  a1 = a1
  Signers = {op, other}
  Tokens = {t1, t2}
  Accounts = {}
  Policies = {p1}
  Sacs = {c1}
  MaxU32 = 2
  Texts = {usd, eur, t1, t2}
  AddressLike = {t1, t2}
  InitialRecords <- TwoTokenRecords
  AdminSecret = op
  MaxOthers = 1
SPECIFICATION CliSpec
VIEW DeployView
INVARIANTS RecordAgrees RecordedContractIsOurs ScopeAfterConfiguration
PROPERTIES DeployIsNotRefused TornRecordIsInert 
