CONSTANTS
  None = None
  Signers = {s1}
  Tokens = {t1}
  Accounts = {a1}
  Policies = {p1}
  Sacs = {c1}
  MaxU32 = 3
  MaxInFlight = 3
SPECIFICATION AuditSpec
VIEW TrailView
INVARIANTS AuditTypeOK CaughtUpIsRight VersionShowsGaps
