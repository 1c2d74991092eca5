SPECIFICATION FairSpec
CONSTANTS
  User = {u1}
  Conn = {c1, c2}
  Gate = {g1, g2}
  Logic = {l1}
  Redis = {r1}
  u1 = u1
  u2 = u2
  r1 = r1
  r2 = r2
  Home <- OneHome
  CliType = {"test", "phone"}
  Ep <- Lives
  MaxDelay = 2
  MaxEntries = 2
  NULL = NULL
INVARIANTS TypeOK Indexed SweptOnlyAway
PROPERTY StaleGoes
