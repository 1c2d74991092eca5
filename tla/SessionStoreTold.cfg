SPECIFICATION Spec
CONSTANTS
  User = {u1, u2}
  Conn = {c1}
  Gate = {g1}
  Logic = {l1, l2}
  Redis = {r1, r2}
  u1 = u1
  u2 = u2
  r1 = r1
  r2 = r2
  Home <- TwoHomes
  CliType = {"test"}
  Ep <- Lives
  MaxDelay = 1
  MaxEntries = 2
  NULL = NULL
SYMMETRY SymmetryOfHomes
INVARIANT ToldOnce
