SPECIFICATION Spec
CONSTANTS
  Thread = {t1, t2}
  t1 = t1
  t2 = t2
  Call = {r1, r2}
  r1 = r1
  r2 = r2
  Addr = {1, 2}
  MaxFaults = 2
INVARIANTS TypeOK
PROPERTY Healed
