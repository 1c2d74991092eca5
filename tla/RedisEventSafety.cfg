SPECIFICATION CalmSpec
CONSTANTS
  Addr = {a1, a2}
  Thread = {t1, t2}
  CUR_CALL_NUM = 2
  MaxCalls = 3
  NULL = NULL
SYMMETRY Symmetry
INVARIANTS TypeOK Ownership CanUseD Accounted CompleteUnlessTimeout AsyncTracked
PROPERTY ResultFrozen
CHECK_DEADLOCK FALSE
