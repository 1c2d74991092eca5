SPECIFICATION WakeSpec
CONSTANTS
  Addr = {a1}
  Thread = {t1}
  CUR_CALL_NUM = 2
  MaxCalls = 2
  NULL = NULL
INVARIANT CanUseD
CHECK_DEADLOCK FALSE
