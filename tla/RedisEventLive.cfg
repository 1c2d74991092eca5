SPECIFICATION FairCalmSpec
CONSTANTS
  Addr = {a1, a2}
  Thread = {t1, t2}
  CUR_CALL_NUM = 4
  MaxCalls = 2
  NULL = NULL
INVARIANT Accounting
PROPERTIES Gathered AsyncCalledBack CmdReturns
CHECK_DEADLOCK FALSE
