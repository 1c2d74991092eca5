SPECIFICATION BusySpec
CONSTANTS
  Addr = {a1}
  Thread = {}
  CUR_CALL_NUM = 2
  MaxCalls = 4
  NULL = NULL
INVARIANT RepliesCanUseD
CHECK_DEADLOCK FALSE
