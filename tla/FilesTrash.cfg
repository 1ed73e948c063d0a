SPECIFICATION Spec
CONSTANTS
  Nil = Nil
  Proc = {p, q}
  p = p
  q = q
  Pid <- MCPid
  File = {"f", "g", "h"}
  Place = {"docs", "work"}
  Start <- MCStart
  MaxSlot = 3
  MaxOps = 3
  Envs = {{"trash", "untrash", "restore"},
          {"trash", "delete", "untrash", "other", "alone"},
          {"trash", "restore", "kill"},
          {"trash", "restore", "copy", "fail"},
          {"trash", "untrash", "fail", "alone"},
          {"trash", "sync", "restore"},
          {"trash", "empty", "restore"},
          {"trash", "empty", "alone"}}
SYMMETRY MCThreads
CHECK_DEADLOCK FALSE
INVARIANTS  CanGoBack  
