\* Three owners may call Stop, the callback may or may not call Stop, and
\* memory may read over the limit up to four times.  Run may really stop (it exits,
\* is replaced by exec, or the process panics), hence no deadlock check.
CONSTANTS
  Owners = {o1, o2, o3}
  MemoryLimitSet = TRUE
  DelegateStops = {TRUE, FALSE}
  MaxSignals = 4
SPECIFICATION Spec
CHECK_DEADLOCK FALSE
PROPERTY StopEventuallyExits
