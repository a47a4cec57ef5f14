\* a builtin driver and a child process;
\* the run ends when both operations have returned
CONSTANTS
  Callers = {x1, x2}
  Builtin = {x1}
  Ports = {port1, port2}
SPECIFICATION FairSpec
CHECK_DEADLOCK FALSE
INVARIANTS StopAfterHealthCheck NothingLeftBehind RightDriver
PROPERTIES StartReturns DriverEnds
