SPECIFICATION Spec
CONSTANTS
  a = a
  b = b
  c = c
  Task = {a, b}
  Deps <- ChainDeps
  Worker = {w1, w2}
  Api = {api1, api2}
  Http = http
  NoEvent = NoEvent
  NoTask = NoTask
  MaxAttempts = 2
  MaxReworks = 1
  PolicyGate = FALSE
  Critic = FALSE
  RetryPolicy = "transient"
  BadInput = {}
  ErrorKind = {"transient", "runtime", "contract"}
  Faults <- NoFault
PROPERTIES
  TaskStatusFollowsMachine
CHECK_DEADLOCK FALSE
