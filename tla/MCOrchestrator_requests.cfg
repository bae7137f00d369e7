SPECIFICATION Spec
CONSTANTS
  a = a
  b = b
  c = c
  Task = {a, b}
  Deps <- ChainDeps
  Worker = {w1}
  Api = {api1}
  Http = http
  NoEvent = NoEvent
  NoTask = NoTask
  MaxAttempts = 2
  MaxReworks = 1
  PolicyGate = FALSE
  Critic = FALSE
  RetryPolicy = "transient"
  BadInput = {}
  ErrorKind = {"transient", "runtime", "contract"}
  Faults <- RequestsOrCrash
INVARIANTS
  NoTaskAbandoned
  RetriesAreBounded
PROPERTIES
  CancelSticks
CHECK_DEADLOCK FALSE
