SPECIFICATION Spec
CONSTANTS
  a = a
  b = b
  c = c
  Task = {a, b}
  Deps <- ChainDeps
  Worker = {w1, w2}
  Api = {api1}
  Http = http
  NoEvent = NoEvent
  NoTask = NoTask
  MaxAttempts = 2
  MaxReworks = 1
  PolicyGate = FALSE
  Critic = FALSE
  RetryPolicy = "none"
  BadInput = {}
  ErrorKind = {"transient", "runtime", "contract"}
  Faults <- OneSteal
INVARIANTS
  RetriesAreBounded
CHECK_DEADLOCK FALSE
