SPECIFICATION Spec
CONSTANTS
  a = a
  b = b
  c = c
  Task = {a, b, c}
  Deps <- JoinDeps
  Worker = {w1, w2}
  Api = {api1}
  Http = http
  NoEvent = NoEvent
  NoTask = NoTask
  MaxAttempts = 2
  MaxReworks = 1
  PolicyGate = FALSE
  Critic = FALSE
  RetryPolicy = "transient"
  BadInput = {c}
  ErrorKind = {"transient", "runtime", "contract"}
  Faults <- OneApiError
INVARIANTS
  OneCopyInFlight
PROPERTIES
  OutcomeIsFinal
CHECK_DEADLOCK FALSE
