SPECIFICATION FairSpec
CONSTANTS
  a = a
  b = b
  c = c
  Task = {a, b}
  Deps <- ChainDeps
  Worker = {w1, w2}
  Api = {api1}
  Http = http
  NoEvent = NoEvent
  NoTask = NoTask
  MaxAttempts = 2
  MaxReworks = 1
  PolicyGate = FALSE
  Critic = FALSE
  RetryPolicy = "any"
  BadInput = {}
  ErrorKind = {"transient", "runtime", "contract"}
  Faults <- WorkerFaults
INVARIANTS
  NoTaskAbandoned
  RetriesAreBounded
PROPERTIES
  JobEnds
CHECK_DEADLOCK FALSE
