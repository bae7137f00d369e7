SPECIFICATION FairSpec
CONSTANTS
  a = a
  b = b
  c = c
  Task = {a, b, c}
  Deps <- JoinDeps
  Worker = {w1, w2}
  Api = {api1}
  Http = http
  NoEvent = NoEvent
  NoTask = NoTask
  MaxAttempts = 2
  MaxReworks = 1
  PolicyGate = FALSE
  Critic = FALSE
  RetryPolicy = "transient"
  BadInput = {}
  ErrorKind = {"transient", "runtime", "contract"}
  Faults <- NoFault
INVARIANTS
  TypeOK
  OneCopyInFlight
  SucceededJobIsDone
  RunsAfterDependencies
PROPERTIES
  TaskStatusFollowsMachine
  ExecutesPlan
CHECK_DEADLOCK FALSE
