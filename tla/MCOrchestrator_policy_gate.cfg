SPECIFICATION FairSpec
CONSTANTS
  a = a
  b = b
  c = c
  Task = {a, b, c}
  Deps <- JoinDeps
  Worker = {w1, w2}
  Api = {api1}
  Http = http
  NoEvent = NoEvent
  NoTask = NoTask
  MaxAttempts = 2
  MaxReworks = 1
  PolicyGate = TRUE
  Critic = FALSE
  RetryPolicy = "none"
  BadInput = {c}
  ErrorKind = {"transient", "runtime", "contract"}
  Faults <- OneServiceCrash
INVARIANTS
  OneCopyInFlight
  RunsAfterDependencies
PROPERTIES
  OutcomeIsFinal
  JobEnds
CHECK_DEADLOCK FALSE
