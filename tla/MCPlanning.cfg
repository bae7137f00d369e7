CONSTANTS
  a = a
  b = b
  NoEvent = NoEvent
  Name <- TwoTasks
  Deps <- Independent
  PlanShape <- WholeOrRest
  MaxPlans = 3
  Adaptive = TRUE
  MaxReplans = 1
  ErrorKind = {"exhausted"}
  Faults <- SomeFaults
SPECIFICATION Spec
CHECK_DEADLOCK FALSE
INVARIANTS
  TypeOK
  PlansAreRequested
  NoRequestForgotten
  OnlyActivePlanWaits
PROPERTIES
  
  WaitEnds
