SPECIFICATION FairSpec
CONSTANTS
  Event = {e1, e2}
  Dispatcher = {d1, d2}
  BatchSize = 1
  Budget <- SmallBudget
INVARIANTS
  LossTakesThreeRefusals
PROPERTIES
  DeliversAtLeastOnce
CHECK_DEADLOCK FALSE
