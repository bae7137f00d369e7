CONSTANTS
  t1 = t1
  t2 = t2
  t3 = t3
  r1 = r1
  r2 = r2
  f1 = f1
  f2 = f2
  NoTurn = NoTurn
  Bounds <- SomeBounds
  Turn <- Turns
  Replica <- Replicas
  Field <- Fields
SYMMETRY Alike
SPECIFICATION Spec
CHECK_DEADLOCK FALSE
INVARIANTS
  TypeOK
  AnsweredOnce
  ConflictNeedsOverlap
  LossTakesTwoWrites
PROPERTIES
  StaleWriteIsCounted
  AnswersKept
