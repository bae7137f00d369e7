CONSTANTS
  a1 = a1
  a2 = a2
  a3 = a3
  NoAgent = NoAgent
  Agent <- ThreeAgents
  Ttl = 3
SYMMETRY AnyOrder
SPECIFICATION Spec
INVARIANTS
  TypeOK
  LockIsExclusive
  RefusedWhileHeld
  RaceNeedsExpiry
