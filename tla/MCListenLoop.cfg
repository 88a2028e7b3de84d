CONSTANTS
  Starters = {l1, l2, l3}
  Kinds = {"FSDJump", "Docked", "other", "garbled"}
  LateBound = 3
SPECIFICATION FairSpec
INVARIANTS
  TypeOK
  OneLoop
  OneLateEvent
PROPERTIES
  LoopLeaves
CHECK_DEADLOCK FALSE
