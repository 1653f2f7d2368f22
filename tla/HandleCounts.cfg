SPECIFICATION Spec
CONSTANTS
  Threads = {t1, t2}
  MaxOwned = 3
INVARIANTS
  CountsInv
  CanMutExclusive
