SPECIFICATION Spec
CONSTANTS
  r1 = r1
  r2 = r2
  n1 = n1
  Restarters = {r1, r2}
  Resyncers = {n1}
  MaxLoops = 4
INVARIANT RestartReplaces
CHECK_DEADLOCK FALSE
