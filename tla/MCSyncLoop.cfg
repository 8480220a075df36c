SPECIFICATION FairSpec
CONSTANTS
  r1 = r1
  r2 = r2
  n1 = n1
  Restarters = {r1, r2}
  Resyncers = {n1}
  MaxLoops = 4
INVARIANT TypeOK
INVARIANT OneSync
INVARIANT LiveLoopIsCurrent
PROPERTY StoppedLoopsEnd
PROPERTY SyncsGoOn
CHECK_DEADLOCK FALSE
