SPECIFICATION Spec
CONSTANTS
  SeqMod = 4
  MaxRetry = 2
  InitialSeqs = {1}
  GarbageBases = {0}
INVARIANT SilenceMeansArrived
