SPECIFICATION Spec
CONSTANTS
  SeqMod = 8
  Unit = 4
  InitialSeqs = {1}
  FileSizes = {1}
  GarbageBases = {0}
INVARIANT SenderSuccessMeansFile
