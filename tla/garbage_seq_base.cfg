SPECIFICATION FairSpec
CONSTANTS
  SeqMod = 8
  Unit = 2
  InitialSeqs = {6}
  FileSizes = {2}
  GarbageBases = {7}
PROPERTY Termination
