SPECIFICATION Spec
CONSTANTS
  SeqMod = 8
  Unit = 4
  InitialSeqs = {1}
  FileSizes = {4}
  GarbageBases = {0}
PROPERTY RecoveryInflatesWindow
